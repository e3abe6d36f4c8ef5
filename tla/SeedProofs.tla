----------------------------- MODULE SeedProofs -----------------------------
(***************************************************************************)
(* Proofs about Seed, for any seeds and rooms: the checks of an accepted   *)
(* world are enough.  Each search is shown to find all that its loop is    *)
(* for, and a player never to leave what was found.                        *)
(***************************************************************************)
EXTENDS Seed, SequenceTheorems, TLAPS

-----------------------------------------------------------------------------
(* The inductive invariants. *)

\* The files so far: no room is in two of them.
Merged ==
  /\ seed \in Seeds /\ (Careless \/ Careful(seed))
  /\ loaded.files \in 0..Len(seed.files)
  /\ \A r \in loaded.rooms : \E i \in 1..loaded.files : r \in seed.files[i]
  /\ \A i \in 1..loaded.files : seed.files[i] \subseteq loaded.rooms
  /\ \A i, j \in 1..loaded.files : i # j => seed.files[i] \cap seed.files[j] = {}
  /\ stage \notin {"loading", "refused"} => loaded.files = Len(seed.files)

\* Where characters begin and may find themselves.
Begins == {seed.start} \cup seed.begin \cup seed.teleports \cup seed.maroons

\* What none of the records' checks found wrong.
Checked ==
  ~(exit_problems \/ shrine_problems \/ _route_problems \/ start_problems \/ _character_problems
      \/ _event_problems \/ _teleport_problems)

\* A search has gone wherever an edge leads from what it has seen.
Onward(edges, found, left) ==
  \A e \in edges : e[1] \in found /\ e[2] \in Places => e[2] \in found \cup left

\* No way out of it but by the home realm's start.
Homeward(r) == \A rooms \in SUBSET Rooms : r \in rooms /\ Closed(rooms) => seed.start \in rooms

\* What the search backward has found leads home, or is where one is marooned.
Leads(found) == \A r \in found : r \in seed.maroons \/ Homeward(r)

\* Where a player is: among what was found or, held, where the road will be
\* taken up again.
Placed ==
  /\ ~held => at \in reached \ seed.maroons
  /\ held => /\ at \in reached \/ at \in seed.maroons \cap Waypoints
             /\ {seed.to, seed.strand} \ {NoRoom} \subseteq reached

\* The searches of the world's graph.
Searched ==
  /\ stage \notin {"loading", "refused"} /\ ~problem => Checked
  /\ stage = "reach" =>
       /\ Begins \cap Places \subseteq seen \cup todo
       /\ seen \cup todo \subseteq Places
       /\ Onward(world_graph, seen, todo)
  /\ stage \in {"home", "quest", "open"} =>
       /\ Begins \cap Places \subseteq reached
       /\ reached \subseteq Places
       /\ Onward(world_graph, reached, {})
       /\ ~problem => Places \subseteq reached \cup seed.cutOff
  /\ stage = "home" => Leads(seen \cup todo)
  /\ stage \in {"quest", "open"} /\ ~problem => Leads(reached)
  /\ stage = "open" => ~problem /\ Placed

\* Nobody is held before the world is open.
Unheld == stage # "open" => held = FALSE

MapInv == Merged /\ Searched /\ Unheld

\* The steps of a quest in the order they come in.
Trail(trail) ==
  /\ trail \in Seq(Defined)
  /\ \A i, j \in 1..Len(trail) : i # j => trail[i] # trail[j]
  /\ Len(trail) > 0 => trail[1] = seed.first
  /\ \A i \in 1..Len(trail) - 1 : trail[i + 1] = seed.then[trail[i]]

Along(trail, k) == {trail[i] : i \in 1..k}

\* What comes after the trail, as far as it goes.
Ahead(trail) == IF trail = <<>> THEN seed.first ELSE seed.then[trail[Len(trail)]]

\* A quest in an open world, k steps along.
OnTrail(trail, k) ==
  /\ Trail(trail) /\ Defined = Along(trail, Len(trail)) /\ Ahead(trail) = Done
  /\ been = Along(trail, k)
  /\ step = IF k = Len(trail) THEN Done ELSE trail[k + 1]

\* The quest's loop goes along it, and a player does after it.
QuestInv ==
  /\ seed \in Seeds
  /\ stage \in {"loading", "reach", "home", "quest"} => been = {}
  /\ stage = "quest" => \E trail : /\ Trail(trail) /\ seen = Along(trail, Len(trail))
                                   /\ todo \subseteq {Ahead(trail)}
  /\ stage = "open" => \E trail : \E k \in 0..Len(trail) : OnTrail(trail, k)

-----------------------------------------------------------------------------
(* The files. *)

LEMMA SeedIs ==
  ASSUME seed \in Seeds
  PROVE  /\ seed.files \in Seq(SUBSET Rooms) /\ Len(seed.files) \in Nat \ {0}
         /\ \A i \in 1..Len(seed.files) : seed.files[i] \subseteq Rooms
         /\ seed.exits \subseteq Rooms \X Rooms
         /\ {seed.start, seed.shrine, seed.from, seed.to} \cup seed.begin \subseteq Rooms
         /\ seed.teleports \cup seed.maroons \cup seed.cutOff \subseteq Rooms
         /\ NoRoom \notin Rooms
         /\ Defined \subseteq Steps /\ Done \notin Steps
<1>1. seed.files \in Seq(SUBSET Rooms) /\ seed.files # <<>>
  BY SeedAssumption DEF SeedAssumption
<1>2. Len(seed.files) \in Nat \ {0} /\ \A i \in 1..Len(seed.files) : seed.files[i] \in SUBSET Rooms
  BY <1>1, LenProperties, EmptySeq
<1> QED BY <1>1, <1>2, SeedAssumption DEF SeedAssumption, Defined

LEMMA InitMerged == Init => Merged
<1> SUFFICES ASSUME Init PROVE Merged
  OBVIOUS
<1>1. loaded.files = 0 /\ loaded.rooms = {} /\ seed \in Seeds /\ stage = "loading" /\ (Careless \/ Careful(seed))
  BY DEF Init
<1>2. Len(seed.files) \in Nat
  BY <1>1, SeedIs
<1> QED BY <1>1, <1>2 DEF Merged

LEMMA LoadMerged == ASSUME Merged, load_seed PROVE Merged'
<1> DEFINE n == loaded.files + 1
           zone == seed.files[n]
<1>1. Len(seed.files) \in Nat /\ n \in 1..Len(seed.files) /\ stage = "loading" /\ seed' = seed /\ seed \in Seeds
  BY SeedIs DEF Merged, load_seed
<1>2. CASE stage' = "refused" /\ UNCHANGED loaded
  BY <1>1, <1>2 DEF Merged, Careful
<1>3. CASE /\ clash(zone) = {} /\ stage' = stage
           /\ loaded' = [files |-> n, rooms |-> loaded.rooms \cup zone]
  <2>1. loaded'.files = n /\ loaded'.rooms = loaded.rooms \cup zone /\ loaded.rooms \cap zone = {}
    BY <1>3 DEF clash
  <2>2. 1..n = 1..loaded.files \cup {n} /\ n \notin 1..loaded.files
    BY DEF Merged
  <2> HIDE DEF n
  <2>3. \A i \in 1..loaded.files : seed.files[i] \cap zone = {}
    BY <2>1 DEF Merged
  <2>4. \A i, j \in 1..n : i # j => seed.files[i] \cap seed.files[j] = {}
    BY <2>2, <2>3 DEF Merged
  <2>5. \A r \in loaded'.rooms : \E i \in 1..n : r \in seed.files[i]
    BY <2>1, <2>2 DEF Merged
  <2>6. \A i \in 1..n : seed.files[i] \subseteq loaded'.rooms
    BY <2>1, <2>2 DEF Merged
  <2>7. Careless \/ Careful(seed')
    BY <1>1 DEF Merged
  <2>8. stage' = "loading"
    BY <1>1, <1>3
  <2> QED BY <1>1, <2>1, <2>4, <2>5, <2>6, <2>7, <2>8 DEF Merged
<1> QED BY <1>2, <1>3 DEF load_seed

\* The rest leaves the files as they are.
LEMMA MergedStays ==
  ASSUME Merged, UNCHANGED <<seed, loaded>>, stage' \notin {"loading", "refused"} => loaded.files = Len(seed.files)
  PROVE  Merged'
BY DEF Merged

LEMMA StepMerged == Merged /\ [Next]_vars => Merged'
<1> SUFFICES ASSUME Merged, [Next]_vars PROVE Merged'
  OBVIOUS
<1>1. CASE load_seed
  BY <1>1, LoadMerged
<1>2. CASE validate_seed
  BY <1>2, MergedStays DEF validate_seed
<1>3. CASE ~load_seed /\ ~validate_seed
  <2>1. /\ UNCHANGED <<seed, loaded>>
        /\ stage' = stage \/ stage \notin {"loading", "refused"}
    BY <1>3 DEF Next, vars, Reaching, Reached, Homing, Homed, Questing, Decided, Walk, Ride, Mend, Teleported,
                Dies, Goes, Progress
  <2> QED BY <2>1, MergedStays DEF Merged
<1> QED BY <1>1, <1>2, <1>3

-----------------------------------------------------------------------------
(* The searches. *)

LEMMA SameWorld ==
  ASSUME UNCHANGED <<seed, loaded>>
  PROVE  /\ Checked' <=> Checked
         /\ world_graph' = world_graph /\ Begins' = Begins /\ Places' = Places
         /\ \A r : Homeward(r)' <=> Homeward(r)
<1>1. Checked' <=> Checked
  BY DEF Checked, exit_problems, shrine_problems, _route_problems, start_problems, _character_problems,
         _event_problems, _teleport_problems, Known
<1>2. world_graph' = world_graph /\ Begins' = Begins /\ Places' = Places
  BY DEF world_graph, Begins, Places
<1>3. \A r : Homeward(r)' <=> Homeward(r)
  BY DEF Homeward, Closed
<1> QED BY <1>1, <1>2, <1>3

LEMMA EdgesIs ==
  ASSUME seed \in Seeds
  PROVE  \A e \in world_graph : e[2] \in Places /\ e = <<e[1], e[2]>>
BY SeedIs DEF world_graph

\* A turn of the loop keeps what the search knows.
LEMMA ReachOnward ==
  ASSUME NEW edges, \A e \in edges : e = <<e[1], e[2]>>, Onward(edges, seen, todo), _reach(edges)
  PROVE  /\ \A e \in edges : e[1] \in seen' /\ e[2] \in Places => e[2] \in seen' \cup todo'
         /\ seen \cup todo \subseteq seen' \cup todo'
         /\ seen' \cup todo' \subseteq seen \cup todo \cup Places
<1>1. PICK rid \in todo :
        IF rid \in seen THEN todo' = todo \ {rid} /\ UNCHANGED seen
        ELSE /\ seen' = seen \cup {rid}
             /\ todo' = (todo \ {rid}) \cup {r \in Places \ seen : <<rid, r>> \in edges}
  BY DEF _reach
<1>2. CASE rid \in seen
  BY <1>1, <1>2 DEF Onward
<1>3. CASE rid \notin seen
  <2>1. seen' = seen \cup {rid} /\ todo' = (todo \ {rid}) \cup {r \in Places \ seen : <<rid, r>> \in edges}
    BY <1>1, <1>3
  <2>2. ASSUME NEW e \in edges, e[1] \in seen', e[2] \in Places PROVE e[2] \in seen' \cup todo'
    <3>1. CASE e[1] \in seen
      BY <2>1, <2>2, <3>1 DEF Onward
    <3>2. CASE e[1] = rid
      <4>1. e = <<rid, e[2]>>
        BY <3>2
      <4> QED BY <2>1, <2>2, <4>1
    <3> QED BY <2>1, <2>2, <3>1, <3>2
  <2> QED BY <2>1, <2>2
<1> QED BY <1>2, <1>3

LEMMA RoomsIs ==
  ASSUME Merged
  PROVE  loaded.rooms \subseteq Rooms /\ NoRoom \notin loaded.rooms
<1>1. \A i \in 1..loaded.files : i \in 1..Len(seed.files)
  BY SeedIs DEF Merged
<1>2. \A i \in 1..loaded.files : seed.files[i] \subseteq Rooms
  BY <1>1, SeedIs DEF Merged
<1> QED BY <1>2, SeedIs DEF Merged

\* What an edge leads from, to a room with a way home, has a way home.
LEMMA HomewardBack ==
  ASSUME Merged, NEW e \in world_graph, Homeward(e[2])
  PROVE  Homeward(e[1])
<1>1. \/ e \in seed.exits
      \/ e[1] = seed.from /\ e[2] \in {seed.to, seed.strand} \ {NoRoom}
  BY RoomsIs DEF world_graph, Places
<1>2. ASSUME NEW rooms \in SUBSET Rooms, e[1] \in rooms, Closed(rooms) PROVE seed.start \in rooms
  <2>1. e[2] \in rooms
    BY <1>1, <1>2 DEF Closed
  <2> QED BY <1>2, <2>1 DEF Homeward
<1> QED BY <1>2 DEF Homeward

\* So the search backward finds rooms that lead home: no edge leads into a room
\* people are marooned in.
LEMMA LeadsBack ==
  ASSUME Merged, Careful(seed), Leads(seen \cup todo), _reach(Back(world_graph)), UNCHANGED <<seed, loaded>>
  PROVE  Leads(seen \cup todo)'
<1>1. PICK rid \in todo :
        IF rid \in seen THEN todo' = todo \ {rid} /\ UNCHANGED seen
        ELSE /\ seen' = seen \cup {rid}
             /\ todo' = (todo \ {rid}) \cup {r \in Places \ seen : <<rid, r>> \in Back(world_graph)}
  BY DEF _reach
<1>2. ASSUME NEW r, <<rid, r>> \in Back(world_graph) PROVE Homeward(r)
  <2>1. PICK e \in world_graph : <<rid, r>> = <<e[2], e[1]>>
    BY <1>2 DEF Back
  <2>2. e[1] = r /\ e[2] = rid /\ rid \in Places
    BY <2>1, EdgesIs DEF Merged
  <2>3. e \in seed.exits \/ rid \in {seed.to, seed.strand}
    BY <2>1, <2>2 DEF world_graph
  <2>4. rid \notin seed.maroons
    BY <2>2, <2>3 DEF Careful
  <2>5. Homeward(rid)
    BY <1>1, <2>4 DEF Leads
  <2> QED BY <2>1, <2>2, <2>5, HomewardBack
<1>3. \A r \in seen' \cup todo' : r \in seed.maroons \/ Homeward(r)
  BY <1>1, <1>2 DEF Leads
<1> QED BY <1>3, SameWorld DEF Leads

-----------------------------------------------------------------------------
(* The map's invariant. *)

LEMMA LoadSearched == ASSUME Merged, Searched, load_seed PROVE Searched'
<1>1. stage' \in {"loading", "refused"}
  BY DEF load_seed
<1> QED BY <1>1 DEF Searched

LEMMA ValidateSearched == ASSUME Merged, validate_seed PROVE Searched'
<1>1. /\ stage' = "reach" /\ seen' = {} /\ todo' = Begins \cap Places
      /\ problem' <=> ~Checked
      /\ UNCHANGED <<seed, loaded>>
  BY DEF validate_seed, Search, Checked, Begins
<1>2. Onward(world_graph, seen, todo)'
  BY <1>1 DEF Onward
<1>3. ~problem' => Checked'
  BY <1>1, SameWorld
<1>4. (Begins \cap Places)' \subseteq (seen \cup todo)' /\ (seen \cup todo)' \subseteq Places'
  BY <1>1, SameWorld
<1> QED BY <1>1, <1>2, <1>3, <1>4 DEF Searched

LEMMA ReachingSearched == ASSUME Merged, Searched, Reaching PROVE Searched'
<1>1. /\ stage = "reach" /\ stage' = "reach" /\ _reach(world_graph)
      /\ UNCHANGED <<seed, loaded, problem>>
  BY DEF Reaching
<1>2. /\ \A e \in world_graph : e[1] \in seen' /\ e[2] \in Places => e[2] \in seen' \cup todo'
      /\ seen \cup todo \subseteq seen' \cup todo'
      /\ seen' \cup todo' \subseteq seen \cup todo \cup Places
  BY <1>1, EdgesIs, ReachOnward DEF Merged, Searched
<1>3. Onward(world_graph, seen, todo)'
  BY <1>1, <1>2, SameWorld DEF Onward
<1>4. Begins \cap Places \subseteq seen' \cup todo' /\ seen' \cup todo' \subseteq Places
  BY <1>1, <1>2 DEF Searched
<1> QED BY <1>1, <1>3, <1>4, SameWorld DEF Searched

LEMMA ReachedSearched == ASSUME Merged, Searched, Careless = FALSE, Reached PROVE Searched'
<1>1. /\ stage = "reach" /\ todo = {} /\ stage' = "home" /\ reached' = seen
      /\ problem' <=> problem \/ ~(Places \subseteq seen \cup seed.cutOff)
      /\ seen' = {} /\ todo' = ({seed.start} \cup seed.maroons) \cap Places
      /\ UNCHANGED <<seed, loaded>>
  BY DEF Reached, Search
<1>2. Begins \cap Places \subseteq reached'
  BY <1>1 DEF Searched
<1>3. Onward(world_graph, reached, {})'
  BY <1>1, SameWorld DEF Searched, Onward
<1>4. Homeward(seed.start)
  BY DEF Homeward
<1>5. Leads(seen \cup todo)'
  BY <1>1, <1>4, SameWorld DEF Leads
<1>6. problem \/ Checked
  BY <1>1 DEF Searched
<1> QED BY <1>1, <1>2, <1>3, <1>5, <1>6, SameWorld DEF Searched

LEMMA HomingSearched == ASSUME Merged, Searched, Careless = FALSE, Homing PROVE Searched'
<1>1. /\ stage = "home" /\ stage' = "home" /\ _reach(Back(world_graph))
      /\ UNCHANGED <<seed, loaded, reached, problem>>
  BY DEF Homing
<1>2. Leads(seen \cup todo)'
  BY <1>1, LeadsBack DEF Searched, Merged
<1>3. Onward(world_graph, reached, {})'
  BY <1>1, SameWorld DEF Searched, Onward
<1> QED BY <1>1, <1>2, <1>3, SameWorld DEF Searched

LEMMA HomedSearched == ASSUME Merged, Searched, Homed PROVE Searched'
<1>1. /\ stage = "home" /\ todo = {} /\ stage' = "quest"
      /\ problem' <=> problem \/ reached \ seen # {}
      /\ UNCHANGED <<seed, loaded, reached>>
  BY DEF Homed, traps
<1>2. Onward(world_graph, reached, {})'
  BY <1>1, SameWorld DEF Searched, Onward
<1>3. ~problem' => Leads(reached)'
  BY <1>1, SameWorld DEF Searched, Leads
<1> QED BY <1>1, <1>2, <1>3, SameWorld DEF Searched

LEMMA QuestingSearched == ASSUME Merged, Searched, Questing PROVE Searched'
<1>1. stage = "quest" /\ stage' = "quest" /\ UNCHANGED <<seed, loaded, reached, problem>>
  BY DEF Questing
<1>2. Onward(world_graph, reached, {})'
  BY <1>1, SameWorld DEF Searched, Onward
<1>3. ~problem' => Leads(reached)'
  BY <1>1, SameWorld DEF Searched, Leads
<1> QED BY <1>1, <1>2, <1>3, SameWorld DEF Searched

\* What the records' checks say of an accepted world's map.
LEMMA CheckedIs ==
  ASSUME Merged, Checked
  PROVE  /\ {seed.start, seed.shrine, seed.from, seed.to} \subseteq loaded.rooms
         /\ seed.begin \subseteq Places
         /\ {seed.to, seed.strand} \ {NoRoom} \subseteq Places
         /\ seed.maroons \cup seed.teleports \subseteq loaded.rooms
         /\ \A e \in seed.exits : e[1] \in loaded.rooms => e[1] \in Places /\ e[2] \in Places
BY DEF Checked, exit_problems, shrine_problems, _route_problems, start_problems, _character_problems,
       _event_problems, _teleport_problems, Known, Places

LEMMA StepUnheld == Unheld /\ [Next]_vars => Unheld'
<1> SUFFICES ASSUME Unheld, [Next]_vars PROVE Unheld'
  OBVIOUS
<1>1. CASE UNCHANGED vars
  BY <1>1 DEF vars, Unheld
<1>2. CASE load_seed \/ validate_seed \/ Reaching \/ Reached \/ Homing \/ Homed \/ Questing \/ Decided
  <2>1. stage # "open" /\ UNCHANGED held
    BY <1>2 DEF load_seed, validate_seed, Reaching, Reached, Homing, Homed, Questing, Decided
  <2> QED BY <2>1 DEF Unheld
<1>3. CASE Progress \/ \E r \in Rooms : Walk(r) \/ Ride(r) \/ Mend(r) \/ Teleported(r) \/ Dies(r)
  <2>1. stage' = "open"
    BY <1>3 DEF Walk, Ride, Mend, Teleported, Dies, Goes, Progress
  <2> QED BY <2>1 DEF Unheld
<1> QED BY <1>1, <1>2, <1>3 DEF Next

LEMMA DecidedSearched == ASSUME Merged, Searched, Unheld, Careless = FALSE, Decided PROVE Searched'
<1>1. /\ stage = "quest" /\ UNCHANGED <<seed, loaded, reached, problem, held>> /\ held = FALSE
      /\ \/ stage' = "refused"
         \/ stage' = "open" /\ ~problem /\ at' \in {seed.start} \cup seed.begin
  BY DEF Decided, Unheld
<1>2. CASE stage' = "refused"
  BY <1>1, <1>2 DEF Searched
<1>3. CASE stage' = "open" /\ ~problem /\ at' \in {seed.start} \cup seed.begin
  <2>1. Checked /\ Begins \cap Places \subseteq reached
    BY <1>1, <1>3 DEF Searched
  <2>2. seed.start \in Places /\ at' \in Places
    BY <1>3, <2>1, CheckedIs DEF Careful, Places, Merged
  <2>3. at' \notin seed.maroons
    BY <1>3 DEF Careful, Merged
  <2>4. at' \in reached \ seed.maroons
    BY <1>3, <2>1, <2>2, <2>3 DEF Begins
  <2>5. Placed'
    BY <1>1, <2>4 DEF Placed
  <2>6. Onward(world_graph, reached, {})'
    BY <1>1, SameWorld DEF Searched, Onward
  <2>7. Leads(reached)'
    BY <1>1, <1>3, SameWorld DEF Searched, Leads
  <2> QED BY <1>1, <1>3, <2>5, <2>6, <2>7, SameWorld DEF Searched
<1> QED BY <1>1, <1>2, <1>3

-----------------------------------------------------------------------------
(* The player, on the map. *)

LEMMA GoesSearched ==
  ASSUME Merged, Searched, NEW r, NEW holds, Goes(r, holds), Placed'
  PROVE  Searched'
<1>1. stage = "open" /\ UNCHANGED <<seed, stage, loaded, reached, problem>>
  BY DEF Goes
<1>2. Onward(world_graph, reached, {})'
  BY <1>1, SameWorld DEF Searched, Onward
<1>3. Leads(reached)'
  BY <1>1, SameWorld DEF Searched, Leads
<1> QED BY <1>1, <1>2, <1>3, SameWorld DEF Searched

\* What an open world's checks have found.
LEMMA OpenIs ==
  ASSUME Merged, Searched, Careless = FALSE, stage = "open"
  PROVE  /\ Checked /\ Careful(seed) /\ Placed
         /\ \A r \in Places : r \in Begins => r \in reached
         /\ \A e \in world_graph : e[1] \in reached => e[2] \in reached
         /\ reached \subseteq Places /\ Places \subseteq reached \cup seed.cutOff
<1>1. Checked /\ Careful(seed) /\ Placed /\ Begins \cap Places \subseteq reached
      /\ Onward(world_graph, reached, {})
      /\ reached \subseteq Places /\ Places \subseteq reached \cup seed.cutOff
  BY DEF Merged, Searched
<1> QED BY <1>1, EdgesIs DEF Onward, Merged

LEMMA WalkSearched == ASSUME Merged, Searched, Careless = FALSE, NEW r, Walk(r) PROVE Searched'
<1>1. <<at, r>> \in seed.exits /\ Goes(r, held) /\ stage = "open" /\ UNCHANGED <<seed, loaded, reached>>
      /\ at' = r /\ held' = held
  BY DEF Walk, Goes
<1>2. r \notin seed.maroons
  <2>1. r \in {e[2] : e \in seed.exits}
    BY <1>1
  <2> QED BY <1>1, <2>1, OpenIs DEF Careful
<1>3. at \in loaded.rooms => at \in Places /\ r \in Places
  <2>1. \A e \in seed.exits : e[1] \in loaded.rooms => e[1] \in Places /\ e[2] \in Places
    BY <1>1, OpenIs, CheckedIs
  <2> QED BY <1>1, <2>1
<1>4. at \in loaded.rooms => <<at, r>> \in world_graph
  BY <1>1, <1>3 DEF world_graph
<1>5. at \in reached \/ at \in seed.maroons \cap Waypoints
  BY <1>1, OpenIs DEF Placed
<1>6. at \in loaded.rooms
  BY <1>1, <1>5, OpenIs, CheckedIs DEF Places
<1>7. at \in reached
  BY <1>3, <1>5, <1>6 DEF Places
<1>8. r \in reached
  BY <1>1, <1>4, <1>6, <1>7, OpenIs
<1>9. Placed'
  BY <1>1, <1>2, <1>8, OpenIs DEF Placed
<1> QED BY <1>1, <1>9, GoesSearched

\* Where the route goes is found, from where it leaves.
LEMMA RouteFound ==
  ASSUME Merged, Searched, Careless = FALSE, stage = "open", seed.from \in reached
  PROVE  {seed.to, seed.strand} \ {NoRoom} \subseteq reached
<1>1. ASSUME NEW r \in {seed.to, seed.strand} \ {NoRoom} PROVE r \in reached
  <2>1. r \in Places
    BY OpenIs, CheckedIs
  <2>2. <<seed.from, r>> \in world_graph
    BY <2>1 DEF world_graph
  <2> QED BY <2>2, OpenIs
<1> QED BY <1>1

LEMMA RideSearched == ASSUME Merged, Searched, Careless = FALSE, NEW r, Ride(r) PROVE Searched'
<1>1. /\ at = seed.from /\ ~held /\ stage = "open" /\ at' = r /\ UNCHANGED <<seed, loaded, reached>>
      /\ \/ r \in {seed.to, seed.strand} \ {NoRoom} /\ Goes(r, FALSE) /\ held' = FALSE
         \/ r \in seed.maroons /\ Goes(r, TRUE) /\ held' = TRUE
  BY DEF Ride, Goes
<1>2. {seed.to, seed.strand} \ {NoRoom} \subseteq reached
  BY <1>1, OpenIs, RouteFound DEF Placed
<1>3. CASE r \in {seed.to, seed.strand} \ {NoRoom} /\ Goes(r, FALSE) /\ held' = FALSE
  <2>1. r \notin seed.maroons
    BY <1>1, <1>3, OpenIs DEF Careful
  <2>2. Placed'
    BY <1>1, <1>2, <1>3, <2>1 DEF Placed
  <2> QED BY <1>3, <2>2, GoesSearched
<1>4. CASE r \in seed.maroons /\ Goes(r, TRUE) /\ held' = TRUE
  <2>1. r \in Places \/ r \in Waypoints
    BY <1>1, <1>4, OpenIs, CheckedIs DEF Places
  <2>2. r \in reached \/ r \in seed.maroons \cap Waypoints
    BY <1>1, <1>4, <2>1, OpenIs DEF Begins
  <2>3. Placed'
    BY <1>1, <1>2, <1>4, <2>2 DEF Placed
  <2> QED BY <1>4, <2>3, GoesSearched
<1> QED BY <1>1, <1>3, <1>4

LEMMA MendSearched == ASSUME Merged, Searched, Careless = FALSE, NEW r, Mend(r) PROVE Searched'
<1>1. /\ held /\ r \in {seed.to, seed.strand} \ {NoRoom} /\ Goes(r, FALSE)
      /\ stage = "open" /\ at' = r /\ held' = FALSE /\ UNCHANGED <<seed, loaded, reached>>
  BY DEF Mend, Goes
<1>2. r \in reached /\ r \notin seed.maroons
  BY <1>1, OpenIs DEF Placed, Careful
<1>3. Placed'
  BY <1>1, <1>2 DEF Placed
<1> QED BY <1>1, <1>3, GoesSearched

LEMMA TeleportedSearched == ASSUME Merged, Searched, Careless = FALSE, NEW r, Teleported(r) PROVE Searched'
<1>1. /\ r \in seed.teleports /\ Goes(r, FALSE)
      /\ stage = "open" /\ at' = r /\ held' = FALSE /\ UNCHANGED <<seed, loaded, reached>>
  BY DEF Teleported, Goes
<1>2. r \in Places /\ r \notin seed.maroons
  BY <1>1, OpenIs, CheckedIs DEF Careful, Places
<1>3. r \in reached
  BY <1>1, <1>2, OpenIs DEF Begins
<1>4. Placed'
  BY <1>1, <1>2, <1>3 DEF Placed
<1> QED BY <1>1, <1>4, GoesSearched

LEMMA DiesSearched == ASSUME Merged, Searched, Careless = FALSE, NEW r, Dies(r) PROVE Searched'
<1>1. /\ r = seed.shrine /\ Goes(r, FALSE)
      /\ stage = "open" /\ at' = r /\ held' = FALSE /\ UNCHANGED <<seed, loaded, reached>>
  BY DEF Dies, Goes
<1>2. r \in Places /\ r \notin seed.maroons /\ r \notin seed.cutOff
  BY <1>1, OpenIs, CheckedIs DEF Careful, Places
<1>3. r \in reached
  BY <1>1, <1>2, OpenIs
<1>4. Placed'
  BY <1>1, <1>2, <1>3 DEF Placed
<1> QED BY <1>1, <1>4, GoesSearched

LEMMA ProgressSearched == ASSUME Merged, Searched, Progress PROVE Searched'
<1>1. stage = "open" /\ UNCHANGED <<seed, stage, loaded, reached, problem, at, held>>
  BY DEF Progress
<1>2. Onward(world_graph, reached, {})'
  BY <1>1, SameWorld DEF Searched, Onward
<1>3. Leads(reached)'
  BY <1>1, SameWorld DEF Searched, Leads
<1>4. Placed'
  BY <1>1 DEF Searched, Placed
<1> QED BY <1>1, <1>2, <1>3, <1>4, SameWorld DEF Searched

LEMMA StutterSearched == ASSUME Searched, UNCHANGED vars PROVE Searched'
<1>1. UNCHANGED <<seed, stage, loaded, seen, todo, reached, problem, at, held>>
  BY DEF vars
<1>2. Onward(world_graph, reached, {})' <=> Onward(world_graph, reached, {})
  BY <1>1, SameWorld DEF Onward
<1>3. Onward(world_graph, seen, todo)' <=> Onward(world_graph, seen, todo)
  BY <1>1, SameWorld DEF Onward
<1>4. (Leads(reached)' <=> Leads(reached)) /\ (Leads(seen \cup todo)' <=> Leads(seen \cup todo))
  BY <1>1, SameWorld DEF Leads
<1>5. Placed' <=> Placed
  BY <1>1 DEF Placed
<1> QED BY <1>1, <1>2, <1>3, <1>4, <1>5, SameWorld DEF Searched

LEMMA InitMap == Init => MapInv
BY InitMerged DEF Init, MapInv, Searched, Unheld

LEMMA StepMap == ASSUME Careless = FALSE PROVE MapInv /\ [Next]_vars => MapInv'
<1> SUFFICES ASSUME MapInv, [Next]_vars PROVE Searched'
  BY StepMerged, StepUnheld DEF MapInv
<1> USE DEF MapInv
<1>1. CASE UNCHANGED vars
  BY <1>1, StutterSearched
<1>2. CASE load_seed
  BY <1>2, LoadSearched
<1>3. CASE validate_seed
  BY <1>3, ValidateSearched
<1>4. CASE Reaching
  BY <1>4, ReachingSearched
<1>5. CASE Reached
  BY <1>5, ReachedSearched
<1>6. CASE Homing
  BY <1>6, HomingSearched
<1>7. CASE Homed
  BY <1>7, HomedSearched
<1>8. CASE Questing
  BY <1>8, QuestingSearched
<1>9. CASE Decided
  BY <1>9, DecidedSearched
<1>10. CASE \E r \in Rooms : Walk(r) \/ Ride(r) \/ Mend(r) \/ Teleported(r) \/ Dies(r)
  BY <1>10, WalkSearched, RideSearched, MendSearched, TeleportedSearched, DiesSearched
<1>11. CASE Progress
  BY <1>11, ProgressSearched
<1> QED BY <1>1, <1>2, <1>3, <1>4, <1>5, <1>6, <1>7, <1>8, <1>9, <1>10, <1>11 DEF Next

-----------------------------------------------------------------------------
(* The quest. *)

LEMMA InitQuest == Init => QuestInv
BY DEF Init, QuestInv

LEMMA TrailIs ==
  ASSUME NEW trail, Trail(trail)
  PROVE  /\ Len(trail) \in Nat /\ (trail = <<>> <=> Len(trail) = 0)
         /\ \A i \in 1..Len(trail) : trail[i] \in Defined
BY LenProperties, EmptySeq DEF Trail

\* A step that is new extends the trail.
LEMMA TrailLonger ==
  ASSUME NEW trail, Trail(trail), NEW s \in Defined, s = Ahead(trail), s \notin Along(trail, Len(trail))
  PROVE  LET longer == Append(trail, s)
         IN  /\ Trail(longer) /\ Ahead(longer) = seed.then[s]
             /\ Along(longer, Len(longer)) = Along(trail, Len(trail)) \cup {s}
<1> DEFINE longer == Append(trail, s)
           n == Len(trail)
<1>1. n \in Nat /\ (trail = <<>> <=> n = 0) /\ trail \in Seq(Defined)
  BY TrailIs DEF Trail
<1>2. /\ longer \in Seq(Defined) /\ Len(longer) = n + 1 /\ longer # <<>>
      /\ \A i \in 1..n : longer[i] = trail[i]
      /\ longer[n + 1] = s
  BY <1>1, AppendProperties
<1> HIDE DEF longer
<1>3. Ahead(longer) = seed.then[s]
  BY <1>2 DEF Ahead
<1>4. \A i \in 1..n : trail[i] # s
  BY DEF Along
<1>5. \A i, j \in 1..n : i # j => trail[i] # trail[j]
  BY DEF Trail
<1> HIDE DEF n
<1>6. \A i, j \in 1..n + 1 : i # j => longer[i] # longer[j]
  <2>1. \A i \in 1..n + 1 : i \in 1..n \/ i = n + 1
    BY <1>1
  <2> QED BY <1>2, <1>4, <1>5, <2>1
<1>7. longer[1] = seed.first
  BY <1>1, <1>2 DEF Trail, Ahead, n
<1>8. ASSUME NEW i \in 1..(n + 1) - 1 PROVE longer[i + 1] = seed.then[longer[i]]
  <2>1. CASE i = n
    BY <1>1, <1>2, <1>8, <2>1 DEF Ahead, n
  <2>2. CASE i # n
    <3>1. i \in 1..n - 1 /\ i \in 1..n /\ i + 1 \in 1..n
      BY <1>1, <1>8, <2>2
    <3>2. trail[i + 1] = seed.then[trail[i]]
      BY <3>1 DEF Trail, n
    <3> QED BY <1>2, <3>1, <3>2
  <2> QED BY <2>1, <2>2
<1>9. Trail(longer)
  BY <1>1, <1>2, <1>6, <1>7, <1>8 DEF Trail
<1>10. Along(longer, n + 1) = Along(trail, n) \cup {s}
  <2>1. 1..n + 1 = 1..n \cup {n + 1}
    BY <1>1
  <2> QED BY <1>2, <2>1 DEF Along
<1> QED BY <1>2, <1>3, <1>9, <1>10 DEF longer, n

LEMMA SameTrail ==
  ASSUME UNCHANGED seed
  PROVE  \A trail : (Trail(trail)' <=> Trail(trail)) /\ Ahead(trail)' = Ahead(trail) /\ Defined' = Defined
BY DEF Trail, Ahead, Defined

LEMMA HomedQuest == ASSUME QuestInv, Homed PROVE QuestInv'
<1>1. stage' = "quest" /\ been' = {} /\ seed' = seed /\ seed \in Seeds /\ seen' = {} /\ todo' = {seed.first}
  BY DEF Homed, QuestInv
<1> DEFINE none == <<>>
<1>2. none \in Seq(Defined) /\ Len(none) = 0 /\ none = <<>>
  BY EmptySeq
<1> HIDE DEF none
<1>3. Trail(none) /\ Along(none, Len(none)) = {} /\ Ahead(none) = seed.first
  BY <1>2 DEF Trail, Along, Ahead
<1>4. Trail(none)' /\ seen' = Along(none, Len(none)) /\ todo' \subseteq {Ahead(none)'}
  BY <1>1, <1>3, SameTrail
<1> QED BY <1>1, <1>4 DEF QuestInv, OnTrail, Along

LEMMA QuestingQuest == ASSUME QuestInv, Questing PROVE QuestInv'
<1>1. stage = "quest" /\ stage' = "quest" /\ been' = {} /\ seed' = seed /\ seed \in Seeds
  BY DEF Questing, QuestInv
<1>2. PICK s \in todo \cap Defined : todo' = (todo \ {s}) \cup next(s) /\ seen' = seen \cup {s}
  BY DEF Questing
<1>3. PICK trail : Trail(trail) /\ seen = Along(trail, Len(trail)) /\ todo \subseteq {Ahead(trail)}
  BY <1>1 DEF QuestInv
<1>4. s = Ahead(trail) /\ todo \ {s} = {}
  BY <1>2, <1>3
<1>5. CASE s \in seen
  <2>1. Trail(trail)' /\ seen' = Along(trail, Len(trail)) /\ todo' \subseteq {Ahead(trail)'}
    BY <1>1, <1>2, <1>3, <1>4, <1>5, SameTrail DEF next
  <2> QED BY <1>1, <2>1 DEF QuestInv, OnTrail, Along
<1>6. CASE s \notin seen
  <2> DEFINE longer == Append(trail, s)
  <2>1. /\ Trail(longer) /\ Ahead(longer) = seed.then[s]
        /\ Along(longer, Len(longer)) = Along(trail, Len(trail)) \cup {s}
    BY <1>2, <1>3, <1>4, <1>6, TrailLonger
  <2> HIDE DEF longer
  <2>2. Trail(longer)' /\ seen' = Along(longer, Len(longer)) /\ todo' \subseteq {Ahead(longer)'}
    BY <1>1, <1>2, <1>3, <1>4, <1>6, <2>1, SameTrail DEF next
  <2> QED BY <1>1, <2>2 DEF QuestInv, OnTrail, Along
<1> QED BY <1>5, <1>6

LEMMA DecidedQuest == ASSUME QuestInv, Decided PROVE QuestInv'
<1>1. stage = "quest" /\ been' = {} /\ seed' = seed /\ seed \in Seeds
  BY DEF Decided, QuestInv
<1>2. CASE stage' = "refused"
  BY <1>1, <1>2 DEF QuestInv
<1>3. CASE stage' = "open" /\ Done \in todo /\ seen = Defined /\ step' = seed.first
  <2>1. PICK trail : Trail(trail) /\ seen = Along(trail, Len(trail)) /\ todo \subseteq {Ahead(trail)}
    BY <1>1 DEF QuestInv
  <2>2. Len(trail) \in Nat /\ (trail = <<>> <=> Len(trail) = 0)
    BY <2>1, TrailIs
  <2>3. Ahead(trail) = Done
    BY <1>3, <2>1
  <2>4. step' = IF 0 = Len(trail) THEN Done ELSE trail[0 + 1]
    BY <1>3, <2>1, <2>2, <2>3 DEF Trail, Ahead
  <2>5. been' = Along(trail, 0)
    BY <1>1 DEF Along
  <2>6. /\ Trail(trail)' /\ Defined' = Along(trail, Len(trail)) /\ Ahead(trail)' = Done
        /\ 0 \in 0..Len(trail)
    BY <1>1, <1>3, <2>1, <2>2, <2>3, SameTrail
  <2> QED BY <1>1, <1>3, <2>4, <2>5, <2>6 DEF QuestInv, OnTrail, Along
<1> QED BY <1>2, <1>3 DEF Decided

LEMMA ProgressQuest == ASSUME QuestInv, Progress PROVE QuestInv'
<1>1. stage = "open" /\ stage' = "open" /\ seed' = seed /\ seed \in Seeds /\ step # Done
      /\ step' = seed.then[step] /\ been' = been \cup {step}
  BY DEF Progress, QuestInv
<1>2. PICK trail : \E k \in 0..Len(trail) : OnTrail(trail, k)
  BY <1>1 DEF QuestInv
<1>3. PICK k \in 0..Len(trail) : OnTrail(trail, k)
  BY <1>2
<1>4. Trail(trail) /\ Len(trail) \in Nat /\ (trail = <<>> <=> Len(trail) = 0)
  BY <1>3, TrailIs DEF OnTrail
<1>5. k # Len(trail) /\ step = trail[k + 1] /\ k + 1 \in 0..Len(trail)
  BY <1>1, <1>3, <1>4 DEF OnTrail
<1>6. been' = Along(trail, k + 1)
  <2>1. 1..k + 1 = 1..k \cup {k + 1}
    BY <1>3, <1>4
  <2> QED BY <1>1, <1>3, <1>5, <2>1 DEF OnTrail, Along
<1>7. step' = IF k + 1 = Len(trail) THEN Done ELSE trail[k + 1 + 1]
  <2>1. CASE k + 1 = Len(trail)
    BY <1>1, <1>3, <1>4, <1>5, <2>1 DEF OnTrail, Ahead
  <2>2. CASE k + 1 # Len(trail)
    <3>1. k + 1 \in 1..Len(trail) - 1
      BY <1>3, <1>4, <1>5, <2>2
    <3> QED BY <1>1, <1>4, <1>5, <2>2, <3>1 DEF Trail
  <2> QED BY <2>1, <2>2
<1>8. Trail(trail)' /\ Defined' = Along(trail, Len(trail)) /\ Ahead(trail)' = Done
  BY <1>1, <1>3, SameTrail DEF OnTrail
<1> QED BY <1>1, <1>5, <1>6, <1>7, <1>8 DEF QuestInv, OnTrail, Along

\* What moves a player is nothing to their quest, and the other checks come
\* before it.
LEMMA QuestStays ==
  ASSUME QuestInv, UNCHANGED <<seed, been>>,
         \/ stage' \in {"loading", "reach", "home"} /\ stage \in {"loading", "reach", "home"}
         \/ stage' = "refused"
         \/ UNCHANGED <<stage, seen, todo, step>>
         \/ stage = "open" /\ UNCHANGED <<stage, step>>
  PROVE  QuestInv'
<1>1. \A trail : (Trail(trail)' <=> Trail(trail)) /\ Ahead(trail)' = Ahead(trail) /\ Defined' = Defined
  BY SameTrail
<1>2. CASE stage' \in {"loading", "reach", "home"} /\ stage \in {"loading", "reach", "home"}
  BY <1>2 DEF QuestInv
<1>3. CASE stage' = "refused"
  BY <1>3 DEF QuestInv
<1>4. CASE UNCHANGED <<stage, seen, todo, step>> /\ stage # "open"
  BY <1>1, <1>4 DEF QuestInv, OnTrail, Along
<1>5. CASE stage = "open" /\ UNCHANGED <<stage, step>>
  BY <1>1, <1>5 DEF QuestInv, OnTrail, Along
<1> QED BY <1>2, <1>3, <1>4, <1>5

LEMMA StepQuest == QuestInv /\ [Next]_vars => QuestInv'
<1> SUFFICES ASSUME QuestInv, [Next]_vars PROVE QuestInv'
  OBVIOUS
<1>1. CASE UNCHANGED vars
  BY <1>1, QuestStays DEF vars
<1>2. CASE load_seed
  BY <1>2, QuestStays DEF load_seed
<1>3. CASE validate_seed \/ Reached
  BY <1>3, QuestStays DEF validate_seed, Reached, Search
<1>4. CASE Reaching \/ Homing
  BY <1>4, QuestStays DEF Reaching, Homing
<1>5. CASE Homed
  BY <1>5, HomedQuest
<1>6. CASE Questing
  BY <1>6, QuestingQuest
<1>7. CASE Decided
  BY <1>7, DecidedQuest
<1>8. CASE \E r \in Rooms : Walk(r) \/ Ride(r) \/ Mend(r) \/ Teleported(r) \/ Dies(r)
  BY <1>8, QuestStays DEF Walk, Ride, Mend, Teleported, Dies, Goes
<1>9. CASE Progress
  BY <1>9, ProgressQuest
<1> QED BY <1>1, <1>2, <1>3, <1>4, <1>5, <1>6, <1>7, <1>8, <1>9 DEF Next

-----------------------------------------------------------------------------
(* What holds of every accepted world. *)

\* No room of an accepted world is defined by two files (load_seed, _merge).
THEOREM OneFileEachHolds == Spec => []OneFileEach
<1>1. Merged => OneFileEach
  BY DEF Merged, OneFileEach
<1> QED BY <1>1, InitMerged, StepMerged, PTL DEF Spec

\* As long as seeds keep to what the checks take for granted, a world that
\* passes _graph_problems never leaves a player where home cannot be reached.
THEOREM NeverTrappedHolds ==
  ASSUME Careless = FALSE
  PROVE  Spec => []NeverTrapped
<1>1. MapInv => NeverTrapped
  BY DEF MapInv, Searched, Placed, Leads, Homeward, NeverTrapped
<1> QED BY <1>1, InitMap, StepMap, PTL DEF Spec

\* A quest that passes _quest_problems comes to its end, over every step of it
\* and no step twice.
THEOREM QuestsEndHolds == Spec => []QuestsEnd
<1>1. ASSUME QuestInv PROVE QuestsEnd
  <2> SUFFICES ASSUME stage = "open"
               PROVE  step \in (Defined \cup {Done}) \ been /\ (step = Done => been = Defined)
    BY DEF QuestsEnd
  <2>1. PICK trail : \E k \in 0..Len(trail) : OnTrail(trail, k)
    BY <1>1 DEF QuestInv
  <2>2. PICK k \in 0..Len(trail) : OnTrail(trail, k)
    BY <2>1
  <2>3. Trail(trail) /\ Len(trail) \in Nat /\ \A i \in 1..Len(trail) : trail[i] \in Defined
    BY <2>2, TrailIs DEF OnTrail
  <2>4. Done \notin Defined
    BY <1>1, SeedIs DEF QuestInv
  <2>5. been \subseteq Defined
    BY <2>2, <2>3 DEF OnTrail, Along
  <2>6. CASE k = Len(trail)
    BY <2>2, <2>4, <2>5, <2>6 DEF OnTrail
  <2>7. CASE k # Len(trail)
    <3>1. k + 1 \in 1..Len(trail) /\ step = trail[k + 1] /\ k + 1 \notin 1..k /\ 1..k \subseteq 1..Len(trail)
      BY <2>2, <2>3, <2>7 DEF OnTrail
    <3>2. step \notin been
      BY <2>2, <2>3, <3>1, SMTT(30) DEF OnTrail, Along, Trail
    <3> QED BY <2>3, <2>4, <3>1, <3>2
  <2> QED BY <2>6, <2>7
<1> QED BY <1>1, InitQuest, StepQuest, PTL DEF Spec

=============================================================================
