-------------------------- MODULE FollowingProofs --------------------------
(***************************************************************************)
(* Proofs about Following, for any sessions, fights and bounds: its types, *)
(* that a session follows its own fight and no other, that what is wanted  *)
(* is what is subscribed to, and that states reach a client in order.      *)
(***************************************************************************)
EXTENDS Following, SequenceTheorems, TLAPS

-----------------------------------------------------------------------------
(* The inductive invariant. *)

Commands == [op : {"subscribe", "unsubscribe"}, fight : Fights]
InFlight == [fight : Fights, step : 0..MaxStep]
Waits == [await : {"event", "unfollow", "follow"}, to : Fights \cup {NoFight}]

Typed ==
  /\ told \in Nat
  /\ encounter \in [Sessions -> Fights \cup {NoFight}] /\ pump \in [Sessions -> Waits]
  /\ run \in [Sessions -> {"open", "letting go", "closed"}]
  /\ next_state \in [Sessions -> States] /\ got \in [Sessions -> States]
  /\ sending \in [Sessions -> SUBSET InFlight]
  /\ local \in [Fights -> SUBSET Sessions] /\ handlers \in [Fights -> SUBSET Sessions]
  /\ wire \in Seq(Commands) /\ subscribed \in SUBSET Fights /\ net \in Seq(InFlight)
  /\ at \in [Fights -> 0..MaxStep] /\ remote \in [Fights -> BOOLEAN]

\* The fights owned here are followed at home, the others on the bus.
Apart == \A e \in Fights : IF e \in Here THEN handlers[e] = {} ELSE local[e] = {}

\* What a session follows, wherever its pump and its end are.
Follows(s) ==
  /\ run[s] = "closed" => FollowedBy(s) = {}
  /\ run[s] = "letting go" => encounter[s] # NoFight /\ FollowedBy(s) \subseteq {encounter[s]}
  /\ run[s] = "open" /\ pump[s].await = "unfollow" => FollowedBy(s) = {}
  /\ run[s] = "open" /\ pump[s].await # "unfollow" => FollowedBy(s) = {encounter[s]} \ {NoFight}
  /\ run[s] = "closed" => encounter[s] = NoFight

\* The last command on its way for a channel leaves it as it is wanted; if
\* none is on its way, it is so.
Wanted(e) == handlers[e] # {}
Matches(e) ==
  /\ (\A i \in 1..Len(wire) : wire[i].fight # e) => (e \in subscribed <=> Wanted(e))
  /\ \A i \in 1..Len(wire) :
       wire[i].fight = e /\ (\A j \in i + 1..Len(wire) : wire[j].fight # e)
         => (wire[i].op = "subscribe" <=> Wanted(e))

\* Of two states of one fight, the first is no later.
Behind(x, y) == x.fight = y.fight => x.step <= y.step
OnTheWay ==
  /\ \A i \in 1..Len(net) : net[i].fight \notin Here /\ net[i].step <= at[net[i].fight]
  /\ \A i, j \in 1..Len(net) : i <= j => Behind(net[i], net[j])
InOrder(s) ==
  /\ \A x, y \in sending[s] : x = y
  /\ next_state[s] # None => Sender(s) /\ next_state[s].step <= at[next_state[s].fight]
  /\ \A x \in sending[s] : x.step <= at[x.fight] /\ Behind(x, next_state[s])
  /\ got[s] # None => got[s].step <= at[got[s].fight]
  /\ Behind(got[s], next_state[s]) /\ \A x \in sending[s] : Behind(got[s], x)
  /\ \A i \in 1..Len(net) : /\ Behind(next_state[s], net[i]) /\ Behind(got[s], net[i])
                            /\ \A x \in sending[s] : Behind(x, net[i])

Inv1 == Typed /\ Apart /\ \A s \in Sessions : Follows(s)
Inv2 == \A e \in Fights : Matches(e)
Inv3 == OnTheWay /\ \A s \in Sessions : InOrder(s)

-----------------------------------------------------------------------------
(* Following and leaving. *)

LEMMA NoneIs ==
  /\ None \in States /\ None.fight = NoFight /\ None.step = 0 /\ NoFight \notin Fights
  /\ \A x \in States : x # None => x \in InFlight
  /\ \A x \in InFlight : x \in States /\ x # None
BY FollowingAssumption DEF FollowingAssumption, States, None, NoFight, InFlight

LEMMA FollowIs ==
  ASSUME Typed, Apart, NEW e \in Fights, NEW s \in Sessions, follow(e, s)
  PROVE  /\ local' \in [Fights -> SUBSET Sessions] /\ handlers' \in [Fights -> SUBSET Sessions]
         /\ wire' \in Seq(Commands) /\ Apart'
         /\ FollowedBy(s)' = FollowedBy(s) \cup {e}
         /\ \A t \in Sessions \ {s} : FollowedBy(t)' = FollowedBy(t)
<1>1. CASE e \in Here
  <2>1. local' = [local EXCEPT ![e] = @ \union {s}] /\ UNCHANGED <<handlers, wire>>
    BY <1>1 DEF follow
  <2> QED BY <1>1, <2>1 DEF Typed, Apart, FollowedBy
<1>2. CASE e \notin Here
  <2>1. /\ handlers' = [handlers EXCEPT ![e] = @ \union {s}] /\ UNCHANGED local
        /\ wire' = wire \/ wire' = Append(wire, Command("subscribe", e))
    BY <1>2 DEF follow, subscribe
  <2>2. Command("subscribe", e) \in Commands
    BY DEF Command, Commands
  <2>3. wire' \in Seq(Commands)
    <3>1. wire \in Seq(Commands)
      BY DEF Typed
    <3> QED BY <2>1, <2>2, <3>1, AppendProperties
  <2>4. /\ handlers' \in [Fights -> SUBSET Sessions] /\ local' \in [Fights -> SUBSET Sessions]
        /\ handlers'[e] = handlers[e] \cup {s} /\ \A d \in Fights \ {e} : handlers'[d] = handlers[d]
        /\ \A d \in Fights : local'[d] = local[d]
    BY <2>1 DEF Typed
  <2>5. Apart'
    BY <1>2, <2>4 DEF Apart
  <2>6. local[e] = {}
    BY <1>2 DEF Apart
  <2>7. \A t \in Sessions : FollowedBy(t) \subseteq Fights /\ FollowedBy(t)' \subseteq Fights
    BY DEF FollowedBy
  <2>8. \A d \in Fights \ {e} : \A t \in Sessions : d \in FollowedBy(t)' <=> d \in FollowedBy(t)
    BY <2>4 DEF FollowedBy
  <2>9. /\ e \in FollowedBy(s)'
        /\ \A t \in Sessions \ {s} : e \in FollowedBy(t)' <=> e \in FollowedBy(t)
    BY <2>4, <2>6 DEF FollowedBy
  <2>10. FollowedBy(s)' = FollowedBy(s) \cup {e} /\ \A t \in Sessions \ {s} : FollowedBy(t)' = FollowedBy(t)
    BY <2>7, <2>8, <2>9
  <2> QED BY <2>3, <2>4, <2>5, <2>10
<1> QED BY <1>1, <1>2

LEMMA UnfollowIs ==
  ASSUME Typed, Apart, NEW e \in Fights, NEW s \in Sessions, unfollow(e, s)
  PROVE  /\ local' \in [Fights -> SUBSET Sessions] /\ handlers' \in [Fights -> SUBSET Sessions]
         /\ wire' \in Seq(Commands) /\ Apart'
         /\ FollowedBy(s)' = FollowedBy(s) \ {e}
         /\ \A t \in Sessions \ {s} : FollowedBy(t)' = FollowedBy(t)
<1>1. CASE e \in Here
  <2>1. local' = [local EXCEPT ![e] = @ \ {s}] /\ UNCHANGED <<handlers, wire>>
    BY <1>1 DEF unfollow
  <2> QED BY <1>1, <2>1 DEF Typed, Apart, FollowedBy
<1>2. CASE e \notin Here
  <2>1. /\ handlers' = [handlers EXCEPT ![e] = @ \ {s}] /\ UNCHANGED local
        /\ wire' = wire \/ wire' = Append(wire, Command("unsubscribe", e))
    BY <1>2 DEF unfollow, unsubscribe
  <2>2. Command("unsubscribe", e) \in Commands
    BY DEF Command, Commands
  <2>3. wire' \in Seq(Commands)
    <3>1. wire \in Seq(Commands)
      BY DEF Typed
    <3> QED BY <2>1, <2>2, <3>1, AppendProperties
  <2>4. /\ handlers' \in [Fights -> SUBSET Sessions] /\ local' \in [Fights -> SUBSET Sessions]
        /\ handlers'[e] = handlers[e] \ {s} /\ \A d \in Fights \ {e} : handlers'[d] = handlers[d]
        /\ \A d \in Fights : local'[d] = local[d]
    BY <2>1 DEF Typed
  <2>5. Apart'
    BY <1>2, <2>4 DEF Apart
  <2>6. local[e] = {}
    BY <1>2 DEF Apart
  <2>7. \A t \in Sessions : FollowedBy(t) \subseteq Fights /\ FollowedBy(t)' \subseteq Fights
    BY DEF FollowedBy
  <2>8. \A d \in Fights \ {e} : \A t \in Sessions : d \in FollowedBy(t)' <=> d \in FollowedBy(t)
    BY <2>4 DEF FollowedBy
  <2>9. /\ e \notin FollowedBy(s)'
        /\ \A t \in Sessions \ {s} : e \in FollowedBy(t)' <=> e \in FollowedBy(t)
    BY <2>4, <2>6 DEF FollowedBy
  <2>10. FollowedBy(s)' = FollowedBy(s) \ {e} /\ \A t \in Sessions \ {s} : FollowedBy(t)' = FollowedBy(t)
    BY <2>7, <2>8, <2>9
  <2> QED BY <2>3, <2>4, <2>5, <2>10
<1> QED BY <1>1, <1>2

-----------------------------------------------------------------------------
(* What a session follows: the steps that change it. *)

\* Others follow what they did.
LEMMA OthersFollow ==
  ASSUME \A t \in Sessions : Follows(t), NEW s \in Sessions, Follows(s)',
         \A t \in Sessions \ {s} : /\ run'[t] = run[t] /\ pump'[t] = pump[t] /\ encounter'[t] = encounter[t]
                                   /\ FollowedBy(t)' = FollowedBy(t)
  PROVE  \A t \in Sessions : Follows(t)'
<1> SUFFICES ASSUME NEW t \in Sessions, t # s PROVE Follows(t)'
  OBVIOUS
<1>1. /\ run'[t] = run[t] /\ pump'[t] = pump[t] /\ encounter'[t] = encounter[t]
      /\ FollowedBy(t)' = FollowedBy(t) /\ Follows(t)
  OBVIOUS
<1> HIDE DEF FollowedBy
<1> QED BY <1>1 DEF Follows

LEMMA IdleIs == Idle \in Waits /\ Idle.await = "event"
BY DEF Idle, Waits

LEMMA JoinsInv ==
  ASSUME Inv1, NEW s \in Sessions, NEW e \in Fights \cup {NoFight}, Joins(s, e),
         run[s] = "open", FollowedBy(s) = {},
         told' \in Nat, UNCHANGED <<run, next_state, sending, redis, owners>>
  PROVE  Inv1'
<1>0. Typed /\ Apart /\ \A t \in Sessions : Follows(t)
  BY DEF Inv1
<1>1. /\ encounter' \in [Sessions -> Fights \cup {NoFight}] /\ encounter'[s] = e
      /\ \A t \in Sessions \ {s} : encounter'[t] = encounter[t]
      /\ got' \in [Sessions -> States]
  BY <1>0, NoneIs DEF Joins, Typed
<1>2. CASE e = NoFight
  <2>1. pump' = [pump EXCEPT ![s] = Idle] /\ UNCHANGED <<local, handlers, wire>>
    BY <1>2 DEF Joins, bus
  <2>2. /\ pump' \in [Sessions -> Waits] /\ pump'[s] = Idle /\ \A t \in Sessions \ {s} : pump'[t] = pump[t]
    BY <1>0, <2>1, IdleIs DEF Typed
  <2>3. \A t \in Sessions : FollowedBy(t)' = FollowedBy(t)
    BY <2>1 DEF FollowedBy
  <2> HIDE DEF FollowedBy
  <2>4. Follows(s)'
    BY <1>1, <1>2, <2>2, <2>3, IdleIs DEF Follows
  <2>5. \A t \in Sessions : Follows(t)'
    BY <1>0, <1>1, <2>2, <2>3, <2>4, OthersFollow
  <2>6. Typed' /\ Apart'
    BY <1>0, <1>1, <2>1, <2>2 DEF Typed, Apart, redis, owners
  <2> QED BY <2>5, <2>6 DEF Inv1
<1>3. CASE e \in Fights
  <2>1. pump' = [pump EXCEPT ![s] = [await |-> "follow", to |-> e]] /\ follow(e, s)
    BY <1>3, NoneIs DEF Joins
  <2>2. /\ pump' \in [Sessions -> Waits] /\ pump'[s].await = "follow"
        /\ \A t \in Sessions \ {s} : pump'[t] = pump[t]
    BY <1>0, <1>3, <2>1 DEF Typed, Waits
  <2>3. /\ local' \in [Fights -> SUBSET Sessions] /\ handlers' \in [Fights -> SUBSET Sessions]
        /\ wire' \in Seq(Commands) /\ Apart'
        /\ FollowedBy(s)' = {e} /\ \A t \in Sessions \ {s} : FollowedBy(t)' = FollowedBy(t)
    BY <1>0, <1>3, <2>1, FollowIs
  <2> HIDE DEF FollowedBy
  <2>4. Follows(s)'
    BY <1>1, <1>3, <2>2, <2>3, NoneIs DEF Follows
  <2>5. \A t \in Sessions : Follows(t)'
    BY <1>0, <1>1, <2>2, <2>3, <2>4, OthersFollow
  <2>6. Typed'
    BY <1>0, <1>1, <2>2, <2>3 DEF Typed, redis, owners
  <2> QED BY <2>3, <2>5, <2>6 DEF Inv1
<1> QED BY <1>2, <1>3

LEMMA FollowInv ==
  ASSUME Inv1, NEW s \in Sessions, NEW e \in Fights \cup {NoFight}, _follow(s, e),
         run[s] = "open", pump[s] = Idle,
         told' \in Nat, UNCHANGED <<run, next_state, sending, redis, owners>>
  PROVE  Inv1'
<1>0. /\ Typed /\ Apart /\ \A t \in Sessions : Follows(t)
      /\ FollowedBy(s) = {encounter[s]} \ {NoFight}
  BY IdleIs DEF Inv1, Follows
<1>1. CASE e = encounter[s]
  <2>1. UNCHANGED <<encounter, pump, got, local, handlers, wire>>
    BY <1>1 DEF _follow, bus
  <2> QED BY <1>0, <2>1, ZenonT(60) DEF Inv1, Typed, Apart, Follows, FollowedBy, redis, owners
<1>2. CASE e # encounter[s] /\ encounter[s] = NoFight
  BY <1>0, <1>2, JoinsInv DEF _follow
<1>3. CASE e # encounter[s] /\ encounter[s] # NoFight
  <2>1. encounter[s] \in Fights
    BY <1>0, <1>3 DEF Typed
  <2>2. /\ unfollow(encounter[s], s) /\ pump' = [pump EXCEPT ![s] = [await |-> "unfollow", to |-> e]]
        /\ UNCHANGED <<encounter, got>>
    BY <1>3 DEF _follow
  <2>3. /\ local' \in [Fights -> SUBSET Sessions] /\ handlers' \in [Fights -> SUBSET Sessions]
        /\ wire' \in Seq(Commands) /\ Apart'
        /\ FollowedBy(s)' = {} /\ \A t \in Sessions \ {s} : FollowedBy(t)' = FollowedBy(t)
    BY <1>0, <2>1, <2>2, UnfollowIs
  <2>4. /\ pump' \in [Sessions -> Waits] /\ pump'[s].await = "unfollow"
        /\ \A t \in Sessions \ {s} : pump'[t] = pump[t]
    BY <1>0, <2>2 DEF Typed, Waits
  <2> HIDE DEF FollowedBy
  <2>5. Follows(s)'
    BY <2>3, <2>4 DEF Follows
  <2>6. \A t \in Sessions : Follows(t)'
    BY <1>0, <2>2, <2>3, <2>4, <2>5, OthersFollow
  <2>7. Typed'
    BY <1>0, <2>2, <2>3, <2>4 DEF Typed, redis, owners
  <2> QED BY <2>3, <2>6, <2>7 DEF Inv1
<1> QED BY <1>1, <1>2, <1>3

LEMMA PumpInv ==
  ASSUME Inv1, NEW s \in Sessions, NEW event \in Event, _pump(s, event)
  PROVE  Inv1'
<1>0. told \in Nat
  BY DEF Inv1, Typed
<1>1. /\ run[s] = "open" /\ pump[s] = Idle /\ told' \in Nat
      /\ UNCHANGED <<run, next_state, sending, redis, owners>>
  BY <1>0 DEF _pump
<1>2. PICK e \in Fights \cup {NoFight} : _follow(s, e)
  BY DEF _pump, Event
<1> QED BY <1>1, <1>2, FollowInv

LEMMA ResumesInv ==
  ASSUME Inv1, NEW s \in Sessions, Resumes(s)
  PROVE  Inv1'
<1>0. /\ Typed /\ Apart /\ \A t \in Sessions : Follows(t)
      /\ run[s] = "open" /\ UNCHANGED <<told, run, next_state, sending, redis, owners>>
      /\ pump[s] \in Waits
  BY DEF Inv1, Resumes, Typed
<1>1. CASE pump[s].await = "unfollow"
  <2>1. Joins(s, pump[s].to) /\ FollowedBy(s) = {}
    BY <1>0, <1>1 DEF Resumes, Follows
  <2>2. pump[s].to \in Fights \cup {NoFight} /\ told' \in Nat
    BY <1>0 DEF Waits, Typed
  <2> QED BY <1>0, <2>1, <2>2, JoinsInv
<1>2. CASE pump[s].await # "unfollow"
  <2>1. pump' = [pump EXCEPT ![s] = Idle] /\ UNCHANGED <<encounter, got, local, handlers, wire>>
    BY <1>2 DEF Resumes, bus
  <2>2. /\ pump' \in [Sessions -> Waits] /\ pump'[s] = Idle /\ \A t \in Sessions \ {s} : pump'[t] = pump[t]
    BY <1>0, <2>1, IdleIs DEF Typed
  <2>3. \A t \in Sessions : FollowedBy(t)' = FollowedBy(t)
    BY <2>1 DEF FollowedBy
  <2> HIDE DEF FollowedBy
  <2>4. Follows(s)'
    BY <1>0, <1>2, <2>1, <2>2, <2>3, IdleIs DEF Follows
  <2>5. \A t \in Sessions : Follows(t)'
    BY <1>0, <2>1, <2>2, <2>3, <2>4, OthersFollow
  <2>6. Typed' /\ Apart'
    BY <1>0, <2>1, <2>2 DEF Typed, Apart, redis, owners
  <2> QED BY <2>5, <2>6 DEF Inv1
<1> QED BY <1>1, <1>2

LEMMA ClosesInv ==
  ASSUME Inv1, NEW s \in Sessions, Closes(s)
  PROVE  Inv1'
<1>0. /\ Typed /\ Apart /\ \A t \in Sessions : Follows(t) /\ run[s] = "open"
      /\ UNCHANGED <<told, encounter, pump, next_state, sending, got, local, handlers, wire, redis, owners>>
  BY DEF Inv1, Closes, client, bus
<1>1. /\ run' \in [Sessions -> {"open", "letting go", "closed"}]
      /\ run'[s] = IF encounter[s] = NoFight THEN "closed" ELSE "letting go"
      /\ \A t \in Sessions \ {s} : run'[t] = run[t]
  BY <1>0 DEF Closes, Typed
<1>2. \A t \in Sessions : FollowedBy(t)' = FollowedBy(t)
  BY <1>0 DEF FollowedBy
<1> HIDE DEF FollowedBy
<1>3. Follows(s)'
  BY <1>0, <1>1, <1>2 DEF Follows
<1>4. \A t \in Sessions : Follows(t)'
  BY <1>0, <1>1, <1>2, <1>3, OthersFollow
<1>5. Typed' /\ Apart'
  BY <1>0, <1>1 DEF Typed, Apart, redis, owners
<1> QED BY <1>4, <1>5 DEF Inv1

LEMMA LeavesInv ==
  ASSUME Inv1, NEW s \in Sessions, Leaves(s)
  PROVE  Inv1'
<1>0. /\ Typed /\ Apart /\ \A t \in Sessions : Follows(t)
      /\ run[s] = "letting go" /\ unfollow(encounter[s], s)
      /\ UNCHANGED <<told, pump, next_state, sending, got, redis, owners>>
  BY DEF Inv1, Leaves, client
<1>1. encounter[s] \in Fights /\ FollowedBy(s) \subseteq {encounter[s]}
  BY <1>0 DEF Follows, Typed
<1>2. /\ run' \in [Sessions -> {"open", "letting go", "closed"}] /\ run'[s] = "closed"
      /\ encounter' \in [Sessions -> Fights \cup {NoFight}] /\ encounter'[s] = NoFight
      /\ \A t \in Sessions \ {s} : run'[t] = run[t] /\ encounter'[t] = encounter[t]
  BY <1>0 DEF Leaves, Typed
<1>3. /\ local' \in [Fights -> SUBSET Sessions] /\ handlers' \in [Fights -> SUBSET Sessions]
      /\ wire' \in Seq(Commands) /\ Apart'
      /\ FollowedBy(s)' = {} /\ \A t \in Sessions \ {s} : FollowedBy(t)' = FollowedBy(t)
  BY <1>0, <1>1, UnfollowIs
<1> HIDE DEF FollowedBy
<1>4. Follows(s)'
  BY <1>2, <1>3 DEF Follows
<1>5. \A t \in Sessions : Follows(t)'
  BY <1>0, <1>2, <1>3, <1>4, OthersFollow
<1>6. Typed'
  BY <1>0, <1>2, <1>3 DEF Typed, redis, owners
<1> QED BY <1>3, <1>5, <1>6 DEF Inv1

-----------------------------------------------------------------------------
(* And those that do not. *)

\* A state that is forwarded, by whom, keeps to its type.
LEMMA ForwardedType ==
  ASSUME Typed, NEW to, NEW state \in InFlight, Forwarded(to, state)
  PROVE  next_state' \in [Sessions -> States] /\ sending' \in [Sessions -> SUBSET InFlight]
<1>1. state \in States
  BY NoneIs
<1>2. next_state \in [Sessions -> States] /\ sending \in [Sessions -> SUBSET InFlight]
  BY DEF Typed
<1> HIDE DEF InFlight, States
<1> QED BY <1>1, <1>2 DEF Forwarded

LEMMA QuietInv ==
  ASSUME Inv1, Typed', UNCHANGED <<encounter, pump, run, local, handlers>>
  PROVE  Inv1'
BY DEF Inv1, Apart, Follows, FollowedBy

LEMMA HeadOf ==
  ASSUME NEW T, NEW q \in Seq(T), q # <<>>
  PROVE  /\ Head(q) \in T /\ Head(q) = q[1] /\ Tail(q) \in Seq(T) /\ Len(q) \in Nat \ {0}
         /\ Len(Tail(q)) = Len(q) - 1 /\ \A i \in 1..Len(Tail(q)) : i + 1 \in 1..Len(q) /\ Tail(q)[i] = q[i + 1]
BY HeadTailProperties, EmptySeq

LEMMA RedisTakesType ==
  ASSUME Typed, RedisTakes
  PROVE  Typed'
<1>1. wire \in Seq(Commands) /\ wire # <<>>
  BY DEF Typed, RedisTakes
<1>2. Head(wire) \in Commands /\ Tail(wire) \in Seq(Commands)
  BY <1>1, HeadOf
<1>3. subscribed' \in SUBSET Fights /\ wire' \in Seq(Commands)
  BY <1>2 DEF RedisTakes, Typed, Commands
<1> QED BY <1>3 DEF RedisTakes, Typed, sessions, client, owners

LEMMA BusRunsType ==
  ASSUME Typed, BusRuns
  PROVE  Typed'
<1>1. net \in Seq(InFlight) /\ net # <<>>
  BY DEF Typed, BusRuns
<1>2. Head(net) \in InFlight /\ net' \in Seq(InFlight)
  BY <1>1, HeadOf DEF BusRuns
<1>3. next_state' \in [Sessions -> States] /\ sending' \in [Sessions -> SUBSET InFlight]
  BY <1>2, ForwardedType DEF BusRuns
<1> HIDE DEF InFlight
<1> QED BY <1>2, <1>3 DEF BusRuns, Typed, sessions, bus, owners

LEMMA PublishIs ==
  ASSUME Typed, NEW e \in Fights, NEW second \in BOOLEAN, _publish(e, second)
  PROVE  /\ at' \in [Fights -> 0..MaxStep] /\ at[e] <= at'[e]
         /\ \A d \in Fights \ {e} : at'[d] = at[d]
         /\ Forward(e, at'[e]) \in InFlight
         /\ Forward(e, at'[e]).fight = e /\ Forward(e, at'[e]).step = at'[e]
         /\ Forwarded(local[e], Forward(e, at'[e]))
         /\ net' = net \/ (e \notin Here /\ net' = Append(net, Forward(e, at'[e])))
         /\ remote' \in [Fights -> BOOLEAN]
         /\ UNCHANGED <<sessions, got, bus, subscribed>>
<1>1. at \in [Fights -> 0..MaxStep] /\ remote \in [Fights -> BOOLEAN] /\ MaxStep \in Nat
  BY FollowingAssumption DEF Typed, FollowingAssumption
<1>2. at' = [at EXCEPT ![e] = IF at[e] < MaxStep THEN at[e] + 1 ELSE at[e]]
  BY DEF _publish
<1>3. /\ at' \in [Fights -> 0..MaxStep] /\ at[e] <= at'[e] /\ \A d \in Fights \ {e} : at'[d] = at[d]
      /\ at'[e] = IF at[e] < MaxStep THEN at[e] + 1 ELSE at[e]
  BY <1>1, <1>2
<1>4. Forward(e, at'[e]) \in InFlight /\ Forward(e, at'[e]).fight = e /\ Forward(e, at'[e]).step = at'[e]
  BY <1>3 DEF Forward, InFlight
<1>5. /\ Forwarded(local[e], Forward(e, at'[e]))
      /\ net' = net \/ (e \notin Here /\ net' = Append(net, Forward(e, at'[e])))
      /\ UNCHANGED <<sessions, got, bus, subscribed>>
  BY <1>3 DEF _publish
<1>6. remote' \in [Fights -> BOOLEAN]
  BY <1>1 DEF _publish
<1> QED BY <1>3, <1>4, <1>5, <1>6

LEMMA PublishType ==
  ASSUME Typed, NEW e \in Fights, NEW second \in BOOLEAN, _publish(e, second)
  PROVE  Typed'
<1>1. next_state' \in [Sessions -> States] /\ sending' \in [Sessions -> SUBSET InFlight]
  BY PublishIs, ForwardedType
<1>2. net' \in Seq(InFlight)
  <2>1. net \in Seq(InFlight)
    BY DEF Typed
  <2>2. Forward(e, at'[e]) \in InFlight /\ (net' = net \/ net' = Append(net, Forward(e, at'[e])))
    BY PublishIs
  <2> HIDE DEF InFlight
  <2> QED BY <2>1, <2>2, AppendProperties
<1>3. /\ at' \in [Fights -> 0..MaxStep] /\ remote' \in [Fights -> BOOLEAN]
      /\ UNCHANGED <<sessions, got, bus, subscribed>>
  BY PublishIs
<1> HIDE DEF InFlight
<1> QED BY <1>1, <1>2, <1>3 DEF Typed, sessions, bus

LEMMA SentType ==
  ASSUME Typed, NEW s \in Sessions, Sent(s)
  PROVE  Typed'
<1>1. PICK state \in sending[s] :
        /\ _send_states(s, state)
        /\ got' = [got EXCEPT ![s] = IF state.fight = encounter[s] THEN state ELSE @]
  BY DEF Sent
<1>2. /\ state \in States /\ next_state[s] \in States /\ next_state \in [Sessions -> States]
      /\ sending \in [Sessions -> SUBSET InFlight] /\ got \in [Sessions -> States]
      /\ next_state[s] # None => next_state[s] \in InFlight
  BY NoneIs DEF Typed
<1> HIDE DEF InFlight, States
<1>3. next_state' \in [Sessions -> States] /\ got' \in [Sessions -> States]
  BY <1>1, <1>2, NoneIs DEF _send_states
<1>4. sending' \in [Sessions -> SUBSET InFlight]
  BY <1>1, <1>2 DEF _send_states
<1>5. UNCHANGED <<told, encounter, pump, run, local, handlers, wire, subscribed, net, at, remote>>
  BY DEF Sent, sessions, bus, redis, owners
<1> QED BY <1>3, <1>4, <1>5 DEF Typed

-----------------------------------------------------------------------------
(* A session follows its fight. *)

LEMMA Init1 == Init => Inv1
<1> SUFFICES ASSUME Init PROVE Inv1
  OBVIOUS
<1>1. Typed
  BY FollowingAssumption, NoneIs, IdleIs DEF Init, Typed, FollowingAssumption
<1>2. Apart /\ \A s \in Sessions : FollowedBy(s) = {}
  BY DEF Init, Apart, FollowedBy
<1>3. \A s \in Sessions : Follows(s)
  <2> TAKE s \in Sessions
  <2>1. FollowedBy(s) = {} /\ run[s] = "open" /\ encounter[s] = NoFight
    BY <1>2 DEF Init
  <2> HIDE DEF FollowedBy
  <2> QED BY <2>1 DEF Follows
<1> QED BY <1>1, <1>2, <1>3 DEF Inv1

LEMMA Step1 == Inv1 /\ [Next]_vars => Inv1'
<1> SUFFICES ASSUME Inv1, [Next]_vars PROVE Inv1'
  OBVIOUS
<1>0. Typed
  BY DEF Inv1
<1>1. CASE UNCHANGED vars
  <2>1. Typed'
    BY <1>0, <1>1 DEF Typed, vars, sessions, client, bus, redis, owners
  <2> QED BY <1>1, <2>1, QuietInv DEF vars, sessions, bus
<1>2. CASE RedisTakes
  BY <1>0, <1>2, RedisTakesType, QuietInv DEF RedisTakes, sessions
<1>3. CASE BusRuns
  BY <1>0, <1>3, BusRunsType, QuietInv DEF BusRuns, sessions, bus
<1>4. ASSUME NEW e \in Fights, NEW second \in BOOLEAN, _publish(e, second) PROVE Inv1'
  BY <1>0, <1>4, PublishType, PublishIs, QuietInv DEF sessions, bus
<1>5. ASSUME NEW s \in Sessions, Sent(s) PROVE Inv1'
  BY <1>0, <1>5, SentType, QuietInv DEF Sent, sessions, bus
<1>6. ASSUME NEW s \in Sessions, Resumes(s) \/ Leaves(s) \/ Closes(s) PROVE Inv1'
  BY <1>6, ResumesInv, LeavesInv, ClosesInv
<1>7. ASSUME NEW s \in Sessions, NEW event \in Event, _pump(s, event) PROVE Inv1'
  BY <1>7, PumpInv
<1> QED BY <1>1, <1>2, <1>3, <1>4, <1>5, <1>6, <1>7 DEF Next, Step

LEMMA Always1 == Spec => []Inv1
BY Init1, Step1, PTL DEF Spec

\* The types of Following (encounter.py, session.py).
THEOREM TypeCorrect == Spec => []TypeOK
<1>1. Inv1 => TypeOK
  BY NoneIs DEF Inv1, Typed, TypeOK
<1> QED BY <1>1, Always1, PTL

\* Whatever fights start and end, and wherever a closing socket cuts the pump
\* off, a session that is not changing fights is handed the state of its own
\* and of no other, and one that has closed of none (_follow, Session.run).
THEOREM FollowsItsFightHolds == Spec => []FollowsItsFight
<1>1. Inv1 => FollowsItsFight
  <2> SUFFICES ASSUME Inv1, NEW s \in Sessions, run[s] = "closed" \/ (run[s] = "open" /\ pump[s] = Idle)
               PROVE  FollowedBy(s) = {encounter[s]} \ {NoFight}
    BY DEF FollowsItsFight
  <2>1. Follows(s)
    BY DEF Inv1
  <2> HIDE DEF FollowedBy
  <2> QED BY <2>1, IdleIs DEF Follows
<1> QED BY <1>1, Always1, PTL

-----------------------------------------------------------------------------
(* What is wanted is subscribed to. *)

\* A command that is as its channel is now wanted.
LEMMA MatchesAppend ==
  ASSUME Typed, Inv2, NEW c \in Commands, wire' = Append(wire, c), UNCHANGED subscribed,
         c.op = "subscribe" <=> Wanted(c.fight)',
         \A e \in Fights \ {c.fight} : Wanted(e)' <=> Wanted(e)
  PROVE  Inv2'
<1>1. wire \in Seq(Commands) /\ Len(wire) \in Nat
  <2>1. wire \in Seq(Commands)
    BY DEF Typed
  <2> QED BY <2>1, LenProperties
<1>2. /\ Len(wire') = Len(wire) + 1 /\ wire'[Len(wire) + 1] = c
      /\ \A i \in 1..Len(wire) : wire'[i] = wire[i]
  BY <1>1, AppendProperties
<1>3. ASSUME NEW e \in Fights, e # c.fight PROVE Matches(e)'
  <2>1. Matches(e) /\ (Wanted(e)' <=> Wanted(e))
    BY <1>3 DEF Inv2
  <2> HIDE DEF Wanted
  <2>2. (\A i \in 1..Len(wire') : wire'[i].fight # e) => (e \in subscribed' <=> Wanted(e)')
    BY <1>1, <1>2, <2>1 DEF Matches
  <2>3. ASSUME NEW i \in 1..Len(wire'), wire'[i].fight = e, \A j \in i + 1..Len(wire') : wire'[j].fight # e
        PROVE  wire'[i].op = "subscribe" <=> Wanted(e)'
    <3>1. i \in 1..Len(wire) /\ wire[i] = wire'[i]
      BY <1>1, <1>2, <1>3, <2>3
    <3>2. \A j \in i + 1..Len(wire) : wire[j].fight # e
      BY <1>1, <1>2, <2>3, <3>1
    <3> QED BY <2>1, <2>3, <3>1, <3>2 DEF Matches
  <2> QED BY <2>2, <2>3 DEF Matches
<1>4. ASSUME NEW e \in Fights, e = c.fight PROVE Matches(e)'
  <2> HIDE DEF Wanted
  <2>1. ~\A i \in 1..Len(wire') : wire'[i].fight # e
    BY <1>1, <1>2, <1>4
  <2>2. ASSUME NEW i \in 1..Len(wire'), wire'[i].fight = e, \A j \in i + 1..Len(wire') : wire'[j].fight # e
        PROVE  wire'[i].op = "subscribe" <=> Wanted(e)'
    <3>1. i = Len(wire) + 1
      BY <1>1, <1>2, <1>4, <2>2
    <3> QED BY <1>2, <1>4, <3>1
  <2> QED BY <2>1, <2>2 DEF Matches
<1> QED BY <1>3, <1>4 DEF Inv2

LEMMA MatchesTail ==
  ASSUME Typed, Inv2, RedisTakes
  PROVE  Inv2'
<1>1. wire \in Seq(Commands) /\ wire # <<>> /\ wire' = Tail(wire) /\ UNCHANGED handlers
  BY DEF Typed, RedisTakes
<1>2. /\ wire[1] \in Commands /\ Len(wire) \in Nat \ {0} /\ Len(wire') = Len(wire) - 1
      /\ \A i \in 1..Len(wire') : i + 1 \in 1..Len(wire) /\ wire'[i] = wire[i + 1]
      /\ subscribed' = IF wire[1].op = "subscribe" THEN subscribed \union {wire[1].fight}
                       ELSE subscribed \ {wire[1].fight}
  BY <1>1, HeadOf DEF RedisTakes
<1>3. ASSUME NEW e \in Fights PROVE Matches(e)'
  <2>1. Matches(e) /\ (Wanted(e)' <=> Wanted(e))
    BY <1>1 DEF Inv2, Wanted
  <2> HIDE DEF Wanted
  <2>2. ASSUME \A i \in 1..Len(wire') : wire'[i].fight # e PROVE e \in subscribed' <=> Wanted(e)'
    <3>1. \A j \in 2..Len(wire) : wire[j].fight # e
      <4> TAKE j \in 2..Len(wire)
      <4>1. j - 1 \in 1..Len(wire') /\ (j - 1) + 1 = j
        BY <1>2
      <4> QED BY <1>2, <2>2, <4>1
    <3>2. CASE wire[1].fight = e
      <4>1. wire[1].op = "subscribe" <=> Wanted(e)
        BY <1>2, <2>1, <3>1, <3>2 DEF Matches
      <4> QED BY <1>2, <2>1, <3>2, <4>1
    <3>3. CASE wire[1].fight # e
      <4>1. \A i \in 1..Len(wire) : wire[i].fight # e
        BY <1>2, <3>1, <3>3
      <4> QED BY <1>2, <2>1, <3>3, <4>1 DEF Matches
    <3> QED BY <3>2, <3>3
  <2>3. ASSUME NEW i \in 1..Len(wire'), wire'[i].fight = e, \A j \in i + 1..Len(wire') : wire'[j].fight # e
        PROVE  wire'[i].op = "subscribe" <=> Wanted(e)'
    <3>1. i + 1 \in 1..Len(wire) /\ wire'[i] = wire[i + 1]
      BY <1>2
    <3>2. \A j \in (i + 1) + 1..Len(wire) : wire[j].fight # e
      <4> TAKE j \in (i + 1) + 1..Len(wire)
      <4>1. j - 1 \in i + 1..Len(wire') /\ j - 1 \in 1..Len(wire') /\ (j - 1) + 1 = j
        BY <1>2
      <4> QED BY <1>2, <2>3, <4>1
    <3> QED BY <2>1, <2>3, <3>1, <3>2 DEF Matches
  <2> QED BY <2>2, <2>3 DEF Matches
<1> QED BY <1>3 DEF Inv2

LEMMA BusMatches ==
  ASSUME Typed, Apart, Inv2, NEW e \in Fights, NEW s \in Sessions, follow(e, s) \/ unfollow(e, s),
         UNCHANGED subscribed
  PROVE  Inv2'
<1>1. handlers \in [Fights -> SUBSET Sessions]
  BY DEF Typed
<1>2. CASE UNCHANGED wire /\ \A d \in Fights : Wanted(d)' <=> Wanted(d)
  <2> HIDE DEF Wanted
  <2> QED BY <1>2 DEF Inv2, Matches
<1>3. CASE e \notin Here /\ follow(e, s)
  <2>1. /\ handlers' = [handlers EXCEPT ![e] = @ \union {s}]
        /\ wire' = IF handlers[e] = {} THEN Append(wire, Command("subscribe", e)) ELSE wire
    BY <1>3 DEF follow, subscribe
  <2>2. Wanted(e)' /\ \A d \in Fights \ {e} : Wanted(d)' <=> Wanted(d)
    BY <1>1, <2>1 DEF Wanted
  <2>3. CASE handlers[e] = {}
    <3>1. /\ Command("subscribe", e) \in Commands /\ Command("subscribe", e).fight = e
          /\ Command("subscribe", e).op = "subscribe" /\ wire' = Append(wire, Command("subscribe", e))
      BY <2>1, <2>3 DEF Command, Commands
    <3> HIDE DEF Wanted, Commands
    <3> QED BY <2>2, <3>1, MatchesAppend
  <2>4. CASE handlers[e] # {}
    <3>1. UNCHANGED wire /\ Wanted(e)
      BY <2>1, <2>4 DEF Wanted
    <3> QED BY <1>2, <2>2, <3>1
  <2> QED BY <2>3, <2>4
<1>4. CASE e \notin Here /\ unfollow(e, s)
  <2>1. /\ handlers' = [handlers EXCEPT ![e] = @ \ {s}]
        /\ wire' = IF handlers[e] # {} /\ handlers[e] \subseteq {s} THEN Append(wire, Command("unsubscribe", e))
                   ELSE wire
    BY <1>4 DEF unfollow, unsubscribe
  <2>2. /\ Wanted(e)' <=> ~(handlers[e] \subseteq {s})
        /\ \A d \in Fights \ {e} : Wanted(d)' <=> Wanted(d)
    BY <1>1, <2>1 DEF Wanted
  <2>3. CASE handlers[e] # {} /\ handlers[e] \subseteq {s}
    <3>1. /\ Command("unsubscribe", e) \in Commands /\ Command("unsubscribe", e).fight = e
          /\ Command("unsubscribe", e).op # "subscribe" /\ wire' = Append(wire, Command("unsubscribe", e))
      BY <2>1, <2>3 DEF Command, Commands
    <3> HIDE DEF Wanted, Commands
    <3> QED BY <2>2, <2>3, <3>1, MatchesAppend
  <2>4. CASE ~(handlers[e] # {} /\ handlers[e] \subseteq {s})
    <3>1. UNCHANGED wire /\ (Wanted(e)' <=> Wanted(e))
      BY <2>1, <2>2, <2>4 DEF Wanted
    <3> QED BY <1>2, <2>2, <3>1
  <2> QED BY <2>3, <2>4
<1>5. CASE e \in Here
  BY <1>2, <1>5 DEF follow, unfollow, Wanted
<1> QED BY <1>3, <1>4, <1>5

LEMMA Init2 == Init => Inv2
BY DEF Init, Inv2, Matches, Wanted

LEMMA Step2 == Inv1 /\ Inv2 /\ [Next]_vars => Inv2'
<1> SUFFICES ASSUME Inv1, Inv2, [Next]_vars PROVE Inv2'
  OBVIOUS
<1>0. Typed /\ Apart
  BY DEF Inv1
<1>1. ASSUME UNCHANGED <<handlers, wire, subscribed>> PROVE Inv2'
  BY <1>1 DEF Inv2, Matches, Wanted
<1>2. CASE RedisTakes
  BY <1>0, <1>2, MatchesTail
<1>3. ASSUME NEW s \in Sessions, NEW e \in Fights \cup {NoFight}, Joins(s, e), UNCHANGED subscribed PROVE Inv2'
  BY <1>0, <1>1, <1>3, NoneIs, BusMatches DEF Joins, bus
<1>4. ASSUME NEW s \in Sessions, NEW event \in Event, _pump(s, event) PROVE Inv2'
  <2>1. PICK e \in Fights \cup {NoFight} : _follow(s, e)
    BY <1>4 DEF _pump, Event
  <2>2. encounter[s] \in Fights \cup {NoFight} /\ UNCHANGED subscribed
    BY <1>0, <1>4 DEF _pump, Typed, redis
  <2> QED BY <1>0, <1>1, <1>3, <2>1, <2>2, BusMatches DEF _follow, bus
<1>5. ASSUME NEW s \in Sessions, Resumes(s) PROVE Inv2'
  <2>1. pump[s].to \in Fights \cup {NoFight} /\ UNCHANGED subscribed
    BY <1>0, <1>5 DEF Resumes, Typed, Waits, redis
  <2> QED BY <1>1, <1>3, <1>5, <2>1 DEF Resumes, bus
<1>6. ASSUME NEW s \in Sessions, Leaves(s) PROVE Inv2'
  <2>1. Follows(s) /\ encounter[s] \in Fights \cup {NoFight} /\ run[s] = "letting go"
    BY <1>6 DEF Inv1, Typed, Leaves
  <2>2. encounter[s] \in Fights /\ unfollow(encounter[s], s) /\ UNCHANGED subscribed
    BY <1>6, <2>1 DEF Follows, Leaves, redis
  <2> QED BY <1>0, <2>2, BusMatches
<1>7. ASSUME NEW e \in Fights, NEW second \in BOOLEAN, _publish(e, second) PROVE Inv2'
  BY <1>1, <1>7 DEF _publish, bus
<1>8. ASSUME NEW s \in Sessions, Sent(s) \/ Closes(s) PROVE Inv2'
  BY <1>1, <1>8 DEF Sent, Closes, bus, redis
<1>9. CASE BusRuns \/ UNCHANGED vars
  BY <1>1, <1>9 DEF BusRuns, vars, bus, redis
<1> QED BY <1>2, <1>4, <1>5, <1>6, <1>7, <1>8, <1>9 DEF Next, Step

LEMMA Always2 == Spec => []Inv2
BY Always1, Init2, Step2, PTL DEF Spec

\* However sessions come and go while the commands are on their way, once they
\* are taken Redis sends this server the channels its sessions want and no
\* other (Bus.subscribe, unsubscribe).
THEOREM WantedAreSubscribedHolds == Spec => []WantedAreSubscribed
<1>1. Inv1 /\ Inv2 => WantedAreSubscribed
  <2> SUFFICES ASSUME Inv1, Inv2, wire = <<>> PROVE subscribed = {e \in Fights : handlers[e] # {}}
    BY DEF WantedAreSubscribed
  <2>1. \A e \in Fights : e \in subscribed <=> handlers[e] # {}
    BY DEF Inv2, Matches, Wanted
  <2>2. subscribed \subseteq Fights
    BY DEF Inv1, Typed
  <2> QED BY <2>1, <2>2
<1> QED BY <1>1, Always1, Always2, PTL

-----------------------------------------------------------------------------
(* States reach a client in order. *)

\* A session that has the state of no fight has nothing to be behind of.
LEMMA NoneBehind ==
  ASSUME NEW y \in States
  PROVE  Behind(None, y)
BY NoneIs DEF Behind, States, InFlight

LEMMA NetType ==
  ASSUME Typed
  PROVE  \A i \in 1..Len(net) : net[i] \in InFlight
<1>1. net \in Seq(InFlight)
  BY DEF Typed
<1> HIDE DEF InFlight
<1> QED BY <1>1, LenProperties

LEMMA QuietOrder ==
  ASSUME Typed, Inv3, UNCHANGED <<next_state, sending, net, at>>,
         \A s \in Sessions : got'[s] = got[s] \/ got'[s] = None
  PROVE  Inv3'
<1>1. OnTheWay'
  BY DEF Inv3, OnTheWay
<1>2. ASSUME NEW s \in Sessions PROVE InOrder(s)'
  <2>1. InOrder(s)
    BY DEF Inv3
  <2>2. /\ next_state[s] \in States /\ sending[s] \subseteq InFlight
        /\ \A i \in 1..Len(net) : net[i] \in InFlight
    BY NetType DEF Typed
  <2>3. /\ Behind(None, next_state[s]) /\ \A x \in sending[s] : Behind(None, x)
        /\ \A i \in 1..Len(net) : Behind(None, net[i])
    BY <2>2, NoneBehind, NoneIs
  <2> HIDE DEF Behind, None, States, InFlight
  <2> QED BY <2>1, <2>3 DEF InOrder, Sender
<1> QED BY <1>1, <1>2 DEF Inv3

\* What is forwarded is no earlier than what was, and no later than what is
\* still on its way.
LEMMA ForwardedOrder ==
  ASSUME Typed, Typed', NEW s \in Sessions, InOrder(s), NEW to, NEW state \in InFlight, Forwarded(to, state),
         UNCHANGED got, \A d \in Fights : at[d] <= at'[d],
         s \in to => /\ state.step <= at'[state.fight]
                     /\ Behind(got[s], state) /\ \A x \in sending[s] : Behind(x, state)
                     /\ \A i \in 1..Len(net') : Behind(state, net'[i]),
         \A i \in 1..Len(net') : (\E j \in 1..Len(net) : net'[i] = net[j]) \/ net'[i].step = at'[net'[i].fight]
  PROVE  InOrder(s)'
<1>1. /\ next_state[s] \in States /\ got[s] \in States /\ sending[s] \subseteq InFlight
      /\ \A i \in 1..Len(net) : net[i] \in InFlight
      /\ \A i \in 1..Len(net') : net'[i] \in InFlight
      /\ at \in [Fights -> 0..MaxStep] /\ at' \in [Fights -> 0..MaxStep]
      /\ MaxStep \in Nat
  <2>1. \A i \in 1..Len(net') : net'[i] \in InFlight
    <3>1. net' \in Seq(InFlight)
      BY DEF Typed
    <3> HIDE DEF InFlight
    <3> QED BY <3>1, LenProperties
  <2>2. at \in [Fights -> 0..MaxStep] /\ at' \in [Fights -> 0..MaxStep]
    BY DEF Typed
  <2>3. MaxStep \in Nat
    BY FollowingAssumption DEF FollowingAssumption
  <2> QED BY <2>1, <2>2, <2>3, NetType DEF Typed
<1>2. /\ next_state'[s] = IF s \in to /\ sending[s] # {} THEN state ELSE next_state[s]
      /\ sending'[s] = IF s \in to /\ sending[s] = {} THEN {state} ELSE sending[s]
      /\ got'[s] = got[s]
  BY DEF Forwarded, Sender
<1>3. \A x \in States : x # None => x.fight \in Fights /\ x.step \in Nat
  BY <1>1, NoneIs DEF InFlight
<1>4. \A x \in States : x # None /\ x.step <= at[x.fight] => x.step <= at'[x.fight]
  BY <1>1, <1>3
<1>5. /\ next_state[s] # None => next_state[s].step <= at[next_state[s].fight]
      /\ got[s] # None => got[s].step <= at[got[s].fight]
      /\ \A x \in sending[s] : x.step <= at[x.fight]
  BY DEF InOrder
\* Nothing here is behind what is now on its way.
<1>6. ASSUME NEW x \in States, x # None => x.step <= at[x.fight],
             \A j \in 1..Len(net) : Behind(x, net[j]), NEW i \in 1..Len(net')
      PROVE  Behind(x, net'[i])
  <2>1. CASE \E j \in 1..Len(net) : net'[i] = net[j]
    BY <1>6, <2>1
  <2>2. CASE net'[i].step = at'[net'[i].fight]
    <3>1. x = None => Behind(x, net'[i])
      BY <1>1, NoneIs, NoneBehind
    <3>2. x # None => x.step <= at'[x.fight]
      BY <1>4, <1>6
    <3> QED BY <2>2, <3>1, <3>2 DEF Behind
  <2> QED BY <2>1, <2>2
<1>7. \A i \in 1..Len(net') : /\ Behind(next_state[s], net'[i]) /\ Behind(got[s], net'[i])
                              /\ \A x \in sending[s] : Behind(x, net'[i])
  <2>1. \A x \in sending[s] : x \in States
    BY <1>1, NoneIs
  <2>2. /\ \A j \in 1..Len(net) : Behind(next_state[s], net[j]) /\ Behind(got[s], net[j])
        /\ \A x \in sending[s] : \A j \in 1..Len(net) : Behind(x, net[j])
    BY DEF InOrder
  <2> QED BY <1>1, <1>5, <1>6, <2>1, <2>2
<1>8. Behind(got[s], None) /\ \A x \in sending[s] : Behind(x, None)
  BY <1>1, NoneIs DEF Behind, States
<1>9. state # None /\ state \in States
  BY NoneIs
<1>10. CASE s \notin to
  <2>1. next_state'[s] = next_state[s] /\ sending'[s] = sending[s]
    BY <1>2, <1>10
  <2>2. InOrder(s)
    OBVIOUS
  <2> HIDE DEF Behind, None, States, InFlight
  <2> QED BY <1>1, <1>2, <1>4, <1>7, <2>1, <2>2, NoneIs DEF InOrder, Sender
<1>11. CASE s \in to /\ sending[s] = {}
  <2>1. next_state'[s] = None /\ sending'[s] = {state}
    BY <1>2, <1>11 DEF InOrder, Sender
  <2>2. Behind(state, None)
    BY <1>9, NoneIs DEF Behind, States
  <2>3. \A i \in 1..Len(net') : Behind(None, net'[i])
    BY <1>1, NoneBehind, NoneIs
  <2>4. InOrder(s)
    OBVIOUS
  <2> HIDE DEF Behind, None, States, InFlight
  <2> QED BY <1>1, <1>2, <1>4, <1>7, <1>8, <1>11, <2>1, <2>2, <2>3, <2>4 DEF InOrder, Sender
<1>12. CASE s \in to /\ sending[s] # {}
  <2>1. next_state'[s] = state /\ sending'[s] = sending[s]
    BY <1>2, <1>12
  <2>2. InOrder(s)
    OBVIOUS
  <2> HIDE DEF Behind, None, States, InFlight
  <2> QED BY <1>1, <1>2, <1>4, <1>7, <1>12, <2>1, <2>2, NoneIs DEF InOrder, Sender
<1> QED BY <1>10, <1>11, <1>12

\* The sessions of a message's channel are handed it before any that follow it.
LEMMA BusRunsOrder ==
  ASSUME Inv1, Inv3, BusRuns
  PROVE  Inv3'
<1> DEFINE state == Head(net)
<1>1. Typed /\ Typed' /\ net \in Seq(InFlight) /\ net # <<>> /\ net' = Tail(net) /\ UNCHANGED <<at, got>>
  BY BusRunsType DEF Inv1, Typed, BusRuns, owners
<1>2. /\ state = net[1] /\ state \in InFlight /\ Len(net) \in Nat \ {0}
      /\ \A i \in 1..Len(net') : i + 1 \in 1..Len(net) /\ net'[i] = net[i + 1]
      /\ Len(net') \in Nat /\ Forwarded(handlers[state.fight], state)
  BY <1>1, HeadOf DEF BusRuns
<1> HIDE DEF state
<1>3. OnTheWay'
  BY <1>1, <1>2 DEF Inv3, OnTheWay
<1>4. ASSUME NEW s \in Sessions PROVE InOrder(s)'
  <2>1. InOrder(s) /\ OnTheWay
    BY DEF Inv3
  <2>2. /\ state.step <= at'[state.fight]
        /\ Behind(got[s], state) /\ \A x \in sending[s] : Behind(x, state)
        /\ \A i \in 1..Len(net') : Behind(state, net'[i])
    BY <1>1, <1>2, <2>1 DEF InOrder, OnTheWay
  <2>3. \A i \in 1..Len(net') : \E j \in 1..Len(net) : net'[i] = net[j]
    BY <1>2
  <2>4. \A d \in Fights : at[d] <= at'[d]
    <3>1. at \in [Fights -> 0..MaxStep] /\ MaxStep \in Nat
      BY <1>1, FollowingAssumption DEF Typed, FollowingAssumption
    <3> QED BY <1>1, <3>1
  <2> HIDE DEF InFlight
  <2> QED BY <1>1, <1>2, <2>1, <2>2, <2>3, <2>4, ForwardedOrder
<1> QED BY <1>3, <1>4 DEF Inv3

\* An owner's new state is no earlier than any there is of its fight.
LEMMA PublishOrder ==
  ASSUME Inv1, Inv3, NEW e \in Fights, NEW second \in BOOLEAN, _publish(e, second)
  PROVE  Inv3'
<1> DEFINE state == Forward(e, at'[e])
<1>1. /\ Typed /\ Typed' /\ OnTheWay /\ net \in Seq(InFlight) /\ state \in InFlight
      /\ state.fight = e /\ state.step = at'[e] /\ UNCHANGED got
      /\ at \in [Fights -> 0..MaxStep] /\ at' \in [Fights -> 0..MaxStep] /\ MaxStep \in Nat
      /\ \A d \in Fights : at[d] <= at'[d]
  <2>1. Typed /\ Typed' /\ OnTheWay /\ net \in Seq(InFlight)
    BY PublishType DEF Inv1, Inv3, Typed
  <2>2. at \in [Fights -> 0..MaxStep] /\ MaxStep \in Nat
    BY <2>1, FollowingAssumption DEF Typed, FollowingAssumption
  <2>3. /\ at' \in [Fights -> 0..MaxStep] /\ at[e] <= at'[e] /\ \A d \in Fights \ {e} : at'[d] = at[d]
        /\ state \in InFlight /\ state.fight = e /\ state.step = at'[e] /\ UNCHANGED got
    BY <2>1, PublishIs
  <2>4. \A d \in Fights : at[d] <= at'[d]
    BY <2>2, <2>3
  <2> QED BY <2>1, <2>2, <2>3, <2>4
<1>2. Forwarded(local[e], state) /\ (net' = net \/ (e \notin Here /\ net' = Append(net, state)))
  BY <1>1, PublishIs
<1> HIDE DEF state
<1>3. Len(net) \in Nat /\ \A i \in 1..Len(net) : net[i] \in InFlight
  BY <1>1, NetType, LenProperties
<1>4. /\ Len(net') \in Nat
      /\ \A i \in 1..Len(net') : (i \in 1..Len(net) /\ net'[i] = net[i])
                                 \/ (i = Len(net) + 1 /\ net'[i] = state /\ e \notin Here /\ Len(net') = i)
  <2>1. CASE net' = net
    BY <1>3, <2>1
  <2>2. CASE e \notin Here /\ net' = Append(net, state)
    <3> HIDE DEF InFlight
    <3> QED BY <1>1, <1>3, <2>2, AppendProperties
  <2> QED BY <1>2, <2>1, <2>2
<1>5. \A x \in InFlight : x.fight \in Fights /\ x.step \in Nat
  BY <1>1 DEF InFlight
<1>6. \A x \in InFlight : x.step <= at[x.fight] => x.step <= at'[x.fight] /\ Behind(x, state)
  BY <1>1, <1>5 DEF Behind
<1>7. OnTheWay'
  <2>1. ASSUME NEW i \in 1..Len(net') PROVE net'[i].fight \notin Here /\ net'[i].step <= at'[net'[i].fight]
    BY <1>1, <1>3, <1>4, <1>5, <1>6, SMTT(30) DEF OnTheWay
  <2>2. ASSUME NEW i \in 1..Len(net'), NEW j \in 1..Len(net'), i <= j PROVE Behind(net'[i], net'[j])
    <3>1. CASE j \in 1..Len(net)
      BY <1>1, <1>3, <1>4, <2>2, <3>1 DEF OnTheWay
    <3>2. CASE i \in 1..Len(net) /\ net'[j] = state
      <4>1. net'[i] = net[i]
        BY <1>3, <1>4, <3>2
      <4>2. net[i] \in InFlight /\ net[i].step <= at[net[i].fight]
        BY <1>1, <1>3, <3>2 DEF OnTheWay
      <4> QED BY <1>6, <3>2, <4>1, <4>2
    <3>3. CASE i = Len(net) + 1 /\ j = i
      BY <1>1, <1>3, <1>4, <1>5, <3>3 DEF Behind
    <3> QED BY <1>3, <1>4, <2>2, <3>1, <3>2, <3>3
  <2> QED BY <2>1, <2>2 DEF OnTheWay
<1>8. ASSUME NEW s \in Sessions PROVE InOrder(s)'
  <2>1. InOrder(s) /\ got[s] \in States /\ sending[s] \subseteq InFlight
    BY <1>1 DEF Inv3, Typed
  <2>2. s \in local[e] => e \in Here
    BY DEF Inv1, Apart
  <2>3. got[s] # None => got[s] \in InFlight
    BY <2>1, NoneIs
  <2>4. state.step <= at'[state.fight]
    BY <1>1
  <2>5. Behind(got[s], state) /\ \A x \in sending[s] : Behind(x, state)
    <3>1. Behind(None, state)
      BY <1>1, NoneIs, NoneBehind
    <3> QED BY <1>6, <2>1, <2>3, <3>1 DEF InOrder
  <2>6. e \in Here => \A i \in 1..Len(net') : Behind(state, net'[i])
    BY <1>1, <1>4 DEF OnTheWay, Behind
  <2>7. \A i \in 1..Len(net') : (\E j \in 1..Len(net) : net'[i] = net[j]) \/ net'[i].step = at'[net'[i].fight]
    BY <1>1, <1>4
  <2> HIDE DEF InFlight, States, Behind
  <2> QED BY <1>1, <1>2, <2>1, <2>2, <2>4, <2>5, <2>6, <2>7, ForwardedOrder
<1> QED BY <1>7, <1>8 DEF Inv3

\* The client has the one state that was being sent; the one that waited is
\* no earlier.
LEMMA SentOrder ==
  ASSUME Inv1, Inv3, NEW s \in Sessions, Sent(s)
  PROVE  Inv3' /\ (got[s].fight = got'[s].fight => got'[s].step >= got[s].step)
<1>1. PICK state \in sending[s] :
        /\ _send_states(s, state)
        /\ got' = [got EXCEPT ![s] = IF state.fight = encounter[s] THEN state ELSE @]
  BY DEF Sent
<1>2. /\ Typed /\ Typed' /\ UNCHANGED <<net, at>> /\ InOrder(s) /\ OnTheWay
      /\ next_state[s] \in States /\ got[s] \in States /\ sending[s] \subseteq InFlight
      /\ \A i \in 1..Len(net) : net[i] \in InFlight
  BY SentType, NetType DEF Inv1, Inv3, Typed, Sent, redis, owners
<1>3. sending[s] = {state} /\ state \in InFlight
  BY <1>1, <1>2 DEF InOrder
<1>4. /\ next_state'[s] = None /\ sending'[s] = IF next_state[s] = None THEN {} ELSE {next_state[s]}
      /\ got'[s] \in {state, got[s]}
      /\ \A t \in Sessions \ {s} : /\ next_state'[t] = next_state[t] /\ sending'[t] = sending[t]
                                   /\ got'[t] = got[t]
  BY <1>1, <1>3 DEF Inv1, Typed, _send_states
<1>5. got[s].fight = got'[s].fight => got'[s].step >= got[s].step
  <2>1. Behind(got[s], state)
    BY <1>2, <1>3 DEF InOrder
  <2>2. got[s].step \in Int
    BY <1>2, NoneIs DEF InFlight
  <2> QED BY <1>4, <2>1, <2>2 DEF Behind
<1>6. \A y \in States : Behind(None, y) /\ \A x \in InFlight : Behind(x, None)
  BY NoneBehind, NoneIs DEF Behind, InFlight
<1>7. \A i \in 1..Len(net) : net[i] \in States
  BY <1>2, NoneIs
<1>8. Behind(got[s], None)
  BY <1>2, <1>6, NoneIs
<1> HIDE DEF Behind, None, States, InFlight
<1>9. InOrder(s)'
  BY <1>2, <1>3, <1>4, <1>6, <1>7, <1>8, NoneIs DEF InOrder, Sender
<1>10. ASSUME NEW t \in Sessions, t # s PROVE InOrder(t)'
  <2>1. InOrder(t) /\ next_state'[t] = next_state[t] /\ sending'[t] = sending[t] /\ got'[t] = got[t]
    BY <1>4, <1>10 DEF Inv3
  <2> QED BY <1>2, <2>1 DEF InOrder, Sender
<1>11. OnTheWay'
  BY <1>2 DEF OnTheWay
<1> QED BY <1>5, <1>9, <1>10, <1>11 DEF Inv3

LEMMA Init3 == Init => Inv3
<1> SUFFICES ASSUME Init PROVE Inv3
  OBVIOUS
<1>1. OnTheWay
  BY DEF Init, OnTheWay
<1>2. ASSUME NEW s \in Sessions PROVE InOrder(s)
  <2>1. /\ next_state[s] = None /\ got[s] = None /\ sending[s] = {} /\ Len(net) = 0
        /\ Behind(None, None)
    BY NoneIs, NoneBehind DEF Init
  <2> HIDE DEF None, Behind
  <2> QED BY <2>1 DEF InOrder
<1> QED BY <1>1, <1>2 DEF Inv3

\* One step of each kind: what it leaves of the order, and of what clients have.
LEMMA Step3 ==
  ASSUME Inv1, Inv3, [Next]_vars
  PROVE  Inv3' /\ \A s \in Sessions : got[s].fight = got'[s].fight => got'[s].step >= got[s].step
<1> DEFINE Advance == \A s \in Sessions : got[s].fight = got'[s].fight => got'[s].step >= got[s].step
<1> SUFFICES Inv3' /\ Advance
  OBVIOUS
<1>0. Typed
  BY DEF Inv1
<1>1. \A x \in States : x.step \in Int /\ (x.fight = None.fight => x.step = None.step)
  BY NoneIs DEF InFlight
<1>2. \A s \in Sessions : got[s] \in States
  BY <1>0 DEF Typed
<1>3. ASSUME UNCHANGED <<next_state, sending, net, at>>, \A s \in Sessions : got'[s] = got[s] \/ got'[s] = None
      PROVE  Inv3' /\ Advance
  <2>1. Advance
    BY <1>1, <1>2, <1>3
  <2> QED BY <1>0, <1>3, <2>1, QuietOrder
<1>4. ASSUME UNCHANGED got PROVE Advance
  BY <1>1, <1>2, <1>4
<1>5. ASSUME NEW s \in Sessions, NEW e, Joins(s, e) PROVE \A t \in Sessions : got'[t] = got[t] \/ got'[t] = None
  BY <1>0, <1>5 DEF Joins, Typed
<1> HIDE DEF Advance
<1>6. CASE BusRuns
  <2>1. UNCHANGED got
    BY <1>6 DEF BusRuns
  <2> QED BY <1>4, <1>6, <2>1, BusRunsOrder
<1>7. ASSUME NEW e \in Fights, NEW second \in BOOLEAN, _publish(e, second) PROVE Inv3' /\ Advance
  BY <1>4, <1>7, PublishOrder DEF _publish
<1>8. ASSUME NEW s \in Sessions, Sent(s) PROVE Inv3' /\ Advance
  <2>1. \A t \in Sessions \ {s} : got'[t] = got[t]
    BY <1>0, <1>8 DEF Sent, Typed
  <2> QED BY <1>1, <1>2, <1>8, <2>1, SentOrder DEF Advance
<1>9. ASSUME NEW s \in Sessions, NEW event \in Event, _pump(s, event) PROVE Inv3' /\ Advance
  <2>1. UNCHANGED <<next_state, sending, net, at>>
    BY <1>9 DEF _pump, redis, owners
  <2>2. PICK e : _follow(s, e)
    BY <1>9 DEF _pump
  <2>3. \A t \in Sessions : got'[t] = got[t] \/ got'[t] = None
    BY <1>5, <2>2 DEF _follow
  <2> QED BY <1>3, <2>1, <2>3
<1>10. ASSUME NEW s \in Sessions, Resumes(s) PROVE Inv3' /\ Advance
  <2>1. UNCHANGED <<next_state, sending, net, at>>
    BY <1>10 DEF Resumes, redis, owners
  <2>2. \A t \in Sessions : got'[t] = got[t] \/ got'[t] = None
    BY <1>5, <1>10 DEF Resumes
  <2> QED BY <1>3, <2>1, <2>2
<1>11. ASSUME NEW s \in Sessions, Leaves(s) \/ Closes(s) PROVE Inv3' /\ Advance
  BY <1>3, <1>11 DEF Leaves, Closes, client, redis, owners
<1>12. CASE RedisTakes \/ UNCHANGED vars
  <2>1. UNCHANGED <<next_state, sending, got, net, at>>
    BY <1>12 DEF RedisTakes, vars, client, redis, owners
  <2> QED BY <1>3, <2>1
<1> QED BY <1>6, <1>7, <1>8, <1>9, <1>10, <1>11, <1>12 DEF Next, Step, Advance

LEMMA Always3 == Spec => []Inv3
BY Always1, Init3, Step3, PTL DEF Spec

\* However slow a client, however the states reach its session (from here or
\* through Redis) and whatever fights it leaves and joins, those of a fight
\* reach it in the order of their steps (_forward, _send_states, Bus._run).
THEOREM StatesInOrderHolds == Spec => StatesInOrder
<1>1. Inv1 /\ Inv3 /\ [Next]_vars
        => [\A s \in Sessions : got[s].fight = got'[s].fight => got'[s].step >= got[s].step]_vars
  BY Step3
<1> QED BY <1>1, Always1, Always3, PTL DEF Spec, StatesInOrder

\* A state that waits for a slow client has a sender that will take it
\* (_forward, _send_states).
THEOREM NoneStrandedHolds == Spec => []NoneStranded
<1>1. Inv3 => NoneStranded
  BY DEF Inv3, InOrder, NoneStranded
<1> QED BY <1>1, Always3, PTL

=============================================================================
