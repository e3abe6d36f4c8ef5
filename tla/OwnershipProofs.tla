-------------------------- MODULE OwnershipProofs --------------------------
(***************************************************************************)
(* Proofs about Ownership, for any processes, ids, players and bounds: its *)
(* types, and what holds in every reachable state, by induction.           *)
(***************************************************************************)
EXTENDS Ownership, TLAPS

TaskTable == [Processes -> [Fights -> Tasks]]

-----------------------------------------------------------------------------
(* Messages and calls keep to their types. *)

LEMMA NoTaskType == NoTask \in Tasks
BY DEF NoTask, Tasks

\* A message only adds to the mail of those it gets to.
LEMMA MailType ==
  ASSUME NEW t \in Tasks, NEW op \in {"sync", "end"}
  PROVE  LET u == [t EXCEPT !.mail = @ \cup {op}]
         IN /\ u \in Tasks
            /\ u.at = t.at /\ u.need = t.need /\ u.reply = t.reply /\ u.dots = t.dots
            /\ u.mail = t.mail \cup {op}
BY DEF Tasks

LEMMA ToldType ==
  ASSUME NEW T \in TaskTable, NEW e \in Fights, NEW op \in {"sync", "end"},
         NEW R \in SUBSET Processes
  PROVE  /\ Told(T, e, op, R) \in TaskTable
         /\ \A a \in Processes, d \in Fights :
              /\ Told(T, e, op, R)[a][d].at = T[a][d].at
              /\ Told(T, e, op, R)[a][d].need = T[a][d].need
              /\ Told(T, e, op, R)[a][d].reply = T[a][d].reply
              /\ Told(T, e, op, R)[a][d].dots = T[a][d].dots
              /\ T[a][d].mail \subseteq Told(T, e, op, R)[a][d].mail
              /\ a \in R /\ d = e => Told(T, e, op, R)[a][d].mail # {}
              /\ d # e => Told(T, e, op, R)[a][d] = T[a][d]
<1> DEFINE U == Told(T, e, op, R)
           written(a) == [T[a][e] EXCEPT !.mail = @ \cup {op}]
<1>1. \A a \in Processes : T[a] \in [Fights -> Tasks] /\ T[a][e] \in Tasks
  BY DEF TaskTable
<1>2. \A a \in Processes, d \in Fights :
        U[a][d] = IF a \in R /\ d = e THEN written(a) ELSE T[a][d]
  BY <1>1 DEF Told
<1>3. \A a \in Processes : U[a] \in [Fights -> Tasks]
  BY <1>1, MailType DEF Told
<1>4. U \in TaskTable
  BY <1>3 DEF Told, TaskTable
<1>5. \A a \in Processes :
        /\ written(a).at = T[a][e].at /\ written(a).need = T[a][e].need
        /\ written(a).reply = T[a][e].reply /\ written(a).dots = T[a][e].dots
        /\ written(a).mail = T[a][e].mail \cup {op}
  BY <1>1, MailType
<1> HIDE DEF written, U
<1>6. \A a \in Processes, d \in Fights :
        /\ U[a][d].at = T[a][d].at
        /\ U[a][d].need = T[a][d].need
        /\ U[a][d].reply = T[a][d].reply
        /\ U[a][d].dots = T[a][d].dots
        /\ T[a][d].mail \subseteq U[a][d].mail
        /\ a \in R /\ d = e => U[a][d].mail # {}
        /\ d # e => U[a][d] = T[a][d]
  BY <1>2, <1>5
<1> QED BY <1>4, <1>6 DEF U

LEMMA ReceiversAre ==
  ASSUME NEW e \in Fights, NEW R \in Receivers(e)
  PROVE  R \in SUBSET Processes /\ (~Lossy => R = Heard(e))
BY DEF Receivers, Heard

LEMMA DropType ==
  ASSUME TypeOK, NEW p \in Players, fight[p] # NoFight,
         NEW T \in TaskTable, DropPlayer(p, T)
  PROVE  /\ live' \in SUBSET Fights
         /\ lease' \in [Fights -> BOOLEAN]
         /\ members' \in [Fights -> SUBSET Players]
         /\ fight' \in [Players -> Fights \cup {NoFight}]
         /\ task' \in TaskTable
<1>1. fight[p] \in Fights
  BY DEF TypeOK
<1>2. task' \in TaskTable
  <2>1. PICK R \in Receivers(fight[p]) :
          task' = Told(T, fight[p], IF members[fight[p]] = {p} THEN "end" ELSE "sync", R)
    BY DEF DropPlayer
  <2> QED BY <1>1, <2>1, ReceiversAre, ToldType
<1> QED BY <1>1, <1>2 DEF DropPlayer, TypeOK

LEMMA CreatedType ==
  ASSUME TypeOK, NEW id \in Ids, NEW S \in SUBSET Players,
         NEW m \in [Fights -> SUBSET Players],
         NEW f \in [Players -> Fights \cup {NoFight}], Created(id, S, m, f)
  PROVE  /\ made + 1 \in Fights /\ made' = made + 1
         /\ made' \in 0..MaxFights
         /\ owner' \in [Fights -> Ids]
         /\ members' \in [Fights -> SUBSET Players]
         /\ fight' \in [Players -> Fights \cup {NoFight}]
BY OwnershipAssumption DEF Created, TypeOK, Fights, OwnershipAssumption

LEMMA WithoutType ==
  ASSUME TypeOK, NEW e \in Fights
  PROVE  Without(e) \in [Players -> Fights \cup {NoFight}]
BY DEF Without, TypeOK

-----------------------------------------------------------------------------
(* One step of each kind keeps the types. *)

LEMMA TypeInit == Init => TypeOK
BY OwnershipAssumption, NoTaskType DEF Init, TypeOK, OwnershipAssumption, NotLooked

LEMMA TypeProcess ==
  ASSUME TypeOK, NEW a \in Processes, ProcessStep(a)
  PROVE  TypeOK'
<1> USE OwnershipAssumption DEF OwnershipAssumption
<1>1. ASSUME NEW p \in Players, Start(a, p) PROVE TypeOK'
  <2>1. /\ made + 1 \in Fights /\ made' \in 0..MaxFights
        /\ owner' \in [Fights -> Ids]
        /\ members' \in [Fights -> SUBSET Players]
        /\ fight' \in [Players -> Fights \cup {NoFight}]
    <3>1. /\ IdOf[a] \in Ids /\ {p} \in SUBSET Players
          /\ members \in [Fights -> SUBSET Players]
          /\ fight \in [Players -> Fights \cup {NoFight}]
          /\ Created(IdOf[a], {p}, members, fight)
      BY <1>1 DEF Start, TypeOK
    <3> QED BY <3>1, CreatedType
  <2>2. live' \in SUBSET Fights /\ lease' \in [Fights -> BOOLEAN]
    BY <1>1, <2>1 DEF Start, TypeOK
  <2> QED BY <1>1, <2>1, <2>2 DEF Start, TypeOK, counts
<1>2. CASE Listen(a) \/ Claim(a) \/ GiveUp(a) \/ Heartbeat(a) \/ ReleaseGet(a) \/ ReleaseDelete(a)
  <2>1. proc' \in [Processes -> {"down", "waiting", "up", "closing", "releasing"}]
    BY <1>2 DEF Listen, Claim, GiveUp, Heartbeat, ReleaseGet, ReleaseDelete, TypeOK
  <2>2. claim' \in [Ids -> Processes \cup {Unclaimed, Stranger}]
    BY <1>2 DEF Listen, Claim, GiveUp, Heartbeat, ReleaseGet, ReleaseDelete, TypeOK
  <2>3. UNCHANGED <<redisVars, last, found, task, counts>>
    BY <1>2 DEF Listen, Claim, GiveUp, Heartbeat, ReleaseGet, ReleaseDelete
  <2> QED BY <2>1, <2>2, <2>3 DEF TypeOK, redisVars, counts
<1>3. CASE Crash(a) \/ Close(a)
  <2>1. /\ last' \in [Processes -> Nat \cup {NotLooked}]
        /\ found' \in [Processes -> Fights \cup {NoFight}]
        /\ task' \in [Processes -> [Fights -> Tasks]]
    <3>1. Forgets(a)
      BY <1>3 DEF Crash, Close
    <3>2. [d \in Fights |-> NoTask] \in [Fights -> Tasks]
      BY NoTaskType
    <3> QED BY <3>1, <3>2 DEF Forgets, TypeOK
  <2>2. /\ claim' \in [Ids -> Processes \cup {Unclaimed, Stranger}]
        /\ stops' \in Nat
        /\ proc' \in [Processes -> {"down", "waiting", "up", "closing", "releasing"}]
    BY <1>3 DEF Crash, Close, TypeOK
  <2> QED BY <1>3, <2>1, <2>2 DEF Crash, Close, TypeOK, redisVars
<1>4. CASE LookFirst(a)
  <2>1. made \in Nat /\ last' = [last EXCEPT ![a] = made]
    BY <1>4 DEF LookFirst, TypeOK
  <2>2. last' \in [Processes -> Nat \cup {NotLooked}]
    BY <2>1 DEF TypeOK
  <2> QED BY <1>4, <2>2 DEF LookFirst, TypeOK, redisVars, counts
<1>5. CASE Discover(a)
  <2>1. last[a] + 1 \in Fights
    BY <1>5 DEF Discover, TypeOK, Fights, NotLooked
  <2>2. [NoTask EXCEPT !.at = "adopted", !.need = TRUE] \in Tasks
    BY DEF NoTask, Tasks
  <2>3. task' \in [Processes -> [Fights -> Tasks]]
    BY <1>5, <2>1, <2>2 DEF Discover, TypeOK
  <2>4. last' \in [Processes -> Nat \cup {NotLooked}]
    BY <1>5 DEF Discover, TypeOK, NotLooked
  <2> QED BY <1>5, <2>3, <2>4 DEF Discover, TypeOK, redisVars, counts
<1>6. ASSUME NEW e \in Fights, FindLost(a, e) PROVE TypeOK'
  BY <1>6 DEF FindLost, TypeOK, redisVars, counts
<1>7. CASE EndLost(a)
  <2> DEFINE e == found[a]
  <2>1. e \in Fights
    BY <1>7 DEF EndLost, TypeOK
  <2>2. CASE e \notin live
    BY <1>7, <2>2 DEF EndLost, TypeOK, redisVars, counts
  <2>3. CASE e \in live
    <3>1. Without(e) \in [Players -> Fights \cup {NoFight}]
          /\ [members EXCEPT ![e] = {}] \in [Fights -> SUBSET Players]
      BY <2>1, WithoutType DEF TypeOK
    <3>2. task' \in TaskTable
      <4>1. PICK R \in Receivers(e) : task' = Told(task, e, "end", R)
        BY <1>7, <2>3 DEF EndLost
      <4> QED BY <2>1, <4>1, ReceiversAre, ToldType DEF TypeOK, TaskTable
    <3> DEFINE Typed == /\ live' \in SUBSET Fights /\ lease' \in [Fights -> BOOLEAN]
                        /\ made' \in 0..MaxFights /\ owner' \in [Fights -> Ids]
                        /\ members' \in [Fights -> SUBSET Players]
                        /\ fight' \in [Players -> Fights \cup {NoFight}]
    <3>3. Typed
      <4>1. CASE UNCHANGED <<made, owner>> /\ members' = [members EXCEPT ![e] = {}]
                 /\ fight' = Without(e) /\ live' = live \ {e} /\ lease' = [lease EXCEPT ![e] = FALSE]
        BY <2>1, <3>1, <4>1 DEF TypeOK
      <4>2. ASSUME NEW S \in SUBSET members[e],
                   Created(IdOf[a], S, [members EXCEPT ![e] = {}], Without(e)),
                   live' = (live \ {e}) \cup {made + 1},
                   lease' = [lease EXCEPT ![e] = FALSE, ![made + 1] = TRUE]
            PROVE  Typed
        <5>1. S \in SUBSET Players
          BY <2>1 DEF TypeOK
        <5> QED BY <2>1, <3>1, <4>2, <5>1, CreatedType DEF TypeOK
      <4> QED BY <1>7, <2>3, <4>1, <4>2 DEF EndLost
    <3> QED BY <1>7, <3>2, <3>3 DEF EndLost, TypeOK, TaskTable, counts
  <2> QED BY <2>2, <2>3
<1> QED BY <1>1, <1>2, <1>3, <1>4, <1>5, <1>6, <1>7 DEF ProcessStep

LEMMA TypeTask ==
  ASSUME TypeOK, NEW a \in Processes, NEW e \in Fights, TaskStep(a, e)
  PROVE  TypeOK'
<1> USE DEF TaskTable
<1>1. task[a][e] \in Tasks /\ members[e] \in SUBSET Players
  BY DEF TypeOK
<1>2. ASSUME UNCHANGED OnlyTask,
             NEW t \in Tasks, task' = [task EXCEPT ![a][e] = t]
      PROVE  TypeOK'
  BY <1>2 DEF TypeOK, OnlyTask, redisVars, counts
<1>3. CASE Subscribe(a, e)
  <2>1. [task[a][e] EXCEPT !.at = "listening"] \in Tasks
    BY <1>1 DEF Tasks
  <2> QED BY <1>2, <1>3, <2>1 DEF Subscribe
<1>4. CASE Ask(a, e)
  <2>1. [task[a][e] EXCEPT !.at = "asking", !.need = FALSE, !.reply = members[e]] \in Tasks
    BY <1>1 DEF Tasks
  <2> QED BY <1>2, <1>4, <2>1, NoTaskType DEF Ask
<1>5. CASE Apply(a, e)
  <2>1. task' \in TaskTable
    BY <1>1, <1>5, ZenonT(60) DEF Apply, Tasks, TypeOK
  <2> QED BY <1>5, <2>1 DEF Apply, TypeOK, OnlyTask, redisVars, counts
<1>6. CASE TakeInbox(a, e)
  <2>1. PICK got \in SUBSET task[a][e].mail :
          \/ task' = [task EXCEPT ![a][e] = NoTask]
          \/ task' = [task EXCEPT ![a][e].need = TRUE, ![a][e].mail = @ \ got]
    BY <1>6 DEF TakeInbox
  <2>2. task' \in TaskTable
    <3>1. CASE task' = [task EXCEPT ![a][e] = NoTask]
      BY <3>1, NoTaskType DEF TypeOK
    <3>2. CASE task' = [task EXCEPT ![a][e].need = TRUE, ![a][e].mail = @ \ got]
      <4>1. task[a][e].mail \ got \in SUBSET {"sync", "end"}
        BY <1>1 DEF Tasks
      <4> QED BY <1>1, <3>2, <4>1 DEF Tasks, TypeOK
    <3> QED BY <2>1, <3>1, <3>2
  <2> QED BY <1>6, <2>2 DEF TakeInbox, TypeOK, OnlyTask, redisVars, counts
<1>7. CASE Renew(a, e)
  BY <1>2, <1>7, NoTaskType DEF Renew
<1>8. ASSUME NEW p \in Players, Blow(a, e, p) PROVE TypeOK'
  <2>1. [task EXCEPT ![a][e].dots = @ \ {p}] \in TaskTable
    BY <1>1 DEF Tasks, TypeOK
  <2>2. fight[p] # NoFight
    BY <1>8 DEF Blow, Fights, NoFight
  <2> QED BY <1>8, <2>1, <2>2, DropType DEF Blow, TypeOK, counts
<1>9. CASE Fail(a, e)
  <2>1. task' \in TaskTable /\ stops' \in Nat
    BY <1>9, NoTaskType DEF Fail, TypeOK
  <2> QED BY <1>9, <2>1 DEF Fail, TypeOK, redisVars
<1> QED BY <1>3, <1>4, <1>5, <1>6, <1>7, <1>8, <1>9 DEF TaskStep

LEMMA TypeFight ==
  ASSUME TypeOK, NEW e \in Fights, FightStep(e)
  PROVE  TypeOK'
<1> USE DEF TaskTable
<1>1. CASE Won(e)
  <2>1. PICK R \in Receivers(e) : task' = Told(task, e, "end", R)
    BY <1>1 DEF Won
  <2>2. task' \in TaskTable
    BY <2>1, ReceiversAre, ToldType DEF TypeOK
  <2> QED BY <1>1, <2>2, WithoutType DEF Won, TypeOK, counts
<1>2. CASE Lapse(e) \/ LapseInStall(e)
  <2>1. lease' \in [Fights -> BOOLEAN]
    BY <1>2 DEF Lapse, LapseInStall, TypeOK
  <2>2. leaseStalls' \in Nat
    BY <1>2 DEF Lapse, LapseInStall, TypeOK, counts
  <2> QED BY <1>2, <2>1, <2>2 DEF Lapse, LapseInStall, TypeOK, counts
<1>3. ASSUME NEW p \in Players, Join(p, e) PROVE TypeOK'
  <2>1. PICK R \in Receivers(e) : task' = Told(task, e, "sync", R)
    BY <1>3 DEF Join
  <2>2. task' \in TaskTable
    BY <2>1, ReceiversAre, ToldType DEF TypeOK
  <2> QED BY <1>3, <2>2 DEF Join, TypeOK, counts
<1> QED BY <1>1, <1>2, <1>3 DEF FightStep

LEMMA TypeNext == TypeOK /\ [Next]_vars => TypeOK'
<1> SUFFICES ASSUME TypeOK, [Next]_vars PROVE TypeOK'
  OBVIOUS
<1>1. ASSUME NEW p \in Players, Leave(p) PROVE TypeOK'
  BY <1>1, DropType DEF Leave, TypeOK, TaskTable, counts
<1>2. ASSUME NEW id \in Ids, ClaimLapses(id) \/ ClaimLapsesInStall(id) PROVE TypeOK'
  BY <1>2 DEF ClaimLapses, ClaimLapsesInStall, TypeOK, redisVars, counts
<1>3. CASE UNCHANGED vars
  BY <1>3 DEF vars, redisVars, counts, TypeOK
<1> QED BY <1>1, <1>2, <1>3, TypeProcess, TypeTask, TypeFight DEF Next

\* Every variable keeps to its type, whatever crashes, stalls and lost messages
\* (encounter.py, server.py, enc.*).
THEOREM OwnershipTyped == Spec => []TypeOK
BY TypeInit, TypeNext, PTL DEF Spec

-----------------------------------------------------------------------------
(* Membership, leases, owners. *)

\* Membership, leases and what was found lost, made inductive: fights are
\* numbered from the counter, and only a live fight has a lease.
FightInv ==
  /\ FightsAgree
  /\ LiveHasPlayers
  /\ FoundLostStaysLost
  /\ \A e \in Fights : made < e => members[e] = {}
  /\ \A e \in Fights : lease[e] => e \in live
  /\ \A a \in Processes : found[a] <= made

\* A fight is run by processes that are up and have its owner's id.
OwnersRun ==
  \A a \in Processes, e \in Fights :
    Runs(a, e) => e <= made /\ proc[a] = "up" /\ owner[e] = IdOf[a]

\* What a task holds of the fight's members is right, or it has word waiting.
TaskInStep(a, e) ==
  /\ task[a][e].at = "asking" /\ task[a][e].mail = {} => task[a][e].reply = members[e]
  /\ task[a][e].at = "running" /\ ~task[a][e].need /\ task[a][e].mail = {}
     => task[a][e].dots = members[e]

StepInv == ~Lossy => \A a \in Processes, e \in Fights : TaskInStep(a, e)

\* Where no claim lapses under its holder, whoever is up holds its id.
Unstalled == MaxClaimStalls = 0

ClaimInv ==
  \A a \in Processes :
    proc[a] \in {"up", "closing", "releasing"} => claim[IdOf[a]] = a
-----------------------------------------------------------------------------
(* Fights *)

LEMMA FightInit == Init => FightInv
BY DEF Init, FightInv, FightsAgree, LiveHasPlayers, FoundLostStaysLost, NoFight, Fights

\* Nothing of this is disturbed by a step that leaves Redis alone and finds no
\* new fight.
LEMMA FightQuiet ==
  ASSUME TypeOK, FightInv, UNCHANGED redisVars,
         \A a \in Processes : found'[a] = found[a] \/ found'[a] = NoFight
  PROVE  FightInv'
BY DEF FightInv, FightsAgree, LiveHasPlayers, FoundLostStaysLost, redisVars, TypeOK, NoFight

\* A fight ends for all its players: `f` is who is in what after it.
LEMMA FightOver ==
  ASSUME TypeOK, FightInv, NEW e \in Fights,
         UNCHANGED made,
         live' = live \ {e},
         lease' = [lease EXCEPT ![e] = FALSE],
         members' = [members EXCEPT ![e] = {}],
         fight' = Without(e),
         \A a \in Processes : found'[a] = found[a] \/ found'[a] = NoFight
  PROVE  FightInv'
<1>1. FightsAgree'
  BY DEF FightInv, FightsAgree, Without, TypeOK, NoFight, Fights
<1>2. LiveHasPlayers'
  BY DEF FightInv, LiveHasPlayers, TypeOK
<1>3. FoundLostStaysLost'
  BY DEF FightInv, FoundLostStaysLost, TypeOK, NoFight
<1>4. \A d \in Fights : made' < d => members'[d] = {}
  BY DEF FightInv, TypeOK
<1>5. \A d \in Fights : lease'[d] => d \in live'
  BY DEF FightInv, TypeOK
<1>6. \A a \in Processes : found'[a] <= made'
  BY SMTT(30) DEF FightInv, TypeOK, NoFight
<1> QED BY <1>1, <1>2, <1>3, <1>4, <1>5, <1>6 DEF FightInv

\* One player leaves a fight.
LEMMA FightDrop ==
  ASSUME TypeOK, FightInv, NEW p \in Players, fight[p] # NoFight,
         NEW T, DropPlayer(p, T), UNCHANGED <<made, found>>
  PROVE  FightInv'
<1> DEFINE e == fight[p]
<1>1. e \in Fights /\ p \in members[e]
  BY DEF TypeOK, FightInv, FightsAgree
<1>2. /\ members' = [members EXCEPT ![e] = @ \ {p}]
      /\ fight' = [fight EXCEPT ![p] = NoFight]
      /\ live' = IF members[e] = {p} THEN live \ {e} ELSE live
      /\ lease' = IF members[e] = {p} THEN [lease EXCEPT ![e] = FALSE] ELSE lease
  BY DEF DropPlayer
<1>3. FightsAgree'
  BY <1>1, <1>2 DEF FightInv, FightsAgree, TypeOK, NoFight, Fights
<1>4. LiveHasPlayers'
  <2>1. members'[e] # {} <=> members[e] # {p}
    BY <1>1, <1>2 DEF TypeOK
  <2> QED BY <1>1, <1>2, <2>1 DEF FightInv, LiveHasPlayers, TypeOK
<1>5. FoundLostStaysLost'
  BY <1>1, <1>2 DEF FightInv, FoundLostStaysLost, TypeOK
<1>6. \A d \in Fights : made' < d => members'[d] = {}
  BY <1>1, <1>2 DEF FightInv, TypeOK
<1>7. \A d \in Fights : lease'[d] => d \in live'
  BY <1>1, <1>2 DEF FightInv, TypeOK
<1> QED BY <1>3, <1>4, <1>5, <1>6, <1>7 DEF FightInv

\* A fight of the players S is made, who are in no other then: `m` and `f` say
\* who is in what but for it.
LEMMA FightCreated ==
  ASSUME TypeOK, FightInv, NEW id \in Ids, NEW S \in SUBSET Players, S # {},
         NEW m \in [Fights -> SUBSET Players],
         NEW f \in [Players -> Fights \cup {NoFight}],
         \A p \in Players, d \in Fights : f[p] = d <=> p \in m[d],
         \A p \in S : f[p] = NoFight,
         NEW l \in SUBSET live, \A d \in Fights : d \in l <=> m[d] # {},
         NEW g \in [Fights -> BOOLEAN], \A d \in Fights : g[d] => lease[d] /\ d \in l,
         Created(id, S, m, f),
         live' = l \cup {made + 1},
         lease' = [g EXCEPT ![made + 1] = TRUE],
         \A a \in Processes : found'[a] = found[a] \/ found'[a] = NoFight
  PROVE  FightInv'
<1> DEFINE n == made + 1
<1>1. /\ n \in Fights /\ made' = n /\ made \in Nat
      /\ members' = [m EXCEPT ![n] = S]
      /\ fight' = [p \in Players |-> IF p \in S THEN n ELSE f[p]]
  BY DEF Created, TypeOK
<1>2. n \notin live
  <2>1. members[n] = {}
    BY <1>1 DEF FightInv
  <2> QED BY <1>1, <2>1 DEF FightInv, LiveHasPlayers
<1>3. m[n] = {}
  BY <1>1, <1>2
<1>4. FightsAgree'
  BY <1>1, <1>3 DEF FightsAgree, NoFight, Fights
<1>5. LiveHasPlayers'
  BY <1>1 DEF LiveHasPlayers
<1>6. FoundLostStaysLost'
  BY <1>1 DEF FightInv, FoundLostStaysLost, TypeOK, NoFight
<1>7. \A d \in Fights : made' < d => members'[d] = {}
  <2>1. ASSUME NEW d \in Fights, made' < d PROVE members'[d] = {}
    <3>1. d # n /\ made < d /\ d \in Nat
      BY <1>1, <2>1 DEF Fights
    <3>2. d \notin live
      BY <3>1 DEF FightInv, LiveHasPlayers
    <3> QED BY <1>1, <3>1, <3>2
  <2> QED BY <2>1
<1>8. \A d \in Fights : lease'[d] => d \in live'
  BY <1>1
<1>9. \A a \in Processes : found'[a] <= made'
  BY <1>1 DEF FightInv, TypeOK, NoFight, Fights
<1> QED BY <1>4, <1>5, <1>6, <1>7, <1>8, <1>9 DEF FightInv

LEMMA FightEndLost ==
  ASSUME TypeOK, FightInv, NEW a \in Processes, EndLost(a)
  PROVE  FightInv'
<1> DEFINE e == found[a]
<1>1. e \in Fights
  BY DEF EndLost, TypeOK
<1>2. \A b \in Processes : found'[b] = found[b] \/ found'[b] = NoFight
  BY DEF EndLost, TypeOK
<1>3. CASE e \notin live
  BY <1>2, <1>3, FightQuiet DEF EndLost
<1>4. CASE UNCHANGED made /\ members' = [members EXCEPT ![e] = {}] /\ fight' = Without(e)
           /\ live' = live \ {e} /\ lease' = [lease EXCEPT ![e] = FALSE]
  BY <1>1, <1>2, <1>4, FightOver
<1>5. ASSUME NEW S \in (SUBSET members[e]) \ {{}},
             Created(IdOf[a], S, [members EXCEPT ![e] = {}], Without(e)),
             live' = (live \ {e}) \cup {made + 1},
             lease' = [lease EXCEPT ![e] = FALSE, ![made + 1] = TRUE]
      PROVE  FightInv'
  <2> DEFINE m == [members EXCEPT ![e] = {}]
             g == [lease EXCEPT ![e] = FALSE]
             l == live \ {e}
  <2>1. /\ IdOf[a] \in Ids /\ S \in SUBSET Players /\ S # {}
        /\ m \in [Fights -> SUBSET Players]
        /\ g \in [Fights -> BOOLEAN]
        /\ Without(e) \in [Players -> Fights \cup {NoFight}]
    BY <1>1, OwnershipAssumption, WithoutType DEF OwnershipAssumption, TypeOK
  <2>2. \A p \in Players, d \in Fights : Without(e)[p] = d <=> p \in m[d]
    BY <1>1 DEF FightInv, FightsAgree, Without, TypeOK, NoFight, Fights
  <2>3. \A p \in S : Without(e)[p] = NoFight
    BY <1>1 DEF Without, TypeOK
  <2>4. \A d \in Fights : d \in l <=> m[d] # {}
    BY <1>1 DEF FightInv, LiveHasPlayers, TypeOK
  <2>5. \A d \in Fights : g[d] => lease[d] /\ d \in l
    BY <1>1 DEF FightInv, TypeOK
  <2>6. lease' = [g EXCEPT ![made + 1] = TRUE]
    BY <1>5
  <2> HIDE DEF m, g, l
  <2>7. l \in SUBSET live /\ live' = l \cup {made + 1} /\ Created(IdOf[a], S, m, Without(e))
    BY <1>5 DEF l, m
  <2> QED BY <1>2, <1>5, <2>1, <2>2, <2>3, <2>4, <2>5, <2>6, <2>7, FightCreated
<1> QED BY <1>3, <1>4, <1>5 DEF EndLost

LEMMA FightNext == TypeOK /\ FightInv /\ [Next]_vars => FightInv'
<1> SUFFICES ASSUME TypeOK, FightInv, [Next]_vars PROVE FightInv'
  OBVIOUS
<1>1. ASSUME NEW a \in Processes, ProcessStep(a) PROVE FightInv'
  <2>1. ASSUME NEW p \in Players, Start(a, p) PROVE FightInv'
    <3>1. /\ IdOf[a] \in Ids /\ {p} \in SUBSET Players /\ {p} # {}
          /\ members \in [Fights -> SUBSET Players] /\ lease \in [Fights -> BOOLEAN]
          /\ fight \in [Players -> Fights \cup {NoFight}]
      BY OwnershipAssumption DEF OwnershipAssumption, TypeOK
    <3>2. /\ Created(IdOf[a], {p}, members, fight) /\ fight[p] = NoFight
          /\ live' = live \cup {made + 1} /\ lease' = [lease EXCEPT ![made + 1] = TRUE]
          /\ \A b \in Processes : found'[b] = found[b]
      BY <2>1 DEF Start
    <3>3. /\ \A q \in Players, d \in Fights : fight[q] = d <=> q \in members[d]
          /\ \A d \in Fights : d \in live <=> members[d] # {}
          /\ \A d \in Fights : lease[d] => lease[d] /\ d \in live
          /\ live \in SUBSET live /\ \A q \in {p} : q = p
      BY DEF FightInv, FightsAgree, LiveHasPlayers
    <3> QED BY <3>1, <3>2, <3>3, FightCreated
  <2>2. CASE \/ Listen(a) \/ Claim(a) \/ GiveUp(a) \/ Heartbeat(a) \/ ReleaseGet(a)
             \/ ReleaseDelete(a) \/ LookFirst(a) \/ Discover(a)
    BY <2>2, FightQuiet DEF Listen, Claim, GiveUp, Heartbeat, ReleaseGet, ReleaseDelete,
                            LookFirst, Discover
  <2>3. CASE Crash(a) \/ Close(a)
    BY <2>3, FightQuiet DEF Crash, Close, Forgets, TypeOK
  <2>4. ASSUME NEW e \in Fights, FindLost(a, e) PROVE FightInv'
    <3>1. e <= made
      BY <2>4, SMTT(30) DEF FindLost, FightInv, LiveHasPlayers, TypeOK, Fights
    <3> QED BY <2>4, <3>1 DEF FindLost, FightInv, FightsAgree, LiveHasPlayers,
                              FoundLostStaysLost, redisVars, TypeOK
  <2> QED BY <1>1, <2>1, <2>2, <2>3, <2>4, FightEndLost DEF ProcessStep
<1>2. ASSUME NEW a \in Processes, NEW e \in Fights, TaskStep(a, e) PROVE FightInv'
  <2>1. CASE UNCHANGED OnlyTask
    BY <2>1, FightQuiet DEF OnlyTask
  <2>2. ASSUME NEW p \in Players, Blow(a, e, p) PROVE FightInv'
    <3>1. fight[p] # NoFight
      BY <2>2 DEF Blow, Fights, NoFight
    <3> QED BY <2>2, <3>1, FightDrop DEF Blow
  <2>3. CASE Fail(a, e)
    BY <2>3, FightQuiet DEF Fail
  <2> QED BY <1>2, <2>1, <2>2, <2>3 DEF TaskStep, Subscribe, Ask, Apply, TakeInbox, Renew
<1>3. ASSUME NEW e \in Fights, FightStep(e) PROVE FightInv'
  <2>1. CASE Won(e)
    BY <2>1, FightOver DEF Won
  <2>2. CASE Lapse(e) \/ LapseInStall(e)
    BY <2>2 DEF Lapse, LapseInStall, FightInv, FightsAgree, LiveHasPlayers, FoundLostStaysLost, TypeOK
  <2>3. ASSUME NEW p \in Players, Join(p, e) PROVE FightInv'
    <3>1. FightsAgree'
      BY <2>3 DEF Join, FightInv, FightsAgree, TypeOK, NoFight, Fights
    <3>2. LiveHasPlayers' /\ \A d \in Fights : made' < d => members'[d] = {}
      BY <2>3 DEF Join, FightInv, LiveHasPlayers, TypeOK
    <3> QED BY <2>3, <3>1, <3>2 DEF Join, FightInv, FoundLostStaysLost
  <2> QED BY <1>3, <2>1, <2>2, <2>3 DEF FightStep
<1>4. ASSUME NEW p \in Players, Leave(p) PROVE FightInv'
  BY <1>4, FightDrop DEF Leave
<1>5. ASSUME NEW id \in Ids, ClaimLapses(id) \/ ClaimLapsesInStall(id) PROVE FightInv'
  BY <1>5, FightQuiet DEF ClaimLapses, ClaimLapsesInStall
<1>6. CASE UNCHANGED vars
  BY <1>6, FightQuiet DEF vars
<1> QED BY <1>1, <1>2, <1>3, <1>4, <1>5, <1>6 DEF Next

LEMMA FightAlways == Spec => []FightInv
BY OwnershipTyped, FightInit, FightNext, PTL DEF Spec

\* A player is in one fight at most, and the fight knows it, through joins,
\* deaths, ends and fresh fights by any number of servers (enc.add_player,
\* drop_player, finish, encounter_end).
THEOREM OneFightAtMost == Spec => []FightsAgree
<1>1. FightInv => FightsAgree
  BY DEF FightInv
<1> QED BY <1>1, FightAlways, PTL

\* No live fight is empty, and no one is in a fight that is over
\* (enc.drop_player, enc.finish).
THEOREM NoEmptyFights == Spec => []LiveHasPlayers
<1>1. FightInv => LiveHasPlayers
  BY DEF FightInv
<1> QED BY <1>1, FightAlways, PTL

\* A lease found lapsed is not taken up again before the fight is ended
\* (check_leases, the XX of the renewal in Owner._loop).
THEOREM LostStaysLost == Spec => []FoundLostStaysLost
<1>1. FightInv => FoundLostStaysLost
  BY DEF FightInv
<1> QED BY <1>1, FightAlways, PTL
-----------------------------------------------------------------------------
(* Who runs a fight *)

\* What OwnersRun rests on is not taken back: no new task, no process that
\* stops being up, no fight that changes hands.
LEMMA OwnersKept ==
  ASSUME TypeOK, OwnersRun,
         \A a \in Processes, e \in Fights : Runs(a, e)' => Runs(a, e),
         \A a \in Processes, e \in Fights : Runs(a, e)' => proc'[a] = proc[a],
         \A e \in Fights : e <= made => owner'[e] = owner[e],
         made' \in Nat, made <= made'
  PROVE  OwnersRun'
<1>1. ASSUME NEW a \in Processes, NEW e \in Fights, Runs(a, e)'
      PROVE  e <= made' /\ proc'[a] = "up" /\ owner'[e] = IdOf[a]
  <2>1. e <= made /\ proc[a] = "up" /\ owner[e] = IdOf[a]
    BY <1>1 DEF OwnersRun
  <2>2. e \in Nat /\ made \in Nat
    BY DEF Fights, TypeOK
  <2> QED BY <1>1, <2>1, <2>2
<1> QED BY <1>1 DEF OwnersRun

LEMMA ToldRuns ==
  ASSUME NEW T \in TaskTable, NEW e \in Fights, NEW op \in {"sync", "end"},
         NEW R \in Receivers(e), task' = Told(T, e, op, R)
  PROVE  \A a \in Processes, d \in Fights : Runs(a, d)' <=> T[a][d].at # "none"
<1>1. R \in SUBSET Processes
  BY ReceiversAre
<1> QED BY <1>1, ToldType DEF Runs

LEMMA OwnersNext == TypeOK /\ OwnersRun /\ [Next]_vars => OwnersRun'
<1> SUFFICES ASSUME TypeOK, OwnersRun, [Next]_vars PROVE OwnersRun'
  OBVIOUS
<1> USE DEF TaskTable
<1>1. made \in Nat /\ task \in TaskTable
  BY DEF TypeOK
<1>2. ASSUME UNCHANGED <<made, owner, proc>>,
             \A a \in Processes, e \in Fights : Runs(a, e)' => Runs(a, e)
      PROVE  OwnersRun'
  BY <1>1, <1>2, OwnersKept
<1>3. ASSUME UNCHANGED <<made, owner, task>>,
             \A a \in Processes : proc'[a] = proc[a] \/ proc[a] # "up"
      PROVE  OwnersRun'
  BY <1>3 DEF OwnersRun, Runs
<1>4. ASSUME NEW p \in Players, fight[p] # NoFight, NEW T \in TaskTable, DropPlayer(p, T),
             \A a \in Processes, e \in Fights : T[a][e].at = task[a][e].at,
             UNCHANGED <<made, owner, proc>>
      PROVE  OwnersRun'
  <2>1. PICK R \in Receivers(fight[p]) :
          task' = Told(T, fight[p], IF members[fight[p]] = {p} THEN "end" ELSE "sync", R)
    BY <1>4 DEF DropPlayer
  <2>2. fight[p] \in Fights
    BY <1>4 DEF TypeOK
  <2>3. \A a \in Processes, e \in Fights : Runs(a, e)' => Runs(a, e)
    BY <1>4, <2>1, <2>2, ToldRuns DEF Runs
  <2> QED BY <1>2, <1>4, <2>3
<1>5. ASSUME NEW a \in Processes, ProcessStep(a) PROVE OwnersRun'
  <2>1. ASSUME NEW p \in Players, Start(a, p) PROVE OwnersRun'
    BY <1>1, <2>1, OwnersKept DEF Start, Created, Runs, TypeOK, Fights
  <2>2. CASE Listen(a) \/ Claim(a) \/ GiveUp(a) \/ Heartbeat(a) \/ ReleaseGet(a) \/ ReleaseDelete(a)
    BY <1>3, <2>2 DEF Listen, Claim, GiveUp, Heartbeat, ReleaseGet, ReleaseDelete, redisVars, TypeOK
  <2>3. CASE Crash(a) \/ Close(a)
    <3>1. \A b \in Processes, e \in Fights : Runs(b, e)' => b # a /\ Runs(b, e)
      BY <2>3 DEF Crash, Close, Forgets, Runs, NoTask, TypeOK
    <3>2. \A b \in Processes : b # a => proc'[b] = proc[b]
      BY <2>3 DEF Crash, Close, TypeOK
    <3> QED BY <1>1, <2>3, <3>1, <3>2, OwnersKept DEF Crash, Close, redisVars
  <2>4. CASE LookFirst(a) \/ \E e \in Fights : FindLost(a, e)
    BY <1>3, <2>4 DEF LookFirst, FindLost, redisVars
  <2>5. CASE Discover(a)
    <3> DEFINE n == last[a] + 1
    <3>1. n \in Fights /\ n <= made /\ UNCHANGED <<made, owner, proc>> /\ proc[a] = "up"
      <4>1. n <= made /\ last[a] \in Nat /\ made \in 0..MaxFights /\ MaxFights \in Nat
        BY <2>5, OwnershipAssumption DEF Discover, TypeOK, NotLooked, OwnershipAssumption
      <4>2. n \in Fights
        BY <4>1 DEF Fights
      <4>3. UNCHANGED <<made, owner, proc>> /\ proc[a] = "up"
        BY <2>5 DEF Discover, redisVars
      <4> QED BY <4>1, <4>2, <4>3
    <3>2. \A b \in Processes, e \in Fights :
            Runs(b, e)' => Runs(b, e) \/ (b = a /\ e = n /\ owner[n] = IdOf[a])
      <4>1. CASE task' = task
        BY <4>1 DEF Runs
      <4>2. CASE /\ owner[n] = IdOf[a]
                 /\ task' = [task EXCEPT ![a][n] = [NoTask EXCEPT !.at = "adopted", !.need = TRUE]]
        BY <1>1, <3>1, <4>2 DEF Runs
      <4> QED BY <2>5, <4>1, <4>2 DEF Discover
    <3> QED BY <3>1, <3>2 DEF OwnersRun
  <2>6. CASE EndLost(a)
    <3>1. \A b \in Processes, e \in Fights : Runs(b, e)' => Runs(b, e)
      <4>1. CASE UNCHANGED task
        BY <4>1 DEF Runs
      <4>2. ASSUME NEW R \in Receivers(found[a]), task' = Told(task, found[a], "end", R)
            PROVE  <3>1
        <5>1. found[a] \in Fights
          BY <2>6 DEF EndLost, TypeOK
        <5> QED BY <1>1, <4>2, <5>1, ToldRuns DEF Runs
      <4> QED BY <2>6, <4>1, <4>2 DEF EndLost
    <3>2. /\ \A e \in Fights : e <= made => owner'[e] = owner[e]
          /\ made' \in Nat /\ made <= made' /\ UNCHANGED proc
      <4>1. CASE UNCHANGED <<made, owner>>
        BY <1>1, <2>6, <4>1 DEF EndLost
      <4>2. CASE /\ made' = made + 1 /\ \E id : owner' = [owner EXCEPT ![made + 1] = id]
        BY <1>1, <2>6, <4>2 DEF EndLost, TypeOK, Fights
      <4> QED BY <2>6, <4>1, <4>2 DEF EndLost, Created, redisVars
    <3> QED BY <3>1, <3>2, OwnersKept
  <2> QED BY <1>5, <2>1, <2>2, <2>3, <2>4, <2>5, <2>6 DEF ProcessStep
<1>6. ASSUME NEW a \in Processes, NEW e \in Fights, TaskStep(a, e) PROVE OwnersRun'
  <2>1. CASE \/ Subscribe(a, e) \/ Ask(a, e) \/ Apply(a, e) \/ TakeInbox(a, e) \/ Renew(a, e)
             \/ Fail(a, e)
    <3>1. UNCHANGED <<made, owner, proc>>
      BY <2>1 DEF Subscribe, Ask, Apply, TakeInbox, Renew, Fail, OnlyTask, redisVars
    <3>2. Runs(a, e) /\ \A b \in Processes, d \in Fights :
                         (b # a \/ d # e) => task'[b][d] = task[b][d]
      <4>1. CASE Subscribe(a, e) \/ Renew(a, e) \/ Ask(a, e) \/ Fail(a, e)
        BY <1>1, <4>1 DEF Subscribe, Ask, Renew, Fail, Runs
      <4>2. CASE Apply(a, e)
        BY <1>1, <4>2 DEF Apply, Runs
      <4>3. CASE TakeInbox(a, e)
        BY <1>1, <4>3 DEF TakeInbox, Runs
      <4> QED BY <2>1, <4>1, <4>2, <4>3
    <3>3. \A b \in Processes, d \in Fights : Runs(b, d)' => Runs(b, d)
      BY <3>2 DEF Runs
    <3> QED BY <1>2, <3>1, <3>3, SMTT(30)
  <2>2. ASSUME NEW p \in Players, Blow(a, e, p) PROVE OwnersRun'
    <3> DEFINE T == [task EXCEPT ![a][e].dots = @ \ {p}]
    <3>1. T \in TaskTable /\ \A b \in Processes, d \in Fights : T[b][d].at = task[b][d].at
      <4>1. task[a][e] \in Tasks
        BY DEF TypeOK
      <4> QED BY <1>1, <4>1 DEF Tasks
    <3>2. fight[p] # NoFight /\ DropPlayer(p, T) /\ UNCHANGED <<made, owner, proc>>
      BY <2>2 DEF Blow, Fights, NoFight
    <3> QED BY <1>4, <3>1, <3>2
  <2> QED BY <1>6, <2>1, <2>2 DEF TaskStep
<1>7. ASSUME NEW e \in Fights, FightStep(e) PROVE OwnersRun'
  <2>1. UNCHANGED <<made, owner, proc>>
    BY <1>7 DEF FightStep, Won, Lapse, LapseInStall, Join
  <2>2. \A b \in Processes, d \in Fights : Runs(b, d)' => Runs(b, d)
    BY <1>1, <1>7, ToldRuns DEF FightStep, Won, Lapse, LapseInStall, Join, Runs
  <2> QED BY <1>2, <2>1, <2>2
<1>8. ASSUME NEW p \in Players, Leave(p) PROVE OwnersRun'
  BY <1>1, <1>4, <1>8 DEF Leave
<1>9. CASE UNCHANGED vars \/ \E id \in Ids : ClaimLapses(id) \/ ClaimLapsesInStall(id)
  BY <1>3, <1>9 DEF vars, ClaimLapses, ClaimLapsesInStall, redisVars
<1> QED BY <1>5, <1>6, <1>7, <1>8, <1>9 DEF Next

LEMMA OwnersAlways == Spec => []OwnersRun
<1>1. Init => OwnersRun
  BY DEF Init, OwnersRun, Runs, NoTask
<1> QED BY <1>1, OwnershipTyped, OwnersNext, PTL DEF Spec
-----------------------------------------------------------------------------
(* Tasks in step with their fights *)

\* Tasks that run are as they were, and so is who is in their fights.
LEMMA StepKept ==
  ASSUME StepInv, OwnersRun,
         \A a \in Processes, d \in Fights :
           Runs(a, d)' => task'[a][d] = task[a][d] /\ members'[d] = members[d]
  PROVE  StepInv'
<1>1. ASSUME ~Lossy, NEW a \in Processes, NEW d \in Fights PROVE TaskInStep(a, d)'
  <2>1. CASE Runs(a, d)'
    <3>1. TaskInStep(a, d)
      BY <1>1 DEF StepInv
    <3> QED BY <2>1, <3>1 DEF TaskInStep
  <2>2. CASE ~Runs(a, d)'
    BY <2>2 DEF TaskInStep, Runs
  <2> QED BY <2>1, <2>2
<1> QED BY <1>1 DEF StepInv

\* Members of one fight change, and its owner is told.
LEMMA StepTold ==
  ASSUME TypeOK, StepInv, OwnersRun, NEW e \in Fights, NEW T \in TaskTable,
         NEW op \in {"sync", "end"}, NEW R \in Receivers(e), task' = Told(T, e, op, R),
         \A a \in Processes : T[a][e].at = task[a][e].at,
         \A a \in Processes, d \in Fights : d # e => T[a][d] = task[a][d],
         \A d \in Fights : d # e /\ d <= made => members'[d] = members[d]
  PROVE  StepInv'
<1> SUFFICES ASSUME ~Lossy, NEW a \in Processes, NEW d \in Fights
             PROVE  TaskInStep(a, d)'
  BY DEF StepInv
<1>1. R \in SUBSET Processes /\ R = Heard(e)
  BY ReceiversAre
<1>2. CASE d = e
  <2>1. task'[a][e].at \in {"asking", "running"} => task'[a][e].mail # {}
    <3>1. task'[a][e].at = task[a][e].at /\ (a \in R => task'[a][e].mail # {})
      BY <1>1, ToldType
    <3>2. task[a][e].at \in {"asking", "running"} => a \in R
      BY <1>1 DEF Heard
    <3> QED BY <3>1, <3>2
  <2> QED BY <1>2, <2>1 DEF TaskInStep
<1>3. CASE d # e
  <2>1. task'[a][d] = task[a][d]
    BY <1>1, <1>3, ToldType
  <2>2. TaskInStep(a, d)
    BY DEF StepInv
  <2>3. task[a][d].at # "none" => members'[d] = members[d]
    BY <1>3 DEF OwnersRun, Runs
  <2> QED BY <2>1, <2>2, <2>3 DEF TaskInStep
<1> QED BY <1>2, <1>3

\* One task moves by itself, to a state that is right.
LEMMA StepOwn ==
  ASSUME TypeOK, StepInv, NEW a \in Processes, NEW e \in Fights, NEW t,
         task' = [task EXCEPT ![a][e] = t], UNCHANGED members,
         ~Lossy /\ TaskInStep(a, e) =>
           /\ t.at = "asking" /\ t.mail = {} => t.reply = members[e]
           /\ t.at = "running" /\ ~t.need /\ t.mail = {} => t.dots = members[e]
  PROVE  StepInv'
<1> SUFFICES ASSUME ~Lossy, NEW b \in Processes, NEW d \in Fights
             PROVE  TaskInStep(b, d)'
  BY DEF StepInv
<1>1. TaskInStep(b, d) /\ TaskInStep(a, e)
  BY DEF StepInv
<1>2. task'[b][d] = IF b = a /\ d = e THEN t ELSE task[b][d]
  BY DEF TypeOK
<1> QED BY <1>1, <1>2 DEF TaskInStep

LEMMA StepDrop ==
  ASSUME TypeOK, StepInv, OwnersRun, NEW p \in Players, fight[p] # NoFight,
         NEW T \in TaskTable, DropPlayer(p, T),
         \A a \in Processes : T[a][fight[p]].at = task[a][fight[p]].at,
         \A a \in Processes, d \in Fights : d # fight[p] => T[a][d] = task[a][d]
  PROVE  StepInv'
<1> DEFINE e == fight[p]
<1>1. e \in Fights
  BY DEF TypeOK
<1>2. PICK R \in Receivers(e) :
        task' = Told(T, e, IF members[e] = {p} THEN "end" ELSE "sync", R)
  BY DEF DropPlayer
<1>3. \A d \in Fights : d # e => members'[d] = members[d]
  BY <1>1 DEF DropPlayer, TypeOK
<1> QED BY <1>1, <1>2, <1>3, StepTold

LEMMA StepTask ==
  ASSUME TypeOK, StepInv, OwnersRun, NEW a \in Processes, NEW e \in Fights, TaskStep(a, e)
  PROVE  StepInv'
<1> USE DEF TaskTable
<1> DEFINE t == task[a][e]
<1>1. t \in Tasks /\ task \in TaskTable
  BY DEF TypeOK
<1>2. CASE Subscribe(a, e)
  <2> DEFINE u == [t EXCEPT !.at = "listening"]
  <2>1. task' = [task EXCEPT ![a][e] = u] /\ UNCHANGED members
    BY <1>1, <1>2 DEF Subscribe, OnlyTask, redisVars
  <2>2. u.at = "listening"
    BY <1>1 DEF Tasks
  <2> HIDE DEF u
  <2> QED BY <2>1, <2>2, StepOwn
<1>3. CASE Ask(a, e)
  <2> DEFINE u == IF e \in live
                  THEN [t EXCEPT !.at = "asking", !.need = FALSE, !.reply = members[e]]
                  ELSE NoTask
  <2>1. task' = [task EXCEPT ![a][e] = u] /\ UNCHANGED members
    BY <1>1, <1>3 DEF Ask, OnlyTask, redisVars
  <2>2. u.at # "running" /\ (u.at = "asking" => u.reply = members[e])
    BY <1>1 DEF Tasks, NoTask
  <2> HIDE DEF u
  <2> QED BY <2>1, <2>2, StepOwn
<1>4. CASE Apply(a, e)
  <2> DEFINE u == [t EXCEPT !.at = "running", !.dots = t.reply, !.reply = {}]
  <2>1. task' = [task EXCEPT ![a][e] = u] /\ UNCHANGED members /\ t.at = "asking"
    BY <1>1, <1>4 DEF Apply, OnlyTask, redisVars
  <2>2. u.at = "running" /\ u.dots = t.reply /\ u.mail = t.mail
    BY <1>1 DEF Tasks
  <2>3. TaskInStep(a, e) => (u.mail = {} => u.dots = members[e])
    BY <2>1, <2>2 DEF TaskInStep
  <2> HIDE DEF u, t
  <2> QED BY <2>1, <2>2, <2>3, StepOwn
<1>5. CASE TakeInbox(a, e)
  <2>1. UNCHANGED members
    BY <1>5 DEF TakeInbox, OnlyTask, redisVars
  <2>2. CASE task' = [task EXCEPT ![a][e] = NoTask]
    BY <2>1, <2>2, StepOwn DEF NoTask
  <2>3. ASSUME NEW got \in SUBSET t.mail,
               task' = [task EXCEPT ![a][e].need = TRUE, ![a][e].mail = @ \ got]
        PROVE  StepInv'
    <3> DEFINE u == [t EXCEPT !.need = TRUE, !.mail = @ \ got]
    <3>1. u.at = "running" /\ u.need
      BY <1>1, <1>5 DEF TakeInbox, Tasks
    <3>2. task' = [task EXCEPT ![a][e] = u]
      BY <1>1, <2>3
    <3> HIDE DEF u
    <3> QED BY <2>1, <3>1, <3>2, StepOwn
  <2> QED BY <1>5, <2>2, <2>3 DEF TakeInbox
<1>6. CASE Renew(a, e)
  BY <1>1, <1>6, StepOwn DEF Renew, OnlyTask, redisVars, NoTask
<1>7. ASSUME NEW p \in Players, Blow(a, e, p) PROVE StepInv'
  <2> DEFINE T == [task EXCEPT ![a][e].dots = @ \ {p}]
  <2>1. /\ T \in TaskTable
        /\ \A b \in Processes : T[b][e].at = task[b][e].at
        /\ \A b \in Processes, d \in Fights : d # e => T[b][d] = task[b][d]
    BY <1>1 DEF Tasks
  <2>2. fight[p] = e /\ fight[p] # NoFight /\ DropPlayer(p, T)
    BY <1>7 DEF Blow, Fights, NoFight
  <2> HIDE DEF T
  <2> QED BY <2>1, <2>2, StepDrop
<1>8. CASE Fail(a, e)
  BY <1>1, <1>8, StepOwn DEF Fail, redisVars, NoTask
<1> QED BY <1>2, <1>3, <1>4, <1>5, <1>6, <1>7, <1>8 DEF TaskStep

LEMMA StepNext == TypeOK /\ OwnersRun /\ StepInv /\ [Next]_vars => StepInv'
<1> SUFFICES ASSUME TypeOK, OwnersRun, StepInv, [Next]_vars PROVE StepInv'
  OBVIOUS
<1> USE DEF TaskTable
<1>1. task \in TaskTable /\ made \in Nat
  BY DEF TypeOK
<1>2. ASSUME UNCHANGED <<task, members>> PROVE StepInv'
  BY <1>2, StepKept
<1>3. ASSUME NEW a \in Processes, ProcessStep(a) PROVE StepInv'
  <2>1. ASSUME NEW p \in Players, Start(a, p) PROVE StepInv'
    <3>1. /\ UNCHANGED task
          /\ \A d \in Fights : d <= made => members'[d] = members[d]
      BY <1>1, <2>1 DEF Start, Created, TypeOK, Fights
    <3> QED BY <3>1, StepKept DEF OwnersRun, Runs
  <2>2. CASE \/ Listen(a) \/ Claim(a) \/ GiveUp(a) \/ Heartbeat(a) \/ ReleaseGet(a)
             \/ ReleaseDelete(a) \/ LookFirst(a) \/ \E e \in Fights : FindLost(a, e)
    BY <1>2, <2>2 DEF Listen, Claim, GiveUp, Heartbeat, ReleaseGet, ReleaseDelete,
                      LookFirst, FindLost, redisVars
  <2>3. CASE Crash(a) \/ Close(a)
    <3>1. UNCHANGED members /\ Forgets(a)
      BY <2>3 DEF Crash, Close, redisVars
    <3>2. \A b \in Processes, d \in Fights : Runs(b, d)' => task'[b][d] = task[b][d]
      BY <1>1, <3>1 DEF Forgets, Runs, NoTask
    <3> QED BY <3>1, <3>2, StepKept
  <2>4. CASE Discover(a)
    <3> DEFINE n == last[a] + 1
               t == [NoTask EXCEPT !.at = "adopted", !.need = TRUE]
    <3>1. UNCHANGED members
      BY <2>4 DEF Discover, redisVars
    <3>2. CASE UNCHANGED task
      BY <1>2, <3>1, <3>2
    <3>3. CASE task' = [task EXCEPT ![a][n] = t]
      <4>1. n \in Fights
        <5>1. n <= made /\ last[a] \in Nat /\ made \in 0..MaxFights /\ MaxFights \in Nat
          BY <2>4, OwnershipAssumption DEF Discover, TypeOK, NotLooked, OwnershipAssumption
        <5> QED BY <5>1 DEF Fights
      <4>2. t.at = "adopted"
        BY DEF NoTask
      <4> HIDE DEF n, t
      <4> QED BY <3>1, <3>3, <4>1, <4>2, StepOwn
    <3> QED BY <2>4, <3>2, <3>3 DEF Discover
  <2>5. CASE EndLost(a)
    <3> DEFINE e == found[a]
    <3>1. CASE UNCHANGED <<redisVars, task>>
      BY <1>2, <3>1 DEF redisVars
    <3>2. ASSUME NEW R \in Receivers(e), task' = Told(task, e, "end", R),
                 \/ members' = [members EXCEPT ![e] = {}]
                 \/ \E S : Created(IdOf[a], S, [members EXCEPT ![e] = {}], Without(e))
          PROVE  StepInv'
      <4>1. e \in Fights
        BY <2>5 DEF EndLost, TypeOK
      <4>2. \A d \in Fights : d # e /\ d <= made => members'[d] = members[d]
        <5>1. members \in [Fights -> SUBSET Players]
          BY DEF TypeOK
        <5>2. CASE members' = [members EXCEPT ![e] = {}]
          BY <5>1, <5>2
        <5>3. CASE \E S : members' = [members EXCEPT ![e] = {}, ![made + 1] = S]
          BY <1>1, <5>1, <5>3 DEF Fights
        <5> QED BY <3>2, <5>1, <5>2, <5>3 DEF Created
      <4> QED BY <1>1, <3>2, <4>1, <4>2, StepTold
    <3> QED BY <2>5, <3>1, <3>2 DEF EndLost
  <2> QED BY <1>3, <2>1, <2>2, <2>3, <2>4, <2>5 DEF ProcessStep
<1>4. ASSUME NEW e \in Fights, FightStep(e) PROVE StepInv'
  <2>1. CASE Won(e)
    <3>1. \A d \in Fights : d # e => members'[d] = members[d]
      BY <2>1 DEF Won, TypeOK
    <3>2. PICK R \in Receivers(e) : task' = Told(task, e, "end", R)
      BY <2>1 DEF Won
    <3> QED BY <1>1, <3>1, <3>2, StepTold
  <2>2. CASE Lapse(e) \/ LapseInStall(e)
    BY <1>2, <2>2 DEF Lapse, LapseInStall
  <2>3. ASSUME NEW p \in Players, Join(p, e) PROVE StepInv'
    <3>1. \A d \in Fights : d # e => members'[d] = members[d]
      BY <2>3 DEF Join, TypeOK
    <3>2. PICK R \in Receivers(e) : task' = Told(task, e, "sync", R)
      BY <2>3 DEF Join
    <3> QED BY <1>1, <3>1, <3>2, StepTold
  <2> QED BY <1>4, <2>1, <2>2, <2>3 DEF FightStep
<1>5. ASSUME NEW p \in Players, Leave(p) PROVE StepInv'
  BY <1>1, <1>5, StepDrop DEF Leave
<1>6. CASE UNCHANGED vars \/ \E id \in Ids : ClaimLapses(id) \/ ClaimLapsesInStall(id)
  BY <1>2, <1>6 DEF vars, ClaimLapses, ClaimLapsesInStall, redisVars
<1> QED BY <1>3, <1>4, <1>5, <1>6, StepTask DEF Next

\* The owner simulates exactly who is in the fight, or has word waiting that
\* it does not, while players come, go and fall around it (Owner._sync,
\* _take_inbox, enc.sync).
THEOREM OwnerInStep == Spec => []InStep
<1>1. Init => StepInv
  BY DEF Init, StepInv, TaskInStep, NoTask
<1>2. StepInv => InStep
  BY DEF StepInv, TaskInStep, InStep
<1> QED BY <1>1, <1>2, StepNext, OwnershipTyped, OwnersAlways, PTL DEF Spec
-----------------------------------------------------------------------------
(* One process for a fight *)

\* A process that is up holds its id, so another with its id is not.
LEMMA ClaimAlone ==
  ASSUME ClaimInv, NEW a \in Processes, NEW b \in Processes, IdOf[a] = IdOf[b],
         proc[a] \in {"up", "closing", "releasing"},
         proc[b] \in {"up", "closing", "releasing"}
  PROVE  a = b
BY DEF ClaimInv

LEMMA ClaimNext == Unstalled /\ TypeOK /\ ClaimInv /\ [Next]_vars => ClaimInv'
<1> SUFFICES ASSUME Unstalled, TypeOK, ClaimInv, [Next]_vars PROVE ClaimInv'
  OBVIOUS
<1> DEFINE Up == {"up", "closing", "releasing"}
<1> USE OwnershipAssumption DEF OwnershipAssumption
<1>1. ASSUME UNCHANGED claim,
             \A b \in Processes : proc'[b] \in Up => proc[b] \in Up
      PROVE  ClaimInv'
  BY <1>1 DEF ClaimInv
<1>2. ASSUME NEW a \in Processes, ProcessStep(a) PROVE ClaimInv'
  <2>1. CASE Listen(a) \/ GiveUp(a) \/ Close(a) \/ ReleaseGet(a)
    BY <1>1, <2>1 DEF Listen, GiveUp, Close, ReleaseGet, TypeOK
  <2>2. CASE Claim(a)
    <3>1. claim[IdOf[a]] = Unclaimed /\ claim' = [claim EXCEPT ![IdOf[a]] = a]
          /\ \A b \in Processes : b # a => proc'[b] = proc[b]
      BY <2>2 DEF Claim, TypeOK
    <3>2. \A b \in Processes : b # a /\ proc[b] \in Up => IdOf[b] # IdOf[a]
      BY <3>1 DEF ClaimInv
    <3> QED BY <3>1, <3>2 DEF ClaimInv, TypeOK
  <2>3. CASE Heartbeat(a)
    BY <2>3 DEF Heartbeat, ClaimInv, redisVars
  <2>4. CASE Crash(a)
    <3>1. \A b \in Processes : proc'[b] \in Up => b # a /\ proc[b] \in Up
      BY <2>4 DEF Crash, TypeOK
    <3>2. \A id \in Ids : claim[id] # a => claim'[id] = claim[id]
      BY <2>4 DEF Crash
    <3> QED BY <3>1, <3>2 DEF ClaimInv
  <2>5. CASE ReleaseDelete(a)
    <3>1. /\ proc[a] \in Up /\ claim' = [claim EXCEPT ![IdOf[a]] = Unclaimed]
          /\ \A b \in Processes : proc'[b] \in Up => b # a /\ proc[b] \in Up
      BY <2>5 DEF ReleaseDelete, TypeOK
    <3>2. \A b \in Processes : b # a /\ proc[b] \in Up => IdOf[b] # IdOf[a]
      BY <3>1, ClaimAlone
    <3> QED BY <3>1, <3>2 DEF ClaimInv, TypeOK
  <2>6. CASE \/ LookFirst(a) \/ Discover(a) \/ EndLost(a)
             \/ (\E e \in Fights : FindLost(a, e)) \/ (\E p \in Players : Start(a, p))
    <3>1. UNCHANGED <<claim, proc>>
      BY <2>6 DEF LookFirst, Discover, EndLost, FindLost, Start
    <3> QED BY <1>1, <3>1
  <2> QED BY <1>2, <2>1, <2>2, <2>3, <2>4, <2>5, <2>6 DEF ProcessStep
<1>3. ASSUME NEW a \in Processes, NEW e \in Fights, TaskStep(a, e) PROVE ClaimInv'
  <2>1. UNCHANGED <<claim, proc>>
    BY <1>3 DEF TaskStep, Subscribe, Ask, Apply, TakeInbox, Renew, Blow, Fail, OnlyTask
  <2> QED BY <1>1, <2>1
<1>4. ASSUME NEW e \in Fights, FightStep(e) PROVE ClaimInv'
  <2>1. UNCHANGED <<claim, proc>>
    BY <1>4 DEF FightStep, Won, Lapse, LapseInStall, Join
  <2> QED BY <1>1, <2>1
<1>5. ASSUME NEW p \in Players, Leave(p) PROVE ClaimInv'
  BY <1>1, <1>5 DEF Leave
<1>6. ASSUME NEW id \in Ids, ClaimLapses(id) PROVE ClaimInv'
  <2>1. claim[id] = Stranger
    BY <1>6 DEF ClaimLapses
  <2>2. \A b \in Processes : proc[b] \in Up => IdOf[b] # id
    BY <2>1 DEF ClaimInv
  <2> QED BY <1>6, <2>2 DEF ClaimLapses, ClaimInv, TypeOK
<1>7. \A id \in Ids : ~ClaimLapsesInStall(id)
  BY DEF ClaimLapsesInStall, Unstalled, TypeOK
<1>8. CASE UNCHANGED vars
  BY <1>1, <1>8 DEF vars
<1> QED BY <1>2, <1>3, <1>4, <1>5, <1>6, <1>7, <1>8 DEF Next

\* No two processes run one fight, through crashes, restarts with the same id
\* and shutdowns, as long as no claim lapses under a process that stalls
\* (claim_server_id, Server._heartbeats, release_server_id).
THEOREM OneRunner ==
  ASSUME Unstalled
  PROVE  Spec => []OneRunsEach
<1>1. Init => ClaimInv
  BY DEF Init, ClaimInv
<1>2. TypeOK /\ ClaimInv /\ [Next]_vars => ClaimInv'
  BY ClaimNext
<1>3. ClaimInv /\ OwnersRun => OneRunsEach
  BY ClaimAlone DEF OwnersRun, OneRunsEach
<1> QED BY <1>1, <1>2, <1>3, OwnershipTyped, OwnersAlways, PTL DEF Spec
=============================================================================
