----------------------------- MODULE Ownership -----------------------------
(***************************************************************************)
(* Who runs a fight.  Fights live in Redis; each is simulated by one       *)
(* server process, the owner: the one whose call started it.  A process    *)
(* claims its server id, watches the stream of new fights for those of its *)
(* id, runs each in a task of its own, and renews the fight's lease.  When *)
(* a lease lapses any process ends the fight as lost, and whoever is still *)
(* there gets a fresh one.                                                 *)
(*                                                                         *)
(* A fight is its number (alz:encounter_seq), and so is its entry in the   *)
(* stream of new fights.  A task keeps the players it simulates in step    *)
(* with the fight's members by asking again whenever it is told `sync`.    *)
(* What happens in a fight is left out but for who is in it.               *)
(***************************************************************************)
EXTENDS Integers, FiniteSets

CONSTANTS Processes,      \* server processes
          Ids,            \* server ids
          IdOf,           \* IdOf[a]: the ALZ_SERVER_ID a process is given
          Players,
          Unclaimed,      \* what a claim is when its key is not there
          Stranger,       \* the claim of a process that is gone
          Lossy,          \* whether a published message may get lost
          MaxFights,      \* bound: fights in a behaviour
          MaxStops,       \* bound: crashes, shutdowns and tasks that fail in a behaviour
          MaxClaimStalls, \* bound: claims that lapse under their holder
          MaxLeaseStalls  \* bound: leases that lapse under their owner

ASSUME OwnershipAssumption ==
  /\ IdOf \in [Processes -> Ids]
  /\ Unclaimed \notin Processes
  /\ Stranger \notin Processes
  /\ Unclaimed # Stranger
  /\ Lossy \in BOOLEAN
  /\ MaxFights \in Nat
  /\ MaxStops \in Nat
  /\ MaxClaimStalls \in Nat
  /\ MaxLeaseStalls \in Nat

Fights == 1..MaxFights
NoFight == 0
NotLooked == -1   \* a process that has not looked at the stream yet

VARIABLES claim,   \* alz:server:<id>
          made,    \* alz:encounter_seq, and the stream alz:new_encounters
          live,    \* alz:encounters
          owner,   \* ENC:<id> owner
          lease,   \* whether ENC:<id>:lease is there
          members, \* ENC:<id>:players
          fight    \* PLAYER:<id>:encounter

redisVars == <<made, live, owner, lease, members, fight>>

VARIABLES proc,    \* where a process is between its start and its end
          last,    \* EncounterHost._discover: the last entry it has seen
          found,   \* EncounterHost.check_leases: the fight it found without a lease
          task,    \* the Owner of a fight in a process
          stops, claimStalls, leaseStalls   \* how often, for the bounds

counts == <<stops, claimStalls, leaseStalls>>
vars == <<claim, redisVars, proc, last, found, task, counts>>

\* A task: adopted, then listening on the fight's channel, asking for who is in
\* it, and running.  `mail` is what was published to it and not yet taken.
NoTask == [at |-> "none", need |-> FALSE, mail |-> {}, reply |-> {}, dots |-> {}]
Tasks == [at : {"none", "adopted", "listening", "asking", "running"}, need : BOOLEAN,
          mail : SUBSET {"sync", "end"}, reply : SUBSET Players, dots : SUBSET Players]

-----------------------------------------------------------------------------
(* Messages to a fight's owner *)

\* Bug: the first look at a fight comes before the subscription.
HeardOnceRunning(e) == {a \in Processes : task[a][e].at = "running"}
Heard(e) == {a \in Processes : task[a][e].at \in {"listening", "asking", "running"}}

\* Those a message published now gets to.
Receivers(e) == IF Lossy THEN SUBSET Heard(e) ELSE {Heard(e)}

Told(tasks, e, op, receivers) ==
  [a \in Processes |->
     IF a \in receivers THEN [tasks[a] EXCEPT ![e].mail = @ \cup {op}] ELSE tasks[a]]

-----------------------------------------------------------------------------
(* Fights, in Redis *)

\* enc.create and enc.add_player: a fight of these players, where `m` and `f`
\* say who is in what.
Created(id, S, m, f) ==
  LET e == made + 1
  IN /\ e \in Fights
     /\ made' = e
     /\ owner' = [owner EXCEPT ![e] = id]
     /\ members' = [m EXCEPT ![e] = S]
     /\ fight' = [p \in Players |-> IF p \in S THEN e ELSE f[p]]

\* Bug: the players are not let go.
WithoutKeeping(e) == fight
\* enc.finish: everyone is let go.
Without(e) == [p \in Players |-> IF p \in members[e] THEN NoFight ELSE fight[p]]

\* A call of a session of process a brings a player and an enemy together.
\* Sessions come in from when the process listens until it is down.
Start(a, p) ==
  /\ proc[a] # "down"
  /\ fight[p] = NoFight
  /\ Created(IdOf[a], {p}, members, fight)
  /\ live' = live \cup {made + 1}
  /\ lease' = [lease EXCEPT ![made + 1] = TRUE]
  /\ UNCHANGED <<claim, proc, last, found, task, counts>>

\* enc.add_player: walking in on a fight.
Join(p, e) ==
  /\ e \in live
  /\ fight[p] = NoFight
  /\ members' = [members EXCEPT ![e] = @ \cup {p}]
  /\ fight' = [fight EXCEPT ![p] = e]
  /\ \E R \in Receivers(e) : task' = Told(task, e, "sync", R)
  /\ UNCHANGED <<claim, made, live, owner, lease, proc, last, found, counts>>

\* enc.drop_player: the last one out ends it.
DropPlayer(p, tasks) ==
  LET e == fight[p]
      over == members[e] = {p}
  IN /\ members' = [members EXCEPT ![e] = @ \ {p}]
     /\ fight' = [fight EXCEPT ![p] = NoFight]
     /\ live' = IF over THEN live \ {e} ELSE live
     /\ lease' = IF over THEN [lease EXCEPT ![e] = FALSE] ELSE lease
     /\ \E R \in Receivers(e) :
          task' = Told(tasks, e, IF over THEN "end" ELSE "sync", R)

\* A player goes for a reason outside the fight: moved away, faded, fell to
\* something else.
Leave(p) ==
  /\ fight[p] # NoFight
  /\ DropPlayer(p, task)
  /\ UNCHANGED <<claim, made, owner, proc, last, found, counts>>

\* The last of the NPCs is gone (enc.drop_npc).
Won(e) ==
  /\ e \in live
  /\ live' = live \ {e}
  /\ lease' = [lease EXCEPT ![e] = FALSE]
  /\ members' = [members EXCEPT ![e] = {}]
  /\ fight' = Without(e)
  /\ \E R \in Receivers(e) : task' = Told(task, e, "end", R)
  /\ UNCHANGED <<claim, made, owner, proc, last, found, counts>>

Renewed(e) == \E a \in Processes : task[a][e].at \in {"asking", "running"}

\* Three seconds without a renewal, as no one runs the fight.
Lapse(e) ==
  /\ lease[e]
  /\ ~Renewed(e)
  /\ lease' = [lease EXCEPT ![e] = FALSE]
  /\ UNCHANGED <<claim, made, live, owner, members, fight, proc, last, found, task, counts>>

\* Three seconds without a renewal, as its owner stalls.
LapseInStall(e) ==
  /\ lease[e]
  /\ Renewed(e)
  /\ leaseStalls < MaxLeaseStalls
  /\ leaseStalls' = leaseStalls + 1
  /\ lease' = [lease EXCEPT ![e] = FALSE]
  /\ UNCHANGED <<claim, made, live, owner, members, fight, proc, last, found, task,
                 stops, claimStalls>>

-----------------------------------------------------------------------------
(* A process, from its start to its end *)

\* The socket is open before the id is claimed.
Listen(a) ==
  /\ proc[a] = "down"
  /\ proc' = [proc EXCEPT ![a] = "waiting"]
  /\ UNCHANGED <<claim, redisVars, last, found, task, counts>>

\* Bug: a claim is taken whether or not someone holds it.
ClaimAnyway(a) ==
  /\ proc[a] = "waiting"
  /\ claim' = [claim EXCEPT ![IdOf[a]] = a]
  /\ proc' = [proc EXCEPT ![a] = "up"]
  /\ UNCHANGED <<redisVars, last, found, task, counts>>

\* claim_server_id, and EncounterHost.start.
Claim(a) ==
  /\ proc[a] = "waiting"
  /\ claim[IdOf[a]] = Unclaimed
  /\ claim' = [claim EXCEPT ![IdOf[a]] = a]
  /\ proc' = [proc EXCEPT ![a] = "up"]
  /\ UNCHANGED <<redisVars, last, found, task, counts>>

\* It waited as long as a claim lasts.
GiveUp(a) ==
  /\ proc[a] = "waiting"
  /\ claim[IdOf[a]] # Unclaimed
  /\ proc' = [proc EXCEPT ![a] = "down"]
  /\ UNCHANGED <<claim, redisVars, last, found, task, counts>>

\* Server._heartbeats: the claim is written again, whatever it says.
Heartbeat(a) ==
  /\ proc[a] = "up"
  /\ claim' = [claim EXCEPT ![IdOf[a]] = a]
  /\ UNCHANGED <<redisVars, proc, last, found, task, counts>>

\* No heartbeat for the time a claim lasts, as its process is gone.
ClaimLapses(id) ==
  /\ claim[id] = Stranger
  /\ claim' = [claim EXCEPT ![id] = Unclaimed]
  /\ UNCHANGED <<redisVars, proc, last, found, task, counts>>

\* No heartbeat for the time a claim lasts, as its process stalls.
ClaimLapsesInStall(id) ==
  /\ claim[id] \in Processes
  /\ claimStalls < MaxClaimStalls
  /\ claimStalls' = claimStalls + 1
  /\ claim' = [claim EXCEPT ![id] = Unclaimed]
  /\ UNCHANGED <<redisVars, proc, last, found, task, stops, leaseStalls>>

\* What a process has in memory is gone.
Forgets(a) ==
  /\ last' = [last EXCEPT ![a] = NotLooked]
  /\ found' = [found EXCEPT ![a] = NoFight]
  /\ task' = [task EXCEPT ![a] = [e \in Fights |-> NoTask]]

Crash(a) ==
  /\ proc[a] # "down"
  /\ stops < MaxStops
  /\ stops' = stops + 1
  /\ proc' = [proc EXCEPT ![a] = "down"]
  /\ claim' = [id \in Ids |-> IF claim[id] = a THEN Stranger ELSE claim[id]]
  /\ Forgets(a)
  /\ UNCHANGED <<redisVars, claimStalls, leaseStalls>>

\* A shutdown: every task is cancelled (EncounterHost.close), then the claim
\* is let go in two steps (release_server_id).
Close(a) ==
  /\ proc[a] = "up"
  /\ stops < MaxStops
  /\ stops' = stops + 1
  /\ proc' = [proc EXCEPT ![a] = "closing"]
  /\ Forgets(a)
  /\ UNCHANGED <<claim, redisVars, claimStalls, leaseStalls>>

ReleaseGet(a) ==
  /\ proc[a] = "closing"
  /\ proc' = [proc EXCEPT ![a] = IF claim[IdOf[a]] = a THEN "releasing" ELSE "down"]
  /\ UNCHANGED <<claim, redisVars, last, found, task, counts>>

ReleaseDelete(a) ==
  /\ proc[a] = "releasing"
  /\ claim' = [claim EXCEPT ![IdOf[a]] = Unclaimed]
  /\ proc' = [proc EXCEPT ![a] = "down"]
  /\ UNCHANGED <<redisVars, last, found, task, counts>>

-----------------------------------------------------------------------------
(* Finding fights to run, and fights no one runs *)

\* The first look: from the newest there is.
LookFirst(a) ==
  /\ proc[a] = "up"
  /\ last[a] = NotLooked
  /\ last' = [last EXCEPT ![a] = made]
  /\ UNCHANGED <<claim, redisVars, proc, found, task, counts>>

\* EncounterHost._discover and adopt: the next entry.
Discover(a) ==
  LET e == last[a] + 1
  IN /\ proc[a] = "up"
     /\ last[a] # NotLooked
     /\ e <= made
     /\ last' = [last EXCEPT ![a] = e]
     /\ task' = IF owner[e] = IdOf[a] /\ task[a][e].at = "none"
                THEN [task EXCEPT ![a][e] = [NoTask EXCEPT !.at = "adopted", !.need = TRUE]]
                ELSE task
     /\ UNCHANGED <<claim, redisVars, proc, found, counts>>

\* Bug: only fights of servers that are gone are looked at.
FindLostUnclaimed(a, e) ==
  /\ proc[a] = "up"
  /\ found[a] = NoFight
  /\ e \in live
  /\ ~lease[e]
  /\ claim[owner[e]] = Unclaimed
  /\ task[a][e].at = "none"
  /\ found' = [found EXCEPT ![a] = e]
  /\ UNCHANGED <<claim, redisVars, proc, last, task, counts>>

\* check_leases: a fight without a lease, that this process does not run ...
FindLost(a, e) ==
  /\ proc[a] = "up"
  /\ found[a] = NoFight
  /\ e \in live
  /\ ~lease[e]
  /\ task[a][e].at = "none"
  /\ found' = [found EXCEPT ![a] = e]
  /\ UNCHANGED <<claim, redisVars, proc, last, task, counts>>

\* ... is ended in a call of its own (encounter_end).  Those still there and
\* awake, in the room and before an enemy, fight on in a fresh one.
EndLost(a) ==
  LET e == found[a]
  IN /\ e # NoFight
     /\ found' = [found EXCEPT ![a] = NoFight]
     /\ \/ /\ e \notin live
           /\ UNCHANGED <<redisVars, task>>
        \/ /\ e \in live
           /\ \/ /\ members' = [members EXCEPT ![e] = {}]
                 /\ fight' = Without(e)
                 /\ live' = live \ {e}
                 /\ lease' = [lease EXCEPT ![e] = FALSE]
                 /\ UNCHANGED <<made, owner>>
              \/ \E S \in (SUBSET members[e]) \ {{}} :
                   /\ Created(IdOf[a], S, [members EXCEPT ![e] = {}], Without(e))
                   /\ live' = (live \ {e}) \cup {made + 1}
                   /\ lease' = [lease EXCEPT ![e] = FALSE, ![made + 1] = TRUE]
           /\ \E R \in Receivers(e) : task' = Told(task, e, "end", R)
     /\ UNCHANGED <<claim, proc, last, counts>>

-----------------------------------------------------------------------------
(* Running a fight *)

OnlyTask == <<claim, redisVars, proc, last, found, counts>>

\* Owner.run: the subscription, before anything else.
Subscribe(a, e) ==
  /\ task[a][e].at = "adopted"
  /\ task' = [task EXCEPT ![a][e].at = "listening"]
  /\ UNCHANGED OnlyTask

\* Owner._sync asks (encounter_info); a fight that is over is let go.
Ask(a, e) ==
  /\ \/ task[a][e].at = "listening"
     \/ task[a][e].at = "running" /\ task[a][e].need
  /\ task' = [task EXCEPT ![a][e] =
                IF e \in live
                THEN [@ EXCEPT !.at = "asking", !.need = FALSE, !.reply = members[e]]
                ELSE NoTask]
  /\ UNCHANGED OnlyTask

\* The answer is back.
Apply(a, e) ==
  /\ task[a][e].at = "asking"
  /\ task' = [task EXCEPT ![a][e].at = "running",
                          ![a][e].dots = task[a][e].reply,
                          ![a][e].reply = {}]
  /\ UNCHANGED OnlyTask

\* Owner._take_inbox, with what has got here of what was published.
TakeInbox(a, e) ==
  /\ task[a][e].at = "running"
  /\ \E got \in (SUBSET task[a][e].mail) \ {{}} :
       \/ "end" \in got /\ task' = [task EXCEPT ![a][e] = NoTask]
       \/ "end" \notin got /\ task' = [task EXCEPT ![a][e].need = TRUE,
                                                  ![a][e].mail = @ \ got]
  /\ UNCHANGED OnlyTask

\* Bug: the lease is written whether or not it is still there.
RenewAnyway(a, e) ==
  /\ task[a][e].at = "running"
  /\ ~task[a][e].need
  /\ ~lease[e]
  /\ lease' = [lease EXCEPT ![e] = TRUE]
  /\ UNCHANGED <<claim, made, live, owner, members, fight, proc, last, found, task, counts>>

\* Renewing a lease that stands changes nothing here; one that is gone, with
\* its fight or without, ends the task.
Renew(a, e) ==
  /\ task[a][e].at = "running"
  /\ ~task[a][e].need
  /\ ~lease[e]
  /\ task' = [task EXCEPT ![a][e] = NoTask]
  /\ UNCHANGED OnlyTask

\* A blow that kills, or a flight (Owner._call): Lua takes the player out of
\* the fight, and the owner drops their dot when the answer is back.  On a
\* player who is no longer in the fight a blow does nothing.
Blow(a, e, p) ==
  /\ task[a][e].at = "running"
  /\ ~task[a][e].need
  /\ p \in task[a][e].dots
  /\ p \in members[e]
  /\ fight[p] = e
  /\ DropPlayer(p, [task EXCEPT ![a][e].dots = @ \ {p}])
  /\ UNCHANGED <<claim, made, owner, proc, last, found, counts>>

\* An exception ends the task, and no one is told (Owner.run).
Fail(a, e) ==
  /\ task[a][e].at # "none"
  /\ stops < MaxStops
  /\ stops' = stops + 1
  /\ task' = [task EXCEPT ![a][e] = NoTask]
  /\ UNCHANGED <<claim, redisVars, proc, last, found, claimStalls, leaseStalls>>

-----------------------------------------------------------------------------

Init ==
  /\ claim = [id \in Ids |-> Unclaimed]
  /\ made = 0
  /\ live = {}
  /\ owner \in [Fights -> Ids]
  /\ \A e \in Fights : owner[e] = CHOOSE id \in Ids : TRUE
  /\ lease = [e \in Fights |-> FALSE]
  /\ members = [e \in Fights |-> {}]
  /\ fight = [p \in Players |-> NoFight]
  /\ proc = [a \in Processes |-> "down"]
  /\ last = [a \in Processes |-> NotLooked]
  /\ found = [a \in Processes |-> NoFight]
  /\ task = [a \in Processes |-> [e \in Fights |-> NoTask]]
  /\ stops = 0
  /\ claimStalls = 0
  /\ leaseStalls = 0

ProcessStep(a) == \/ Listen(a) \/ Claim(a) \/ GiveUp(a) \/ Heartbeat(a)
                  \/ Crash(a) \/ Close(a) \/ ReleaseGet(a) \/ ReleaseDelete(a)
                  \/ LookFirst(a) \/ Discover(a) \/ EndLost(a)
                  \/ \E e \in Fights : FindLost(a, e)
                  \/ \E p \in Players : Start(a, p)

TaskStep(a, e) == \/ Subscribe(a, e) \/ Ask(a, e) \/ Apply(a, e)
                  \/ TakeInbox(a, e) \/ Renew(a, e) \/ Fail(a, e)
                  \/ \E p \in Players : Blow(a, e, p)

FightStep(e) == \/ Won(e)
                \/ Lapse(e) \/ LapseInStall(e)
                \/ \E p \in Players : Join(p, e)

Next == \/ \E a \in Processes : ProcessStep(a)
        \/ \E a \in Processes, e \in Fights : TaskStep(a, e)
        \/ \E e \in Fights : FightStep(e)
        \/ \E p \in Players : Leave(p)
        \/ \E id \in Ids : ClaimLapses(id) \/ ClaimLapsesInStall(id)

Spec == Init /\ [][Next]_vars

\* A process that is down is started again, goes through its start and its
\* shutdown, keeps watching, and keeps its tasks going; what Redis is told to
\* forget it forgets.  Nobody need come, go, crash, fail or
\* stall.
Fairness ==
  /\ \A a \in Processes :
       /\ WF_vars(Listen(a)) /\ WF_vars(Claim(a))
       /\ WF_vars(ReleaseGet(a)) /\ WF_vars(ReleaseDelete(a))
       /\ WF_vars(LookFirst(a)) /\ WF_vars(Discover(a))
       /\ WF_vars(\E e \in Fights : FindLost(a, e)) /\ WF_vars(EndLost(a))
       /\ \A e \in Fights :
            /\ WF_vars(Subscribe(a, e)) /\ WF_vars(Ask(a, e)) /\ WF_vars(Apply(a, e))
            /\ WF_vars(TakeInbox(a, e)) /\ WF_vars(Renew(a, e))
  /\ \A e \in Fights : WF_vars(Lapse(e))
  /\ \A id \in Ids : WF_vars(ClaimLapses(id))

FairSpec == Spec /\ Fairness
-----------------------------------------------------------------------------
(* What should be true *)

\* The variables keep to their types (encounter.py, server.py, enc.*).
TypeOK ==
  /\ claim \in [Ids -> Processes \cup {Unclaimed, Stranger}]
  /\ made \in 0..MaxFights
  /\ live \in SUBSET Fights
  /\ owner \in [Fights -> Ids]
  /\ lease \in [Fights -> BOOLEAN]
  /\ members \in [Fights -> SUBSET Players]
  /\ fight \in [Players -> Fights \cup {NoFight}]
  /\ proc \in [Processes -> {"down", "waiting", "up", "closing", "releasing"}]
  /\ last \in [Processes -> Nat \cup {NotLooked}]
  /\ found \in [Processes -> Fights \cup {NoFight}]
  /\ task \in [Processes -> [Fights -> Tasks]]
  /\ stops \in Nat /\ claimStalls \in Nat /\ leaseStalls \in Nat

\* The two sides of being in a fight never disagree, through joins, deaths,
\* ends and fresh fights by any number of servers (PLAYER:<id>:encounter and
\* ENC:<id>:players): a player is in one fight at most, and it knows.
FightsAgree ==
  \A p \in Players, e \in Fights : fight[p] = e <=> p \in members[e]

\* Whoever leaves last takes the fight with them: no live fight is empty
\* (drop_player, finish), and no one is in a fight that is over.
LiveHasPlayers ==
  \A e \in Fights : e \in live <=> members[e] # {}

\* A lease found lapsed stays so until the fight is ended: an owner that comes
\* back from a stall does not take up a fight that another server is about to
\* end (the XX of the renewal).
FoundLostStaysLost ==
  \A a \in Processes : found[a] # NoFight /\ found[a] \in live => ~lease[found[a]]

\* The owner simulates exactly who is in the fight, whatever comes and goes
\* while it subscribes, asks or strikes: it is in step, or it has word waiting
\* that it is not (Owner._sync, _take_inbox, enc.sync).
InStep ==
  \A a \in Processes, e \in Fights :
    LET t == task[a][e]
    IN t.at = "running" /\ ~t.need /\ t.mail = {} /\ ~Lossy => t.dots = members[e]

Runs(a, e) == task[a][e].at # "none"

\* No two processes run one fight, through crashes, restarts with the same id
\* and shutdowns: a fight's blows would land twice (claim_server_id).
OneRunsEach ==
  \A a, b \in Processes, e \in Fights : Runs(a, e) /\ Runs(b, e) => a = b

\* A player in a fight is simulated by someone, or is let out of it: a fight
\* whose owner died, or whom no one ever discovered, is not left hanging.
EveryoneIsSimulated ==
  \A p \in Players, e \in Fights :
    fight[p] = e
      ~> \/ fight[p] # e
         \/ \E a \in Processes : task[a][e].at = "running" /\ p \in task[a][e].dots

\* A task of a fight that is over stops, even if the word of the end is lost.
EndedStops ==
  \A a \in Processes, e \in Fights :
    (Runs(a, e) /\ e \notin live) ~> (~Runs(a, e))
=============================================================================
