----------------------------- MODULE Following -----------------------------
(***************************************************************************)
(* How a fight's state reaches the clients of one server (encounter.py:    *)
(* Bus, Owner._publish, follow and unfollow; session.py: _follow,          *)
(* _forward, _send_states, _pump and the end of run).  A fight is owned by *)
(* this server, and its sessions are handed the state, or by another, and  *)
(* the server subscribes to its channel for as long as a session wants it. *)
(*                                                                         *)
(* A session is two tasks: the pump, which follows and leaves fights as    *)
(* the player's events say, and run, which cancels it when the socket      *)
(* closes.  Both await Redis while they change what is followed.           *)
(***************************************************************************)
EXTENDS Integers, SequencesExt

CONSTANTS Sessions,
          Fights,
          Here,       \* the fights this server owns
          MaxStep,    \* bound: where the steps of a fight stop counting
          MaxEvents,  \* bound: events of fights the sessions read
          MaxNet      \* bound: messages on the way from Redis

ASSUME FollowingAssumption ==
  /\ Here \subseteq Fights
  /\ "none" \notin Fights
  /\ {MaxStep, MaxEvents, MaxNet} \subseteq Nat \ {0}

VARIABLES
  told,             \* how many events of fights have been read
  encounter,        \* Session.encounter
  pump,             \* what the pump awaits
  run,              \* where run is: open, or how far its end is
  next_state,       \* the state waiting to be sent
  sending,          \* states being sent to the client
  got,              \* the last state of the fight it follows that the client has
  local, handlers,  \* EncounterHost.local and Bus.handlers
  wire,             \* subscribe and unsubscribe commands on their way to Redis
  subscribed,       \* the channels Redis sends this server
  net,              \* states on their way from Redis
  at,               \* each fight's step
  remote            \* each owner's Owner.remote

sessions == <<told, encounter, pump, run>>
client == <<next_state, sending, got>>
bus == <<local, handlers, wire>>
redis == <<subscribed, net>>
owners == <<at, remote>>
vars == <<sessions, client, bus, redis, owners>>

None == [fight |-> "none", step |-> 0]
NoFight == "none"

\* What the pump awaits: nothing, leaving one fight for another, or joining.
Idle == [await |-> "event", to |-> NoFight]

----------------------------------------------------------------------------
(* Bus and EncounterHost. *)

Command(op, e) == [op |-> op, fight |-> e]

\* Only the first handler of a channel subscribes, and only the last to go
\* unsubscribes.
subscribe(h, w, e, s) ==
  [handlers |-> [h EXCEPT ![e] = @ \union {s}],
   wire |-> IF h[e] = {} THEN Append(w, Command("subscribe", e)) ELSE w]
\* Bug: the channel is left though another session still wants it.
unsubscribeAlways(h, w, e, s) ==
  [handlers |-> [h EXCEPT ![e] = @ \ {s}],
   wire |-> IF h[e] # {} THEN Append(w, Command("unsubscribe", e)) ELSE w]

unsubscribe(h, w, e, s) ==
  [handlers |-> [h EXCEPT ![e] = @ \ {s}],
   wire |-> IF h[e] # {} /\ h[e] \subseteq {s} THEN Append(w, Command("unsubscribe", e)) ELSE w]

follow(e, s) ==
  IF e \in Here THEN local' = [local EXCEPT ![e] = @ \union {s}] /\ UNCHANGED <<handlers, wire>>
  ELSE /\ handlers' = subscribe(handlers, wire, e, s).handlers
       /\ wire' = subscribe(handlers, wire, e, s).wire
       /\ UNCHANGED local
unfollow(e, s) ==
  IF e \in Here THEN local' = [local EXCEPT ![e] = @ \ {s}] /\ UNCHANGED <<handlers, wire>>
  ELSE /\ handlers' = unsubscribe(handlers, wire, e, s).handlers
       /\ wire' = unsubscribe(handlers, wire, e, s).wire
       /\ UNCHANGED local

\* Redis takes a command; it sends on a channel only from then.
RedisTakes ==
  /\ wire # <<>>
  /\ wire' = Tail(wire)
  /\ subscribed' = IF Head(wire).op = "subscribe" THEN subscribed \union {Head(wire).fight}
                   ELSE subscribed \ {Head(wire).fight}
  /\ UNCHANGED <<sessions, client, local, handlers, net, owners>>

----------------------------------------------------------------------------
(* The client's side of a session. *)

\* _forward, of a state, by each session in to: it replaces one that waits,
\* and is sent at once if nothing is being sent.
Sender(s) == sending[s] # {}
\* Bug: a task sends each state, as for refusals and events.
ForwardedEach(to, state) ==
  /\ sending' = [s \in Sessions |-> IF s \in to THEN sending[s] \union {state} ELSE sending[s]]
  /\ UNCHANGED next_state

Forwarded(to, state) ==
  /\ next_state' = [s \in Sessions |-> IF s \in to /\ Sender(s) THEN state ELSE next_state[s]]
  /\ sending' = [s \in Sessions |-> IF s \in to /\ ~Sender(s) THEN {state} ELSE sending[s]]

\* The client has a state; the sender goes on while another waits.
_send_states(s, state) ==
  /\ sending' = [sending EXCEPT ![s] = (@ \ {state}) \union (IF next_state[s] = None THEN {} ELSE {next_state[s]})]
  /\ next_state' = [next_state EXCEPT ![s] = None]

Sent(s) ==
  /\ \E state \in sending[s] :
       /\ _send_states(s, state)
       /\ got' = [got EXCEPT ![s] = IF state.fight = encounter[s] THEN state ELSE @]
  /\ UNCHANGED <<sessions, bus, redis, owners>>

----------------------------------------------------------------------------
(* The owners, and the bus. *)

Forward(e, step) == [fight |-> e, step |-> step]

\* Bug: an owner no one listened to doesn't ask again.
_publishOnceDeaf(e, second) ==
  LET step == IF at[e] < MaxStep THEN at[e] + 1 ELSE at[e]
      asks == e \notin Here /\ remote[e]
      reaches == asks /\ e \in subscribed
  IN /\ at' = [at EXCEPT ![e] = step]
     /\ remote' = [remote EXCEPT ![e] = IF asks THEN reaches ELSE @]
     /\ IF reaches THEN Len(net) < MaxNet /\ net' = Append(net, Forward(e, step)) ELSE UNCHANGED net
     /\ Forwarded(local[e], Forward(e, step))
     /\ UNCHANGED <<sessions, got, bus, subscribed>>

\* An owner publishes its state: to the sessions here, and through Redis while
\* someone listens there, which it asks again when a second has passed.  (To
\* the fights owned here no one else listens.)
_publish(e, second) ==
  LET step == IF at[e] < MaxStep THEN at[e] + 1 ELSE at[e]
      asks == e \notin Here /\ (remote[e] \/ second)
      reaches == asks /\ e \in subscribed
  IN /\ at' = [at EXCEPT ![e] = step]
     /\ remote' = [remote EXCEPT ![e] = IF asks THEN reaches ELSE @]
     /\ IF reaches THEN Len(net) < MaxNet /\ net' = Append(net, Forward(e, step)) ELSE UNCHANGED net
     /\ Forwarded(local[e], Forward(e, step))
     /\ UNCHANGED <<sessions, got, bus, subscribed>>

\* The bus hands a message to the handlers its channel has by then.
BusRuns ==
  /\ net # <<>>
  /\ net' = Tail(net)
  /\ Forwarded(handlers[Head(net).fight], Head(net))
  /\ UNCHANGED <<sessions, got, bus, subscribed, owners>>

----------------------------------------------------------------------------
(* The pump, and the end of a connection. *)

Joins(s, e) ==
  /\ encounter' = [encounter EXCEPT ![s] = e]
  /\ got' = [got EXCEPT ![s] = None]
  /\ IF e = NoFight THEN pump' = [pump EXCEPT ![s] = Idle] /\ UNCHANGED bus
     ELSE pump' = [pump EXCEPT ![s] = [await |-> "follow", to |-> e]] /\ follow(e, s)

\* _follow, up to its first await: the old fight is left before the new is
\* joined.
_follow(s, e) ==
  IF e = encounter[s] THEN UNCHANGED <<encounter, pump, got, bus>>
  ELSE IF encounter[s] = NoFight THEN Joins(s, e)
  ELSE /\ unfollow(encounter[s], s)
       /\ pump' = [pump EXCEPT ![s] = [await |-> "unfollow", to |-> e]]
       /\ UNCHANGED <<encounter, got>>

\* An event of the player's fights, as Lua's have it: it starts, or it ends.
Event == [op : {"start", "end"}, fight : Fights]
_pump(s, event) ==
  /\ run[s] = "open" /\ pump[s] = Idle /\ told < MaxEvents
  /\ told' = told + 1
  /\ \/ event.op = "start" /\ _follow(s, event.fight)
     \/ event.op = "end" /\ event.fight = encounter[s] /\ _follow(s, NoFight)
  /\ UNCHANGED <<run, next_state, sending, redis, owners>>

\* The await of the pump's _follow returns.
Resumes(s) ==
  /\ run[s] = "open" /\ pump[s] # Idle
  /\ IF pump[s].await = "unfollow" THEN Joins(s, pump[s].to)
     ELSE pump' = [pump EXCEPT ![s] = Idle] /\ UNCHANGED <<encounter, got, bus>>
  /\ UNCHANGED <<told, run, next_state, sending, redis, owners>>

\* The socket closes: the pump is cancelled, wherever it awaits, and the keys
\* of a player in a fight are let go before it is left.
Closes(s) ==
  /\ run[s] = "open"
  /\ run' = [run EXCEPT ![s] = IF encounter[s] = NoFight THEN "closed" ELSE "letting go"]
  /\ UNCHANGED <<told, encounter, pump, client, bus, redis, owners>>

\* Bug: what the pump was leaving is taken to have been left.
LeavesIdle(s) ==
  /\ run[s] = "letting go"
  /\ IF pump[s] = Idle THEN unfollow(encounter[s], s) ELSE UNCHANGED bus
  /\ run' = [run EXCEPT ![s] = "closed"]
  /\ encounter' = [encounter EXCEPT ![s] = NoFight]
  /\ UNCHANGED <<told, pump, client, redis, owners>>

\* Then the fight is left (_follow again, from run).
Leaves(s) ==
  /\ run[s] = "letting go"
  /\ unfollow(encounter[s], s)
  /\ run' = [run EXCEPT ![s] = "closed"]
  /\ encounter' = [encounter EXCEPT ![s] = NoFight]
  /\ UNCHANGED <<told, pump, client, redis, owners>>

----------------------------------------------------------------------------

Init ==
  /\ told = 0
  /\ encounter = [s \in Sessions |-> NoFight]
  /\ pump = [s \in Sessions |-> Idle]
  /\ run = [s \in Sessions |-> "open"]
  /\ next_state = [s \in Sessions |-> None] /\ sending = [s \in Sessions |-> {}] /\ got = [s \in Sessions |-> None]
  /\ local = [e \in Fights |-> {}] /\ handlers = [e \in Fights |-> {}]
  /\ wire = <<>> /\ subscribed = {} /\ net = <<>>
  /\ at = [e \in Fights |-> 0] /\ remote = [e \in Fights |-> TRUE]

Step(s) == Sent(s) \/ Resumes(s) \/ Leaves(s)

Next ==
  \/ RedisTakes \/ BusRuns
  \/ \E e \in Fights, second \in BOOLEAN : _publish(e, second)
  \/ \E s \in Sessions : Step(s) \/ Closes(s) \/ \E event \in Event : _pump(s, event)

Spec == Init /\ [][Next]_vars

\* Tasks that can go on do, owners go on publishing, and time passes.
FairSpec ==
  /\ Spec
  /\ WF_vars(RedisTakes) /\ WF_vars(BusRuns)
  /\ \A e \in Fights : WF_vars(_publish(e, TRUE))
  /\ \A s \in Sessions : WF_vars(Sent(s)) /\ WF_vars(Resumes(s)) /\ WF_vars(Leaves(s))

----------------------------------------------------------------------------

States == [fight : Fights, step : 0..MaxStep] \union {None}
TypeOK ==
  /\ encounter \in [Sessions -> Fights \union {NoFight}]
  /\ run \in [Sessions -> {"open", "letting go", "closed"}]
  /\ next_state \in [Sessions -> States] /\ got \in [Sessions -> States]
  /\ sending \in [Sessions -> SUBSET States]
  /\ local \in [Fights -> SUBSET Sessions] /\ handlers \in [Fights -> SUBSET Sessions]
  /\ subscribed \subseteq Fights
  /\ at \in [Fights -> 0..MaxStep]

\* A session that is not changing fights is handed the state of its own and
\* of no other, and one that has closed of none, wherever the closing cut its
\* pump off (_follow, Session.run).
FollowedBy(s) == {e \in Fights : s \in local[e] \union handlers[e]}
FollowsItsFight ==
  \A s \in Sessions : (run[s] = "closed" \/ (run[s] = "open" /\ pump[s] = Idle)) =>
    FollowedBy(s) = {encounter[s]} \ {NoFight}

\* Once the commands on their way are taken, Redis sends this server exactly
\* the channels that some session wants (Bus.subscribe, unsubscribe).
WantedAreSubscribed == wire = <<>> => subscribed = {e \in Fights : handlers[e] # {}}

\* A state that waits has a sender that will take it: the newest is never
\* left behind when the client has caught up (_forward, _send_states).
NoneStranded == \A s \in Sessions : next_state[s] # None => Sender(s)

\* However slow the client, a fight's states reach it in the order of their
\* steps (_forward, _send_states, Bus._run).
StatesInOrder ==
  [][\A s \in Sessions : got[s].fight = got'[s].fight => got'[s].step >= got[s].step]_vars

\* A session that goes on following a fight hears of it, though its owner had
\* stopped publishing for want of anyone listening (Owner._publish).
FightIsHeard ==
  \A s \in Sessions : \A e \in Fights :
    (run[s] = "open" /\ encounter[s] = e) ~> (run[s] # "open" \/ encounter[s] # e \/ got[s].fight = e)
=============================================================================
