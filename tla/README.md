# Alzendor in TLA+

Alzendor is a text game played over WebSockets. Any number of server processes
(`alzendor/server.py`) share one Redis. All rules of the world are Redis
functions in one Lua library (`alzendor/alzendor.lua`): each call is atomic, and
is the only way the world changes. What is not atomic is everything around the
calls: connections that come and go, feeds that are opened in a second round
trip, fights that one process simulates for everyone, timers that fire in any
process, and processes that die. That is what these modules are about.

Contents: [the system](#the-system), [what is hard](#what-is-hard),
[modules](#modules), [delivery](#delivery), [ownership](#ownership),
[world](#world), [balance](#balance), [owner](#owner), [following](#following),
[accounts](#accounts), [journeys](#journeys), [seed](#seed), [runs](#runs),
[proofs](#proofs), [disagreements](#disagreements-with-the-documentation),
[what is left out](#what-is-not-modelled), [plan](#plan).

## The system

| Part | Code | State | Operations | Correct when |
|---|---|---|---|---|
| Event streams and feeds | `alzendor.lua` `emit`, `resubscribe`, `place_channels`; `feed.py` | `alz:seq`, one stream per room, area, chat channel and player; a feed's cursor and its subscriptions | emit, subscribe, open a feed, read a batch | a client is shown each event its player was there for, once and in order |
| Connections and presence | `alzendor.lua` `connect`, `disconnect`; `session.py`; `server.py`; `web/index.html` | `PLAYER:<id>:session`, `alz:online`, heartbeats; the client's `lastSeq` | connect, resume, take over, quit, reap, expire | one connection at most holds a player, the others end |
| Fight ownership | `encounter.py` `EncounterHost`, `Owner`; `server.py` | `alz:server:<id>`, `alz:new_encounters`, `ENC:<id>:lease`; a task per fight | claim an id, discover, sync, renew, end what is lost | each fight is run by one process, none is left hanging |
| Fight membership | `alzendor.lua` `enc.*`, `aggro`, `encounter_*` | `alz:encounters`, `ENC:<id>:players` and `:npcs`, `PLAYER:<id>:encounter` | start, join, drop, finish | members and fights agree |
| Encounter simulation | `encounter.py` `Owner._run_step`, `balance.py` | dots, input times, snapshots | step, rewind, strike, publish | inputs are applied at the step they were made for |
| Places and movement | `alzendor.lua` `relocate`, `move`, `finish_move`, `teleport`, `pending_moves_due` | `PLAYER:<id>:room`, `ROOM:<id>:players`, `alz:pending_moves` | move, hold up, jump | a player is in one room, and what they hear is that room |
| NPCs and upkeep | `npc_down`, `respawn_due`, `weather_npcs`, `upkeep` | NPC hashes, `alz:respawns` | fall, respawn, hide, heal, fade | an NPC is in one fight at most, and comes back |
| Journeys and ambushes | lines 2210-2712 | `alz:journeys`, `PLAYER:<id>:journey` | depart, stage, event, ambush, strand | a rider arrives or is put down somewhere |
| Quests | lines 2725-3034 | quest hashes | offer, accept, step, fail | a priority quest always ends |
| Characters, kit, talents, reputation, trade | lines 3477-4815 | player hashes | equip, use, learn, respec, trade | slots, pack and points add up |
| Chat | lines 4818-4880, `tell` | the `subs` of a player | join, leave, talk | members hear it |
| Accounts | `auth.py` | `ACCOUNT:*`, tokens, rate windows | register, login | a name is one account, windows limit |
| Sessions | `session.py`, `Bus` in `encounter.py` | allowance, newest state, fight handlers | pump, send, follow a fight | a state is never older than the last one sent |
| Weather, maps | `weather.py`, lines 4131-4300, 5372-5410 | weather per region | tick | arithmetic |
| World files, seed, configuration, tools, client page | `world.py`, `seed`, `config.py`, `tools/`, `web/` | the loaded world | load, replace | validation |

How they interact. A session (one per WebSocket) calls Lua and reads a feed; Lua
never calls back, it emits to streams and publishes on the channel of a fight.
`EncounterHost` in each process reads the stream of new fights and starts an
`Owner` task for those its id owns; the owner calls Lua for each blow
(`encounter_*`) and listens for `sync` and `end`. Timers of every process
(reaper, upkeep, journeys, held-up moves, leases) call Lua with the present time.
All of them may do so at once.

## What is hard

`PROJECT.json` lists every hazard with its line and the properties that cover it.
The main ones:

* subscriptions change between the call that puts a player into the world and the
  opening of the feed, and in the middle of batches read from many streams;
* two connections of one player, the reaper and a late QUIT race for who ends whom;
* a client resumes after its streams were trimmed, or from an earlier stay;
* a process dies, stalls or shuts down with fights in its hands, before it has
  found them, or while another one is ending them;
* who is in a fight changes while its owner is asking who is in it;
* a blow, a flight or a held-up move is carried out after the player it is about
  fell, jumped, lay down, faded or started over;
* an NPC comes back, wakes to better weather or changes its mind beside players who
  are up, asleep or in a fight already;
* a fight is lost with sleeping bodies in it;
* a server that starts loads a world in which NPCs live elsewhere;
* an input is replayed from the step it was made at, over steps whose blows and
  strikes may have gone to Lua already, and steps are skipped after a stall;
* the owner's calls are awaited one by one, while members come and go;
* a session's pump is cancelled in the middle of leaving one fight for another;
* a state waits for a slow client while newer ones come;
* connections of one name or address are anywhere between each other's steps of
  registering and logging in;
* a rider is ambushed, disconnects, wakes, dies, is thrown off or resumes with the
  schedule, a quest, a room and ambushers to keep in step;
* a world file is accepted in which somebody could be trapped.

## Modules

| Module | What it is |
|---|---|
| `Delivery` | streams, subscriptions, connections, feeds, the client's cursor |
| `Hearing` | what delivery promises: views of a shared history |
| `MCDelivery` | its instances for TLC |
| `DeliveryProofs` | its theorems |
| `Ownership` | server ids, discovery, leases, owners and their membership |
| `MCOwnership` | its instances for TLC |
| `OwnershipProofs` | its theorems |
| `World` | bodies, NPCs and fights, and every handler that moves or changes them |
| `MCWorld` | its instances for TLC |
| `WorldProofs` | its theorems |
| `Dot` | one player's dot in a fight, and how it takes a step |
| `Balance` | a dot played step by step beside a copy of it |
| `MCBalance` | its instance for TLC |
| `Owner` | a fight as its owner runs it, on `Dot` |
| `MCOwner` | its instances for TLC |
| `FightProofs` | theorems of `Balance` and `Owner` |
| `Following` | how a fight's states reach the clients of one server |
| `MCFollowing` | its instance for TLC |
| `FollowingProofs` | its theorems |
| `Accounts` | registering, logging in, tokens, characters |
| `MCAccounts` | its instance for TLC |
| `AccountsProofs` | its theorems |
| `Journeys` | a ride: schedule, events, ambushes, maroonings |
| `MCJourneys` | its instances for TLC |
| `JourneysProofs` | its theorems |
| `Seed` | loading and checking a world, and living in it |
| `MCSeed` | its instances for TLC |
| `SeedProofs` | its theorems |

`Balance` and `Owner` extend `Dot`, so that what is checked of a dot is of the dot that
the owner steps and replays. The other models share no variable. They meet in the
calls between them. A move is one call:
`Delivery` has what it does to subscriptions, `World` whom it sets against whom. A
fight is the same `ENC:<id>` in both `World` and `Ownership`: `World` has it with its
room and its NPCs and lets any fight be lost at any time (`EndLost`); `Ownership` has
when a fight may be found lost, with the players that its owner knows of. Each leaves
the other's part to any choice, so it covers every order in which the other may act.
`Owner` is what one task of `Ownership` does with its fight between two calls; who is in
the fight changes as it may in `World`. What it publishes is what `Following` brings to
sessions, whose events are those of a player's own stream in `Delivery`. An ambush in
`Journeys` is a fight with one player; where its rider stands is what `World` has of
bodies, for the rooms it leaves out. `Accounts` is what comes before the connections of
`Delivery`, `Seed` what comes before everything.

Operators whose comment begins with "Bug:" are not the code, and nothing uses them. They
are plausible mistakes in a definition that follows them, whose name they begin with,
and are there to show that the properties would notice.

## Delivery

One entry of `log` is one XADD; its index is the number `alz:seq` gave it. A
stream is the entries of its channel that have not been trimmed (`gone`). What an
event says is left out, except for `kick` and `subs`, the two events that a feed
acts on. The burst of state a call sends its own player is one event.

| Variable | Code |
|---|---|
| `log`, `gone`, `born` | `alz:seq` and the streams; what MAXLEN and EXPIRE removed |
| `session`, `room`, `subs`, `greeted`, `expiring` | `PLAYER:<id>:session`, `:room`, `:subs`; `joined_defaults`; the TTL on the player's own stream |
| `standing` | who is in `ROOM:<waypoint>:players` of the waypoint they are at |
| `phase`, `sid`, `cursor`, `feed` | a `Session` and its `Feed` |
| `seen` | `lastSeq` in `web/index.html` |
| `view`, `start`, `entered`, `whole`, `closed` | history, for the properties |

Each action is one Lua call or one round trip: `TakeOver` and `Enter` are
`connect` with the player in or out of the world; `Open` is `Feed.open`; `Read` one
turn of the pump; `BreakOff` and `Drop` a connection lost within and between
batches; `Quit` and `Reap` are `disconnect` by a session and by the reaper;
`Relocate`, `Join`, `Leave`, `Chat`, `Tell` the calls that change subscriptions or
emit; `Happen` anything else that is emitted to a shared channel.

Abstractions. `Reap` may happen at any time to any player in the world: the
heartbeat's clock is left out, so every order of a timeout and a takeover is
covered. `Expire` (600 s after leaving) waits for the player's connections to
have ended. How much MAXLEN ~ cuts, and when, is any choice that leaves the cap.
Journeys resumed on connecting and chat membership while away are not here, and of
sleepers' bodies only that `Relocate` may still move one (a flight or a fall its
owner carries out late) and that one at a waypoint may go or stay when its player
leaves. Ambushes are not here either: they put a rider on a waypoint's floor and
subscribe them to its room, and take both back (`spawn_ambushers`, `clear_ambush`);
`Journeys` has them. Who stands at a waypoint here came back to the world there:
`connect` puts them on its floor, and `place_channels` then subscribes them to its room.
A player begins in the start room (`Last`) or, in `tell`, away at a waypoint with a ride
under way. `whole` says that a view lies within one stay in the world: a
resumed view that began in an earlier stay has no promise to keep (see the
disagreements).

Bounds. `MaxLog` ends a behaviour (so deadlock is not checked); `MaxSessions`
counts connections. Three sessions of two tabs give a takeover, a resume and a late
QUIT in one behaviour; ten events or so let each of them meet moves and other
events. A cap of one makes cuts happen within that.

Fairness. `Open` and `Read` are weakly fair: `Session.run` opens the feed of a
connection it accepted and its pump loops on it (`session.py:160`, `:329`). Nobody
need connect, move, talk or leave.

## Ownership

A fight is its number (`alz:encounter_seq`), which is also its place in the stream
of new fights.

| Variable | Code |
|---|---|
| `claim` | `alz:server:<id>`; a `Stranger` is the token of a process that is gone |
| `made`, `live`, `owner`, `lease`, `members`, `fight` | `alz:encounter_seq`, `alz:encounters`, `ENC:<id>` owner, `ENC:<id>:lease`, `ENC:<id>:players`, `PLAYER:<id>:encounter` |
| `proc`, `last`, `found` | where a process is in its start and shutdown; the entry `_discover` has read up to; the fight `check_leases` is about to end |
| `task` | an `Owner`: adopted, listening, asking (a call is on its way), running; its dots, its `need_sync`, what was published to it and it has not taken |

Every point at which `encounter.py` awaits is a boundary between actions: the claim
and its release (two calls), the first look at the stream, the subscription, the
question who is in the fight and its answer, the finding of a lapsed lease and the
call that ends the fight.

Abstractions. Renewing a lease that stands changes nothing. A lease that nobody
renews lapses on its own (`Lapse`); one whose owner is alive lapses only if that
owner stalls for three seconds (`LapseInStall`, counted). The same split is made
for claims. Crashes, shutdowns and tasks that fail share one counter. With `Lossy`,
any published message may be lost. A lost fight may leave one fresh one, for any of
those who were in it. A player in a fight neither starts nor joins another; NPCs and
rooms are left out, as are the limit of 1000 on the stream of new fights, and the
errors that the two watching loops catch and retry. `GiveUp` may come before the
full wait.

Bounds. Two processes are enough for every race of finding, ending and taking over. In
`fair` two players start, join and leave a fight, so that its owner is told to ask again
while it subscribes, asks and strikes, and the last out meets who joins. Two fights let
one be the fresh one of the other: for one player, in `restarts`, where messages are
lost, and in `MCOwnership_fresh`. One stall per behaviour is one owner coming back to a fight
that was given away.

Fairness. The loops of a process (`_discover`, `check_leases`, the owner's) are
asyncio tasks that run until they are cancelled; a process that ended is started
again (`restart: unless-stopped`, `docker-compose.yml:14`); Redis expires keys.
Stalls, crashes, failures, joins, departures and blows are never forced.

## World

The world is one record, `world`. A Lua function that others call is an operator from
worlds to worlds (or to sets of worlds, where something is left to chance), and a
handler is composed of these as its source is: `Strike` is `Attackable`, `AddNpcs`,
`Deed`, `NpcDown`, and `NpcDown` is `DropNpc` and `Deed`. A call is one step, because a
Lua function is.

| Field | Code |
|---|---|
| `online`, `asleep`, `sleepers` | `PLAYER:<id>:session`; `asleep` of `ACCOUNT:<id>`; `alz:sleepers` |
| `room`, `floor`, `pending` | `PLAYER:<id>:room`, `ROOM:<id>:players`, `PLAYER:<id>:pending` |
| `hostile` | the NPCs whose `disposition_for` the player is hostile |
| `home`, `here`, `hidden`, `respawns` | `NPC:<id>` room and hidden; `ROOM:<id>:npcs`; `alz:respawns` |
| `live`, `place`, `members`, `foes` | `alz:encounters`; `ENC:<id>` room, `:players`, `:npcs` |
| `inRoom`, `fight`, `busy` | `ROOM:`, `PLAYER:` and `NPC:<id>:encounter` |
| `turning` | the players that a loop in `appear` or `encounter_end` has yet to call `aggro` for |

| Action | Code |
|---|---|
| `Connect`, `Disconnect` | `connect` with the player out of the world; `disconnect` by the player, for idling, or by the reaper |
| `Move`, `MoveDue` | `move`, at once or held up; `pending_moves_due` |
| `Jump` | all that calls `teleport`: ferries, passages, quests, an administrator |
| `Attack`, `Strike`, `Blow`, `Flee` | `enc.attack`, and what the owner of a fight carries out |
| `Disarm`, `Behave` | `disarm` that springs the trap; everything else that factions judge |
| `Fade`, `Reset` | `fade_out`; `reset_character` |
| `Respawn`, `Emerge`, `Hide` | `respawn_due`, `weather_npcs` |
| `EndLost`, `Turn` | `encounter_end`, and the next round of a loop over players |
| `Reseed` | `seed`, when the file puts an NPC elsewhere |

Abstractions. Health is left out: any blow may be the one that kills, any step into a
trap or the cold a player's last. Reputation is left out: after a deed the NPCs of
factions may think anything of the player (`Fickle`), and one judgement stands for
several in a row; friendly and neutral are one. A wary NPC may miss a player whenever
the rule runs, which covers the 60 seconds that `unseen` lasts. Commands that a flag, a
price or a quest refuses may be refused or not. `upkeep` loops over NPCs and sleepers,
and each is a step: they touch different ones. The loops over the players of a room are
`Turn` steps in any order, nothing else happens between them, and `OneRule` is asked
when they are over. Left out: ambushes on the road (`Journeys` has
them), items, experience, waypoints, and what anybody is told, which `Delivery`
has.

The shrines that realms may have are one room here, and no NPC with attacks lives in it
(`WorldAssumption`), as in the world's files; `defeat` brings a player there without
running the one rule.

Bounds. Two players, three rooms in a row and three NPCs, of which one hides in bad
weather, one may miss a player and one changes its mind. A fight needs a player, so two
players have two fights at most, and the third identity is the one that can be
started next. Nothing else is bounded: `World` has finitely many states, and TLC
reaches all of them. Deadlock is checked.

No liveness is stated here. That NPCs come back and bodies fade is what one sorted set and
one timer do; what the timers owe across processes is in `Ownership`.

## Balance

`balance.py` is the simulation of a fight, which the server runs and the page in
`web/index.html` predicts. `Dot` is a dot and the handlers of a step; `step` runs them in
the code's order (timers, acts, forces, blows, volleys, the held strike), and each takes
the dot and the step's events to what they become. `Balance` plays it: any sequence of
acts, blows and places, beside a copy made of one of its snapshots.

| Field of a dot | Code |
|---|---|
| `at` | `x`, `y` and `r`, as far as the rules tell places apart: the perfect circle, the core, what Long Breath adds to it, outside; the rim is where a step may take it |
| `cool`, `dodge_cd`, `invuln`, `wobble_after`, `stagger`, `immune`, `blocking`, `braced` | the timers of `Dot`, in steps |
| `wobble`, `breath` | the debuff `wobble`; the wider core of Long Breath |
| `pending`, `volleys` | the held strike and what is left of each volley |
| `steadied`, `knocked`, `inside` | what the passives Steady Hands, Second Wind and Long Breath have used up or seen |

| Action | Code |
|---|---|
| `Play` | `step` |
| `Restore` | `restore(snapshot(...))`, by the client or to replay |
| `TargetDies` | `cancel_volleys`, by `_drop_npc` |

Abstractions. Forces, positions and poise are floats: a step is told where they take the
dot, so every trajectory is covered and none is computed. The quality of a strike is
perfect or not. The copy begins as something in no field a new dot, so that a field that
is not restored shows.

Bounds. Five steps of two slots (a quick volley of three, a slow single) with times of
one or two steps: long enough for a volley to outlive a stagger, for an immunity to be
tested and for each cooldown to run out within it. A step has an act or a blow; a blow
may meet a strike. `Horizon` is past every time that a property asks about.

`CooldownKept`, `ImmuneAfterStagger` and `VolleysLand` read only what was told of the
steps, never the timers that enforce it.

## Owner

`Owner` in `encounter.py` is one asyncio task. Each tick it reads its inbox, syncs if it
was told to, runs the steps the clock asks for and then carries out in Lua what they led
to, one awaited call after another; while it awaits, members change and inputs come.

| Variable | Code |
|---|---|
| `members`, `foes` | `ENC:<id>:players`, `:npcs`, with the step they joined at |
| `clock`, `step_n` | `_step_now()`; `Owner.step` |
| `phase`, `target`, `ran` | where in `_loop` the task is, and how far the tick is |
| `inbox`, `need_sync`, `ended`, `late`, `calls` | the same of `Owner` |
| `players`, `npcs` | `Owner.players` (dot, keys, acts, window) and `Owner.npcs` (attacks, meter) |
| `sent` | each dot as it was published |
| `done`, `landed`, `stalled` | history, for the properties |

| Action | Code |
|---|---|
| `Press`, `use`, `brace` | an input from the page at the step it was made, and the commands typed |
| `_take_inbox`, `_loopSyncs`, `Begin`, `RunStep`, `Caught`, `Publish` | the parts of `_loop` between awaits; in them `_input`, `_rewind`, `_sync`, `_run_step`, `_skip_to`, `state` |
| `Strikes`, `Blows`, `Poise`, `Flees`, `Tells` | `_call`, one consequence at a time, with any answer Lua may give |
| `Arrives`, `Departs`, `Appears`, `Vanishes` | members that change otherwise |

Abstractions. A strike hurts, kills or misses, a blow hurts, kills or comes too late, as
Lua may answer. Where a dot drifts depends on its keys alone (`Drift`), so that a replay
with the same keys is the run again. Members change only while the owner listens or
calls: its other awaits are no different. An input that comes during an await acts when
the loop next listens. The limit on inputs of a session is left out.

Bounds. Two players, of which one plays, and two NPCs with an attack every two steps; one
of them is a boss whose meter two hits fill. Four steps of the clock with a catch-up of
one let it fall behind and skip; two inputs let one be replayed over the other; one
change of membership falls into every await.

What the model showed on the way, none of it a property here: a boss that reels over a
stall attacks while it reels, as skipped steps pass for its attacks and not for its
reeling (`ReelingWaits` excepts it); a clean rewind brings back a volley that was
cancelled because its target died; a player who leaves and comes back between two syncs
keeps the dot they had. `BlowsPaced` is of an owner whose messages come at once, as they do
here: it takes a sync that reaches the owner within an attack's period of a foe's joining.

## Following

The states an owner publishes go to sessions of its own process directly
(`EncounterHost.local`) and to others through a Redis channel, which `Bus` subscribes to
while a session wants it. A session is two tasks, the pump, which follows and leaves
fights as events say, and `run`, which cancels it when the socket closes.

| Variable | Code |
|---|---|
| `encounter`, `pump`, `run` | `Session.encounter`; what the pump awaits; how far the end of `run` is |
| `next_state`, `sending`, `got` | `Session.next_state`; what its tasks are sending; what the client has |
| `local`, `handlers`, `wire` | `EncounterHost.local`; `Bus.handlers`; commands on their way |
| `subscribed`, `net` | Redis: the channels this server gets, and messages on their way |
| `at`, `remote` | a fight's step; `Owner.remote` |

Each action is what runs between two awaits: `_pump` up to the first await of `_follow`,
`Resumes` for each of the others, `Closes` and `Leaves` for the end of a connection,
`_publish`, `BusRuns`, `RedisTakes`, `Sent`.

Bounds. Two sessions, one fight owned here and one elsewhere, two events, one message on
its way. Steps stop counting at two, which is where "newer" starts to mean something.
Two sessions are the least with which one's leaving can cost the other its channel.

Fairness. Redis takes commands, the bus and the sessions' tasks go on when they can, and
an owner publishes and asks again after a second while it runs.

## Accounts

| Variable | Code |
|---|---|
| `account` | `ACCOUNT:<name>`: hash, name, and the character |
| `rate`, `token` | `RATE:<key>` with its expiry; `TOKEN:<token>` |
| `conn` | a connection: which await it is at, and what it holds |

`register` and `login` are the functions of `auth.py`, one disjunct per await (the hash
is computed in a thread, so that is one too); `issue_token`, `resume`, `Enters`,
`create_character`, `CreatedMeanwhile`, `_quit` follow `session.py`. `Cut` is a timeout,
a closed socket or the end of a server, at any of them.

Abstractions. A hash is its password. A rehash on login writes what was verified. `_count`
and `_bump` are calls of their own, as they are in the code.

Bounds. Two connections from one address, one name, two passwords: every race of two on
each of the three windows. One token makes logging out, resuming and expiring meet.
A limit of one and of two put the counts at their limits.

Fairness. Redis expires the windows that were given an expiry.

## Journeys

The ride of one player, as one record. Lua functions that others call are operators from
a player to the players it may lead to, and each call is a step, as in `World`.

| Field | Code |
|---|---|
| `session`, `asleep`, `room`, `floor` | the player, their body, `ROOM:<id>:players` |
| `journey` | `PLAYER:<id>:journey`: stage, event, ambush, marooned, delay, skip |
| `back` | history: whether they came back to the world at the waypoint they are at |
| `due`, `waited` | the place in `alz:journeys`, and `event_until` |
| `quest` | the priority quest of a marooning |
| `fighting`, `ambushed`, `ambusher` | the ambush as a fight, and its NPCs at waypoints |
| `path` | `ROUTE:<id>` as the last seed has it |
| `tab` | which of two tabs it is: changes with each takeover |

`Travel`, `Choose`, `Flee`, `Mend`, `Walk` are what a player does; `journeys_due` is the
tick; `Wins` and `Loses` what the owner of the ambush carries out; `TakeOver`, `connect`,
`disconnect`, `fade_out` the coming and going; `goto` an administrator; `Seed` a new
world file that changes or removes the route.

Abstractions. An outcome is the one effect of it that a ride can tell from the others;
fares, checks and rewards are left out. Due times are whether they have come. An event
is of one of three kinds, by what letting it pass comes to (`Moments`): its last choice is
free; it asks for coins that the rider may not have, and is refused if they have not
(`resolve_event` then changes nothing); or none of its choices is there for them, as when
a seed has dropped the event. One rider is enough, as riders read nothing of each other; that
they are not seen either is no longer so once one has come back to the world at a waypoint
(the disagreement `private` below), which is what `StandsWhereTheyAre` allows for.
With `LateChanges` false, seeds and administrators come only to players whom
nothing holds up; with it, `castaway` below. Nobody is attacked or freezes on the island.

Bounds. Routes of two waypoints and of one, and the route gone. Delays add up to two.
Everything else is finite, and TLC reaches all of it.

Fairness. Every server ticks every tenth of a second, and time passes. `RidesArrive` has a
premise: a rider who forever opens new tabs starts the wait of the same stage again each
time (`resume_journey`), and stays where they are. It has an exit as well: a lapsed event whose
last choice is refused takes its rider off the schedule until they choose or come back
(`Refused`; the disagreement `lapsed`).

## Seed

`world.py` merges the seed file with its zones, checks the records and searches the
world as a graph: every room is reached from where characters begin, from every room
reached there is a way home, every step of a quest is reached and every quest ends. The
module runs the loops turn by turn, then lets a player live in a world that was accepted
and a quest go on in it.

Each check of rooms, exits, routes, quests and starts is an operator of its name;
`load_seed`, `_reach` and `_quest_problems` are actions, a turn of their loop each. The
player's moves are what Lua lets them do: walk, ride, be thrown off, be marooned and mend,
be teleported, die.

Abstractions. A file is the set of rooms it defines. One route and one quest stand for
all: the searches treat each alike. With `Careless` false, seeds keep to what the checks
take for granted (`Careful`): configuration `careless` below has what they let through.

Bounds. `MCSeeds` has every world of four rooms with any of five exits, and the choices of
its route, shrine, maroonings and teleports; every quest of two and of three steps;
every way to spread the rooms over three files.

## Runs

| Run | Instance | Question | States |
|---|---|---|---|
| `tabs` | one player, two tabs, two rooms in an area, fair | do connections end when they should and not before, through moves, takeovers, resumes and ends; does `Delivery` implement `Hearing`; does everything arrive | 19,893 |
| `tell` | two players, of whom one comes back at a waypoint, a chat channel, shared streams of one event | are subscriptions those of the place; are views exact with two listeners, subscriptions changing in the middle of batches, and cuts; does a resume that carries on find what it needs | 269,113 |
| `away` | | the disagreement below | |
| `fair` | fair, two servers, a fight that two players start, join and leave, crashes, stalls and a claim that lapses in one | do both sides of a fight agree, is the owner in step, does a lost fight stay lost; is every player in a fight simulated or let go | 79,402 |
| `restarts` | fair, two processes with one id, one player, a fight and a fresh one, two stops, messages lost | does one process at most run a fight; does the task of a fight that is over stop | 14,006 |
| `world` | two players, three rooms, three NPCs | do players, NPCs, rooms and fights agree; is everyone in the room of their fight, every body where its player is, every NPC somewhere; is the one rule kept, and are sleepers left alone | 34,410 |
| `balance` | one dot and its copy, five steps | are cooldowns and immunities kept, do volleys land, does a copy do what the dot does | 167,022 |
| `owner` | two players, a boss and a bear, four steps | is an act done once, is a published window fixed, are the members Lua's, do blows come at their pace | 948,073 |
| `following` | fair, two sessions, a fight here and one elsewhere | is a session handed the states of its fight and no other, in order; is Redis sending what is wanted; is every fight heard | 140,707 |
| `accounts` | fair, two connections, one name | is there one password, are counts bounded, does every lockout end | 575,968 |
| `journeys` | fair, one rider, two waypoints, events that can and cannot be let pass | does every ride go on and get off each waypoint, is its rider on a waypoint's floor only in an ambush or once back there, is a held ride held by its quest | 4,392 |
| `seed` | every small world | is nobody trapped in a world that was accepted, and do its quests end | 91,687 |

Deadlock is checked in all runs but those of `Delivery`, `Balance`, `Owner` and `Seed`, where
bounds end the behaviours.

Further configurations stand beside these. They ask more of the same instances, or show
a disagreement; each can be given to TLC as it is.

| Configuration | Shows |
|---|---|
| `MCDelivery_live` | passes: superseded connections end |
| `MCOwnership_fresh` | passes: what `fair` asks, of one player, a fight and a fresh one (248,708 states) |
| `MCOwnership_owned` | passes: two players and a lease that lapses in a stall; that no live fight is empty (1.3 million states) |
| `MCBalance_more`, `MCOwner_more`, `MCFollowing_more`, `MCAccounts_more`, `MCJourneys_more`, `MCSeed_more` | pass: the types, that a press is answered, that reeling bosses wait, that no state is stranded, that there is one character, that no rider is left at a waypoint, that each room is in one file |
| `MCDelivery_told`, `MCOwnership_twins`, `MCWorld_bodies`, `MCWorld_reseed`, `MCOwner_replayed`, `MCJourneys_castaway`, `MCJourneys_private`, `MCJourneys_lapsed`, `MCSeed_careless` | violations: the disagreements below |

## Proofs

TLAPS proves these for every value of the constants that satisfies the assumption its
module names (`DeliveryAssumption`, and so on). Hypotheses of a theorem beyond that are
spelled out here, with what happens without them.

`Delivery`. Its theorems rest on each other, in this order.

* `Typed`; `ShownOnceInOrder`: nothing is shown twice (the invariant `ViewBehind` adds that
  the client's own number is behind the cursor too); `HearsWhereOneIs`: subscriptions are
  those of the place, a waypoint's room just when one stands there (`SubsMatchPlace` is
  inductive with the types: each call that changes who stands there changes the
  subscription too).
* `HolderStands`, `StaysInTheWorld`: the holder is never told to end, and a player stays
  until their newest connection asks. Both rest on `SessionInv`: session ids in use are the
  ones handed out, no two connections share one, no kick names the holder.
* `EndAhead`: a connection that lost its player has its end ahead of it, under `Uncut`
  (`MaxLog <= CapPlayer`: own streams are never cut). With cuts it is false, as the kick may
  be trimmed.
* `ResumesWhole`: a client that is let carry on can read all it needs, with no hypothesis. It
  rests on `Remains` (a shared stream that was cut still has an entry, which is how `connect`
  notices).
* `ViewIsExact`: views are exact, under `Uncut`. Inductive is `HeardInv`. `StayInv(p)` says
  that the events of a player's own stream since they came in tell of every change of their
  subscriptions up to now (`Tells`); `FeedInv(t)` that an open feed has followed them as far
  as its cursor (`Reads`); `InStep(t)` that cursor and client agree; `Exact(t)` that what was
  due up to there was shown, or cut. A feed has several subscriptions at work in one batch:
  `Read` is taken apart by channel. Without `Uncut` a feed may miss a change of its
  subscriptions.
* `HearsAsPromised`: `Delivery` implements `Hearing`, under `Uncut` and `MaxLog <= CapShared`
  (no stream is cut, as in `tabs`: `Hearing` has no cuts). Each action is shown to be a step of `Hearing` or a
  stutter; `Full(t)`, that nothing due is missing, is added to `HeardInv` for it.

`Ownership`. `OwnershipProofs` has the types; that the two sides
of a fight agree and no live fight is empty (`FightInv`: also that fights not yet
made have no members, and only live ones have a lease); that a fight found lost
stays lost (a lease is written only when the fight is made, and a process finds only
fights that are); that an owner is in step with its fight or has word waiting
(`StepInv`: the same of an answer still on its way); and that no two processes run
one fight (`ClaimInv`: a process that is up holds its claim, and runs only fights of
its id). The last one assumes that no claim lapses under a live holder
(`MaxClaimStalls = 0`); configuration `twins` shows what happens otherwise.

`World`. `WorldProofs` has the type, and the five invariants of run
`world` about fights and places, which follow from one that is inductive, `WorldInv`, of two parts.

* `Sound`: the type, both sides of fights (`Sides`), everyone in the room of their fight
  (`InPlace`), bodies (`Bodies`) and NPCs (`Roster`). None of them is inductive alone:
  that the room of a player knows the player's fight needs all of them (`WhereFought`), and
  `aggro` looks a fight up by its room.
* `Ruled`: everyone who is up keeps to the one rule, or is someone a loop has yet to come
  to.

The proof is by operators. A lemma for each says what it leaves of `Sound`, and what of
the rule for everyone but the player who acts (`OthersRuled`); a handler is `Done` if it
leaves both and the rule for that player, and `Done` composes as the handler does
(`DoneTwice`, `JudgedDone`). Inside a handler a fight may have no players or no NPCs for a
moment, so `Sides` is in parts, `Matched`, `Placed` and `Manned`, of which the last may
fail for one fight. `ResetDone` needs that too: `reset_character` takes the body from its
room first and its fight second.

These invariants are proved under `Unmoved`: no seed moves an NPC while a body is in the world.
Configuration `reseed` shows what happens otherwise.
`SleepersAlone` has no hypothesis: it needs only that nobody is asleep and awake (`AwakeInv`). An
operator that puts nobody to sleep leaves sleepers out of fights they were not in (`Alone`, which
composes as the handlers do), since `aggro` looks whether a player is awake.

`Balance`. `IInv` says what the timers hold against what was told: what is left of a
cooldown or an immunity and what has passed since the strike or the recovery make up the
whole (`CooldownsRun`, `ImmunityRuns`); a volley under way follows a first hit, and waits for
what is left until its next is due, and a first hit with more to come has its volley
(`VolleysRun`); a press not answered is held for the rest of the buffer (`PressHeld`); the copy
is the dot, or counts for nothing (`CopyIs`). A step is three folds, over the acts, the volleys
and the blows, in between which the dot moves. Each fold is taken one element at a time
(`ActsRun`, `VolleyRun`, `BlowRun`, `WithoutRun`, which rest on `AtEachPlace`: a set with 0 and
the successors of what it has is all of `0..n`), so that a lemma about one act, hit or blow
gives what holds after all of them. Acts are `Quiet` and blows and forces `Unpressed`: what they
leave alone, so that each invariant need look only at the parts of a step that touch it. There are no hypotheses
beyond the assumptions, and `MaxSteps` is any number: no proof uses it as a bound.

`Owner`. Four invariants, of which the last two rest on the first.

* `RunInv`, for `MembersKnown` and `BlowsPaced`. The loop takes its inbox whole before it
  syncs, so while it runs it has no message and no sync to make (`InboxIs`); a sync in the
  middle of an await leaves what came after it in the inbox. `MembersKnown` is then inductive,
  as Lua's every change of members sends a word (`ToldInbox`). For `BlowsPaced`: an attack is not due before
  the next step, nor within its period of its last landing (`AttackIs`), which stuns, skips and
  reeling only put off; and a foe the owner has yet to hear of joined no earlier than the owner's step
  (`FoesAre`), so that one dropped and found again cannot strike early.
* `WindowInv`, for `ActsOnce` and `WindowFixed`. What is left of the inbox is of later inputs
  than any act that waits or is in a window (`CameBefore`), so an act put into a window is there
  alone. A window is a player's last steps in order (`PlayerIs`, `IsWindow`); run again it has the
  same steps, acts and first state (`IsRerun`), so nothing at or before the step a client was last told
  of changes but by going (`ToldOfWindow`).
* `ReelInv`, for `ReelingWaits`: while a boss reels none of its attacks is due before its
  reel is over (`WaitsOut`), unless steps were skipped.
* `BoundsInv`, for the types.

The tick is proved in the order it calls its parts, one lemma for each; what maps over the
members (`_run_step`, `_skip_to`) is taken one member at a time, what folds over
the inbox, the window and the calls one element at a time, with the folds' lemmas that
`Balance` uses. What `Dot!step` returns is used only as far as these invariants
see it: a snapshot of a dot is one whatever the step made of it.

`Following`. Three invariants, each inductive with the ones before it. `Inv1`: whom a fight's
states are handed to is whom the pump's place says, step by step of `_follow` and of the
end of a connection (`Follows`), so `FollowsItsFight`. `Inv2`: the last command on its way
for a fight is the one that Redis should end up with, and with none on its way it has
(`Matches`), so `WantedAreSubscribed`. `Inv3`: states on the wire, waiting, being sent and
shown are in the order of their steps, for each fight (`OnTheWay`, `InOrder`), so the action
property `StatesInOrder`, and that no state waits without a sender (`NoneStranded`).

`Accounts`. `IInv` says of each await what a connection holds then: whoever has read a hash
has the one that is stored, as `register` is the only call that writes a first one and
`rehash` writes the same (`OnePasswordFor`); whoever is in has their character
(`OneCharacterFor`). `CountsBounded` needs the attempts counted that have read a count and
not yet added to it: their number and the count are below the limit plus the number of
connections (`Bounded`). `LockoutsCanEnd` is the safety part of `LockoutsEnd`.

`Journeys`. `IInv` is `Good(player)`: where a rider is and what holds them there (`Placed`),
which rooms know of them (`Standing`), that whoever rides is in the schedule
(`Scheduled`), and, while routes stay as they are, that what holds a ride has a way on
(`Held`). A lemma for each Lua function says what it makes of a good player, so that the actions are compositions of
these, as they are in the code. `RidesGoOn` follows from `Scheduled`, which says as well that
an event off the schedule is one let pass and refused; `StandsWhereTheyAre` from `Standing`.
`HeldByItsQuest` has the
hypothesis `LateChanges = FALSE` (no seed and no administrator comes to a rider whom something
holds up, as in run `journeys`); configuration `castaway` shows what happens otherwise. The
others hold with late changes too.

`Seed`. `MapInv` has what each of the loops has done so far: the merge (`Merged`), the
search from the starts and the search for a way home (`Searched`). A loop ends when nothing
is left to do, so an accepted world has everything its search was for: a player never
leaves the rooms found (`Placed`), each of which leads home (`Homeward`: every set of rooms that it is in and no
exit leaves has the start). `QuestInv` has the trail of
steps that `_quest_problems` went along, and that a player goes along the same. `NeverTrapped`
has the hypothesis `Careless = FALSE`, as run `seed` does: seeds keep to `Careful`, what
the checks take for granted. Configuration `careless` shows what happens otherwise.

Some of these are in no listed run: the types, `NoRepeats` (of which `ImplementsHearing` has
more), that the holder is never told to end (`HolderStands`), `LiveHasPlayers`,
`PressAnswered`, `ReelingWaits`, `NoneStranded`, `OneCharacter`, `NoneLeftBehind` and `OneFileEach`, which configurations beside
the runs check.

Only model-checked:

* everything temporal that rests on fairness (`EverythingArrives`, `SupersededEnds`,
  `EveryoneIsSimulated`, `EndedStops`, `FightIsHeard`, `LockoutsEnd`, `RidesArrive`), which is
  out of the prover's reach;
* what the configurations that end in a violation show is false, and there nothing is proved:
  of `Owner`, that a press strikes once (`PressStrikesOnce`).

These assumptions were added for the proofs: no fight is called `"none"`
(`FollowingAssumption`; ids of fights are numbers), no target of a strike is
(`BalanceAssumption`; they are ids of NPCs), an attack has a period and warns of itself
within it, NPCs are finitely many and what a dot begins with was pressed before any input
(`OwnerAssumption`), and a quest's table of steps
names only steps (`SeedAssumption`; the loader has read both from one dictionary).

## Disagreements with the documentation

`PROJECT.json` quotes the lines for `away`; the others are configurations that end in a
violation.

* `away`: a client that gives an old `since` when it takes over a player who has come
  back meanwhile is shown what happened in chat channels while the player was away.
* `told`: a client that carries on where it was is not told of events lost from
  channels that its player has since left.
* `twins`: a process that stalls longer than its claim lasts and comes back runs
  beside the one that took its id.
* `bodies`: a body that lies down in a fight does not stay in it when the fight is lost:
  it is left beside its enemies, in no fight, and no blow reaches it.
* `reseed`: a server that starts with an edited seed moves an NPC out of the room of its
  fight; killed there, it stays standing in its new room.
* `replayed`: one press can strike twice. A rewind over steps that have gone to Lua is to
  change only place and stagger, and everything else is to stay as it happened
  (`encounter.py:52`), but it stores the replay's own snapshots in the window. A later
  rewind from one of those restores them, with the cooldown as the replay had it and the
  strike yet to be made.
* `castaway`: a seed that removes a route while its rider is marooned leaves them a quest
  that, done, has no ride to resume and nothing to end it (`alzendor.lua:2972`), though a
  ride that can't go on is to end somewhere known (`alzendor.lua:2249`).
* `private`: other players are not to see you in a waypoint room, even your own party
  (`docs/journeys.md:126`). `connect` means to keep riders who come back off the floor, but asks
  whether the journey's `ambush` field is `nil` (`alzendor.lua:4971`), and a field that is missing is
  `false` to Lua: whoever comes back at a waypoint after leaving is put among its players, with
  an `arrive`, and is subscribed to the room (`:941`), until they ride on.
* `lapsed`: who does not choose within a minute gets the last choice (`docs/journeys.md:173`).
  `journeys_due` takes the rider off the schedule (`alzendor.lua:2396`) before `resolve_event`, which
  refuses a last choice they cannot pay for (`:2675`; `caravan_bandits` asks for 5 coins) and
  an event none of whose choices they can see (`:2670`), and schedules nothing. The rider stays
  at the waypoint until they choose, are thrown off, or connect again.
* `careless`: the loader accepts a quest that teleports to a waypoint, a shrine in a room
  that is cut off, and a walk into a room that only a marooning's quest leads out of,
  though from every room there is to be a way home (`world.py:339`).

## What is not modelled

The component list of `PROJECT.json` gives the reason for each part.

* Weather, terrain and the forces on a dot are floating-point arithmetic; commands and
  the page are parsing and display; configuration, tools and tests are not the running
  program's state.
* Kit, talents, reputation and trade are single Lua calls on one player's hashes: no
  order of calls is at stake, and what could go wrong is in sums, which operators would
  check (see the plan).
* Quests are in `Journeys` and `Seed` as far as they hold riders and end; what each kind
  of step waits for is a table of conditions.
* Two servers of different versions that start at once may leave the rules of one
  beside the content of the other, while `alz:version` names one of them
  (`server.py`, `prepare`): noted, as the model has one version of the rules.
* `upkeep` and weather share their work over servers by slots (`server.py:218`): what
  a server that dies in its slot leaves undone is done in the next.

## Plan

Done: all modules, checked; the safety properties of `Delivery` (with its refinement),
`Ownership`, `World`, `Balance`, `Owner`, `Following`, `Accounts`, `Journeys` and `Seed`
proved. Left, in order:

1. Kit, talents and trade as operators, against reference definitions.
2. Two riders at one waypoint, and the ambushes of several at once, over `World`.
