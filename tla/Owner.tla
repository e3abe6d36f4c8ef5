------------------------------- MODULE Owner -------------------------------
(***************************************************************************)
(* One fight as its owner runs it (encounter.py, Owner): the loop that     *)
(* takes inputs, keeps the membership Lua has, runs the clock's steps and  *)
(* then carries out in Lua what they led to, one awaited call at a time.   *)
(* A late input is replayed from the step the client made it at.           *)
(*                                                                         *)
(* Of Lua only what the owner hears is here: who is in the fight, and what *)
(* a call returned.  Where a dot drifts depends on its keys alone, so that *)
(* a replay is what the run would have been.  The lease is in Ownership.   *)
(***************************************************************************)
EXTENDS Dot

CONSTANTS Players, Npcs,
          Attacks,      \* Attacks[nid]: its attacks, as [period, warn, blow]
          Bosses,       \* the NPCs with a stagger meter
          FullMeter,    \* what fills it
          KickPoise,    \* KickPoise[s]: what a hit of the slot's gear adds: its kick times 10, if it hurts
          PerfectPoise, \* perfect_block_poise
          Decay,        \* what drains of it in a step
          ReelSteps,    \* balance_boss_stagger_ms
          Stunning,     \* the slots whose gear has stagger_ms
          StunSteps,    \* how much that is
          Drift,        \* Drift[at][keys]: where a step takes a dot
          Lead,         \* lead_ms
          REWIND_STEPS, MAX_CATCH_UP,
          Inputs,       \* Inputs[pid]: what their client may send: [keys, act, slot, aim]
          Typed,        \* Typed[pid]: what they may type: strike, dodge, block and unblock
          BeganPlayers, BeganNpcs,  \* who the fight begins with
          Opening,      \* Opening[pid]: the strike they began the fight with, if they did, as acts
          MaxStep, MaxInputs, MaxMoves   \* bounds: the clock, inputs, changes of membership

ASSUME OwnerAssumption ==
  /\ IsFiniteSet(Npcs)
  /\ BeganPlayers \subseteq Players /\ BeganNpcs \subseteq Npcs
  /\ \A nid \in Npcs : \A k \in DOMAIN Attacks[nid] :
       /\ Attacks[nid][k].period \in Nat \ {0} /\ Attacks[nid][k].warn \in 0..Attacks[nid][k].period
       /\ Attacks[nid][k].blow \in BlowKinds
  /\ \A pid \in Players : Opening[pid] = <<>> \/ (Opening[pid] = <<Opening[pid][1]>> /\ Opening[pid][1].press = 0)
  /\ KickPoise \in [Slots -> Nat]
  /\ {REWIND_STEPS, MAX_CATCH_UP, ReelSteps, FullMeter} \subseteq Nat \ {0}
  /\ {Lead, StunSteps, PerfectPoise, Decay, MaxStep, MaxInputs, MaxMoves} \subseteq Nat

VARIABLES
  members, foes,  \* Lua's: who is in the fight, and the step they joined at
  clock,          \* the step the clock is at
  phase,          \* start, listen, sync, run, call or over
  inbox, need_sync, ended,
  step_n,         \* Owner.step
  target, ran,    \* this tick: the step to reach, the steps run
  players, npcs, late, calls,
  opened,         \* whose opening strike has been given
  sent,           \* each player's dot in the last state published: [n, snap]
  done,           \* history: how often each press's strike has gone to Lua
  landed,         \* history: the step each attack last landed on
  stalled,        \* history: steps were skipped while a boss was reeling
  said,           \* the step of each player's last input
  inputs, moves   \* used up of the bounds

vars == <<members, foes, clock, phase, inbox, need_sync, ended, step_n, target, ran, players, npcs, late,
          calls, opened, sent, done, landed, stalled, said, inputs, moves>>
world == <<members, foes, moves>>
history == <<sent, done, landed, stalled>>
tick == <<target, ran>>
clients == <<said, inputs>>

With(f, x, v) == [y \in DOMAIN f \union {x} |-> IF y = x THEN v ELSE f[y]]
Without(f, x) == [y \in DOMAIN f \ {x} |-> f[y]]
Earliest(f) == CHOOSE x \in DOMAIN f : \A y \in DOMAIN f : f[x].join <= f[y].join
First(f, otherwise) == IF DOMAIN f = {} THEN otherwise ELSE Earliest(f)
OnesIn(f) == SetToSeq(DOMAIN f)

Sync == [op |-> "sync"]
End == [op |-> "end"]

----------------------------------------------------------------------------
(* What a step of a dot leads to, as calls. *)

BlowsIn(events) == Len(SelectSeq(events, LAMBDA e : e.type = "blow"))

\* The calls event i of a step makes; mine are the attacks whose blows it met.
Consequence(pid, events, i, mine) ==
  LET e == events[i]
      by == mine[BlowsIn(SubSeq(events, 1, i))]
  IN CASE e.type = "strike"  -> <<[kind |-> "strike", pid |-> pid, e |-> e]>>
       [] e.type = "refused" -> <<[kind |-> "refused", pid |-> pid]>>
       [] e.type = "second_wind" -> <<[kind |-> "passive", pid |-> pid]>>
       [] e.type = "blow"    ->
            <<[kind |-> "blow", nid |-> by[1], n |-> by[2], pid |-> pid]>>
            \o (IF e.result = "perfect_block" /\ by[1] \in Bosses \intersect DOMAIN npcs
                THEN <<[kind |-> "poise", nid |-> by[1]]>> ELSE <<>>)
       [] OTHER -> <<>>

_reportable(pid, events, mine) == FlattenSeq([i \in DOMAIN events |-> Consequence(pid, events, i, mine)])

Stepped(d, keys, acts, blows) == step(d, acts, blows, Drift[d.at][keys])

----------------------------------------------------------------------------
(* Inputs. *)

\* One step of the window run again: r is [d, out, window], from the dot so
\* far, with its calls and the entries as they now are.
Replayed(pid, clean, r, e) ==
  LET s == Stepped(r.d, e.keys, e.acts, e.blows)
      out == IF clean THEN _reportable(pid, s.ev, <<>>) ELSE e.out
  IN [d |-> s.d,
      out |-> r.out \o (IF clean THEN out ELSE <<>>),
      window |-> Append(r.window, [e EXCEPT !.snap = snapshot(r.d), !.out = out])]

\* The steps of a window run again.
Again(pid, clean, r, entries) == FoldLeft(LAMBDA s, e : Replayed(pid, clean, s, e), r, entries)

\* The fields a rewind takes when something in its window has gone to Lua.
REWOUND == {"at", "stagger", "immune"}

CanRewind(p, at) == p.history # <<>> /\ at # 0 /\ at <= Last(p.history).n
Window(p, at) == LeftOver(p.history, {e \in ToSet(p.history) : e.n < at})
AllClean(entries) == \A i \in DOMAIN entries : entries[i].blows = <<>> /\ entries[i].out = <<>>

\* Bug: the replay starts from the dot as it is now.
ScratchNow(p, entries) == p.dot

\* The dot a replay starts from: as it was before the entries' first step.
Scratch(p, entries) == restore(NewDot, Head(entries).snap)

\* The player when the window's last entries are run again as these, and what
\* the replay now leads to.
Rewound(pid, p, entries) ==
  LET clean == AllClean(entries)
      before == SubSeq(p.history, 1, Len(p.history) - Len(entries))
      Come(r) ==
        [p |-> [p EXCEPT !.history = before \o r.window,
                         !.dot = IF clean THEN r.d ELSE [f \in DOMAIN @ |-> IF f \in REWOUND THEN r.d[f] ELSE @[f]]],
         late |-> r.out]
  IN Come(Again(pid, clean, [d |-> Scratch(p, entries), out |-> <<>>, window |-> <<>>], entries))

\* A replay's player, and its calls after those that wait.
Also(q, r) == [p |-> r.p, late |-> q.late \o r.late]

\* Held keys: from the step they changed at, if it has been run.
Steer(pid, q, m) ==
  LET window == Window(q.p, m.at)
      held == [i \in DOMAIN window |-> [window[i] EXCEPT !.keys = m.keys]]
      s == IF m.keys \notin {"same", q.p.keys} /\ CanRewind(q.p, m.at) THEN Also(q, Rewound(pid, q.p, held)) ELSE q
  IN [s EXCEPT !.p.keys = IF m.keys = "same" THEN @ ELSE m.keys]

\* Bug: an act that was replayed is left for the next step too.
DoTwice(pid, q, at, act) ==
  LET window == Window(q.p, at)
  IN IF CanRewind(q.p, at) /\ AllClean(window)
     THEN [Also(q, Rewound(pid, q.p, [window EXCEPT ![1].acts = Append(@, act)])) EXCEPT !.p.acts = Append(@, act)]
     ELSE [q EXCEPT !.p.acts = Append(@, act)]

\* An act: at the step it was made, or else with the next.
Do(pid, q, at, act) ==
  LET window == Window(q.p, at)
  IN IF CanRewind(q.p, at) /\ AllClean(window)
     THEN Also(q, Rewound(pid, q.p, [window EXCEPT ![1].acts = Append(@, act)]))
     ELSE [q EXCEPT !.p.acts = Append(@, act)]

\* Who a strike is aimed at: the one named, the first NPC, or no one here.
_target(aim) ==
  CASE aim = "first" -> First(npcs, "")
    [] OTHER -> aim

_input(q, m) ==
  LET act == [kind |-> m.act, slot |-> m.slot, target |-> _target(m.aim), press |-> m.press]
      Acts(s) ==
        CASE m.act = "none"    -> s
          [] m.act = "flee"    -> [s EXCEPT !.p.flee = TRUE]
          [] m.act = "release" -> [s EXCEPT !.p.keys = "none", !.p.acts = Append(@, [act EXCEPT !.kind = "unblock"])]
          [] m.act = "strike" /\ m.aim = "no one" -> [s EXCEPT !.late = Append(@, [kind |-> "refused", pid |-> m.pid])]
          [] OTHER             -> Do(m.pid, s, m.at, act)
  IN Acts(Steer(m.pid, q, m))

Taken(s, m) ==
  CASE m.op = "end"  -> [s EXCEPT !.ended = TRUE]
    [] m.op = "sync" -> [s EXCEPT !.need_sync = TRUE]
    [] m.op = "input" ->
         IF m.pid \notin DOMAIN s.players THEN s
         ELSE LET Left(q) == [s EXCEPT !.players[m.pid] = q.p, !.late = q.late]
              IN Left(_input([p |-> s.players[m.pid], late |-> s.late], m))

----------------------------------------------------------------------------
(* Membership. *)

NewPlayer(pid, join) ==
  [join |-> join, dot |-> NewDot, keys |-> "none", flee |-> FALSE, history |-> <<>>,
   acts |-> IF pid \in opened THEN <<>> ELSE Opening[pid]]
NewNpc(nid, join) ==
  [join |-> join, meter |-> 0, reel |-> 0,
   attacks |-> [k \in DOMAIN Attacks[nid] |-> [land |-> join + Attacks[nid][k].period, told |-> FALSE, target |-> ""]]]

NoVolleysAt(ps, nid) == [pid \in DOMAIN ps |-> [ps[pid] EXCEPT !.dot = cancel_volleys(@, nid)]]

\* Those who stay keep what they have; those who have gone go, with the
\* volleys at them; those who are new start afresh.
Joined(now, was) == [x \in DOMAIN now |-> IF x \in DOMAIN was THEN was[x] ELSE now[x]]
\* Bug: those who have left are kept.
_syncOnlyAdds ==
  [players |-> players @@ [pid \in DOMAIN members |-> NewPlayer(pid, members[pid] + Lead)],
   npcs |-> npcs @@ [nid \in DOMAIN foes |-> NewNpc(nid, foes[nid])]]

_sync ==
  LET gone == DOMAIN npcs \ DOMAIN foes
      there == Joined([pid \in DOMAIN members |-> NewPlayer(pid, members[pid] + Lead)], players)
  IN [players |-> FoldLeft(NoVolleysAt, there, SetToSeq(gone)),
      npcs |-> Joined([nid \in DOMAIN foes |-> NewNpc(nid, foes[nid])], npcs)]

Synced ==
  /\ players' = _sync.players
  /\ npcs' = _sync.npcs
  /\ opened' = opened \union DOMAIN _sync.players
  /\ need_sync' = FALSE
  /\ sent' = [pid \in DOMAIN sent \intersect DOMAIN members \intersect DOMAIN players |-> sent[pid]]
  /\ UNCHANGED <<world, clock, inbox, ended, step_n, tick, late, calls, done, landed, stalled, clients>>

----------------------------------------------------------------------------
(* The clock. *)

Due(a, n) == n >= a.land

\* Attack k of an NPC at step n: announced once it is close, to whoever
\* joined first; when it lands, the next is a period later.
Ticked(nid, k, n) ==
  LET a == npcs[nid].attacks[k]
      told == a.told \/ n >= a.land - Attacks[nid][k].warn
      aimed == IF a.told \/ ~told THEN a.target ELSE First(players, "")
  IN IF Due(a, n) THEN [land |-> a.land + Attacks[nid][k].period, told |-> FALSE, target |-> ""]
     ELSE [a EXCEPT !.told = told, !.target = aimed]

\* Whom an attack that lands now lands on, if anyone.
Hits_on(nid, k) ==
  LET a == npcs[nid].attacks[k]
  IN IF a.told /\ a.target \in DOMAIN players THEN a.target ELSE First(players, "")

\* The attacks that land at step n.
Landing(n) == {x \in UNION {{nid} \X DOMAIN npcs[nid].attacks : nid \in DOMAIN npcs} : Due(npcs[x[1]].attacks[x[2]], n)}

\* Those of them that land on a player.
LandingOn(pid, n) == SelectSeq(SetToSeq(Landing(n)), LAMBDA x : Hits_on(x[1], x[2]) = pid)

\* A player's part of step n; mine are the attacks that land on them.
PlayerStep(pid, p, n, mine) ==
  LET blows == [i \in DOMAIN mine |-> Attacks[mine[i][1]][mine[i][2]].blow]
      s == Stepped(p.dot, p.keys, p.acts, blows)
      out == _reportable(pid, s.ev, mine)
      entry == [n |-> n, snap |-> snapshot(p.dot), keys |-> p.keys, acts |-> p.acts, blows |-> blows, out |-> out]
      window == Append(p.history, entry)
      steady == ~Staggered(p.dot) /\ InCore(p.dot)
      flee == IF ~p.flee THEN <<>> ELSE <<[kind |-> IF steady THEN "flee" ELSE "refused", pid |-> pid]>>
  IN IF n <= p.join
     THEN [p |-> p, calls |-> [i \in DOMAIN mine |-> [kind |-> "blow", nid |-> mine[i][1], n |-> mine[i][2], pid |-> pid]]]
     ELSE [p |-> [p EXCEPT !.dot = s.d, !.acts = <<>>, !.flee = FALSE,
                           !.history = SubSeq(window, AtLeast(1, Len(window) - REWIND_STEPS + 1), Len(window))],
           calls |-> flee \o out]

\* A boss reels a step less, or its meter drains.
boss_step(npc) ==
  IF npc.reel > 0 THEN [npc EXCEPT !.reel = @ - 1] ELSE [npc EXCEPT !.meter = AtLeast(0, @ - Decay)]

\* Global step n: attacks announced and landing, every dot, the bosses.
_run_step(n) ==
  LET part == [pid \in DOMAIN players |-> PlayerStep(pid, players[pid], n, LandingOn(pid, n))]
      order == OnesIn(players)
      steadies == SetToSeq({nid \in DOMAIN npcs : npcs[nid].reel = 1})
  IN /\ players' = [pid \in DOMAIN players |-> part[pid].p]
     /\ npcs' = [nid \in DOMAIN npcs |->
                   [boss_step(npcs[nid]) EXCEPT !.attacks = [k \in DOMAIN @ |-> Ticked(nid, k, n)]]]
     /\ calls' = calls \o FlattenSeq([i \in DOMAIN order |-> part[order[i]].calls])
                       \o [i \in DOMAIN steadies |-> [kind |-> "note", nid |-> steadies[i]]]
     /\ landed' = [x \in DOMAIN landed |-> IF x \in Landing(n) THEN n ELSE landed[x]]

\* Bug: what was due stays due.
SkippedNot(a, period, n) == a

\* Every attack due by the step skipped to moves to its next landing after it.
Skipped(a, period, n) ==
  IF a.land <= n THEN [land |-> a.land + period * ((n + period - a.land) \div period), told |-> FALSE, target |-> ""] ELSE a

_skip_to(n) ==
  /\ step_n' = n
  /\ npcs' = [nid \in DOMAIN npcs |->
                [npcs[nid] EXCEPT !.attacks = [k \in DOMAIN @ |-> Skipped(@[k], Attacks[nid][k].period, n)]]]
  /\ stalled' = (stalled \/ \E nid \in DOMAIN npcs : npcs[nid].reel > 0)

\* A boss's meter filled: what is due while it reels waits for the end.
_boss_reels(npc) ==
  LET end == step_n + npc.reel
      Wait(a) == IF a.land < end THEN [land |-> end, told |-> FALSE, target |-> ""] ELSE a
  IN [npc EXCEPT !.attacks = [k \in DOMAIN @ |-> Wait(@[k])]]

\* A boss's meter takes a hit or a perfect block, unless it reels.
add(npc, amount) ==
  CASE npc.reel > 0               -> npc
    [] npc.reel = 0 /\ npc.meter + amount >= FullMeter -> _boss_reels([npc EXCEPT !.meter = 0, !.reel = ReelSteps])
    [] OTHER                      -> [npc EXCEPT !.meter = @ + amount]

----------------------------------------------------------------------------
(* Lua: its answers to the calls, and the changes the owner is told of. *)

\* The message Lua sends after a change: the last one out ends the fight.
Told(m, f) == IF DOMAIN m = {} \/ DOMAIN f = {} THEN End ELSE Sync
Leave(m, f) ==
  /\ members' = m /\ foes' = f
  /\ inbox' = Append(inbox, Told(m, f))

Unmoved == UNCHANGED <<members, foes, inbox>>

Calling(kind) == phase = "call" /\ ~ended /\ calls # <<>> /\ Head(calls).kind = kind
Called == calls' = Tail(calls)
Elsewhere == UNCHANGED <<moves, clock, phase, need_sync, ended, step_n, tick, late, opened, sent, landed, stalled, clients>>

Counted(e) == IF e.hit = 1 /\ e.press # 0 THEN [done EXCEPT ![e.press] = @ + 1] ELSE done

\* A hit that stuns: the next attacks come later.
stun(npc, slot) ==
  LET Later(a) == [a EXCEPT !.land = a.land + StunSteps]
  IN IF slot \in Stunning THEN [npc EXCEPT !.attacks = [k \in DOMAIN @ |-> Later(@[k])]] ELSE npc

\* A strike: the target is gone, dies, or is hurt.
Strikes ==
  /\ Calling("strike") /\ Called /\ Elsewhere
  /\ LET pid == Head(calls).pid
         e == Head(calls).e
         here == pid \in DOMAIN players
         lands == pid \in DOMAIN members /\ e.target \in DOMAIN foes
     IN /\ done' = IF here THEN Counted(e) ELSE done
        /\ \/ /\ ~here /\ Unmoved
              /\ UNCHANGED <<players, npcs>>
           \/ /\ here /\ ~lands /\ Unmoved
              /\ players' = [players EXCEPT ![pid].dot = cancel_volleys(@, e.target)]
              /\ UNCHANGED npcs
           \/ /\ here /\ lands
              /\ Leave(members, Without(foes, e.target))
              /\ npcs' = Without(npcs, e.target)
              /\ players' = IF e.target \in DOMAIN npcs THEN NoVolleysAt(players, e.target) ELSE players
           \/ /\ here /\ lands /\ Unmoved
              /\ UNCHANGED players
              /\ LET hurt(npc) == IF e.target \in Bosses THEN add(stun(npc, e.slot), KickPoise[e.slot]) ELSE stun(npc, e.slot)
                 IN npcs' = [nid \in DOMAIN npcs |-> IF nid = e.target THEN hurt(npcs[nid]) ELSE npcs[nid]]

\* A blow: it is too late, kills, or hurts.
Blows ==
  /\ Calling("blow") /\ Called /\ Elsewhere
  /\ UNCHANGED <<npcs, done>>
  /\ LET c == Head(calls)
         lands == c.pid \in DOMAIN players \intersect DOMAIN members /\ c.nid \in DOMAIN npcs \intersect DOMAIN foes
     IN \/ Unmoved /\ UNCHANGED players
        \/ /\ lands
           /\ Leave(Without(members, c.pid), foes)
           /\ players' = Without(players, c.pid)

\* A perfect block: it is for the boss's meter.
Poise ==
  /\ Calling("poise") /\ Called /\ Elsewhere /\ Unmoved
  /\ UNCHANGED <<players, done>>
  /\ npcs' = [nid \in DOMAIN npcs |-> IF nid = Head(calls).nid THEN add(npcs[nid], PerfectPoise) ELSE npcs[nid]]

\* Fleeing: they get away, die of a parting blow, or are refused.
Flees ==
  /\ Calling("flee") /\ Called /\ Elsewhere
  /\ UNCHANGED <<npcs, done>>
  /\ LET pid == Head(calls).pid
     IN \/ Unmoved /\ UNCHANGED players
        \/ /\ pid \in DOMAIN members
           /\ Leave(Without(members, pid), foes)
           /\ players' = Without(players, pid)

\* What is only told: refusals to the player, passives and notes to Lua.
Tells ==
  /\ \E kind \in {"refused", "passive", "note"} : Calling(kind)
  /\ Called /\ Elsewhere /\ Unmoved
  /\ UNCHANGED <<players, npcs, done>>

\* Players and NPCs join and leave without the owner's doing; the other
\* awaits are no different from these.
Fighting == members # <<>> /\ foes # <<>>
Moves(m, f) ==
  /\ moves < MaxMoves /\ phase \in {"listen", "call"} /\ Fighting
  /\ moves' = moves + 1
  /\ members' = m /\ foes' = f
  /\ inbox' = Append(inbox, Told(m, f))
  /\ UNCHANGED <<clock, phase, need_sync, ended, step_n, tick, players, npcs, late, calls, opened, history, clients>>
Arrives(pid) == pid \notin DOMAIN members /\ Moves(With(members, pid, clock), foes)
Departs(pid) == pid \in DOMAIN members /\ Moves(Without(members, pid), foes)
Appears(nid) == nid \notin DOMAIN foes /\ Moves(members, With(foes, nid, clock))
Vanishes(nid) == nid \in DOMAIN foes /\ Moves(members, Without(foes, nid))

\* An input comes.  While the owner awaits, it is as if it came when the loop
\* next listens.
Receive(pid, i, at) ==
  /\ inputs < MaxInputs /\ phase = "listen"
  /\ inputs' = inputs + 1
  /\ inbox' = Append(inbox, [op |-> "input", pid |-> pid, keys |-> i.keys, act |-> i.act, slot |-> i.slot,
                             aim |-> i.aim, at |-> at, press |-> inputs + 1])
  /\ UNCHANGED <<world, clock, phase, need_sync, ended, step_n, tick, players, npcs, late, calls, opened, history>>

\* A client's keys and acts, each made at a step of its own, no earlier than
\* its last and at most the next.  Its session may not know it has left.
Press(pid, i, at) ==
  /\ at >= said[pid]
  /\ said' = [said EXCEPT ![pid] = at]
  /\ Receive(pid, i, at)

\* What is typed is made at no step, and only in a fight.
Says(pid, act, slot) ==
  /\ act \in Typed[pid] /\ pid \in DOMAIN members
  /\ Receive(pid, [keys |-> "same", act |-> act, slot |-> slot, aim |-> "first"], 0)
  /\ UNCHANGED said
use(pid, slot) == Says(pid, "strike", slot)
brace(pid, act) == act \in {"dodge", "block", "unblock"} /\ Says(pid, act, 0)

----------------------------------------------------------------------------
(* The loop. *)

Tick ==
  /\ phase = "listen" /\ clock < MaxStep
  /\ clock' = clock + 1
  /\ UNCHANGED <<world, phase, inbox, need_sync, ended, step_n, tick, players, npcs, late, calls, opened, history, clients>>

\* The first sync, and the others: if the fight is over, so is the loop.
_loopSyncs ==
  /\ phase \in {"start", "sync"}
  /\ \/ Fighting /\ phase' = (IF phase = "start" THEN "listen" ELSE "ready") /\ Synced
     \/ /\ ~Fighting /\ phase' = "over"
        /\ UNCHANGED <<world, clock, inbox, need_sync, ended, step_n, tick, players, npcs, late, calls, opened, history, clients>>

\* A tick begins: the inbox is read.
_take_inbox ==
  /\ phase = "listen"
  /\ \E s \in {FoldLeft(Taken, [ended |-> ended, need_sync |-> need_sync, players |-> players, late |-> late], inbox)} :
       /\ ended' = s.ended /\ need_sync' = s.need_sync /\ players' = s.players /\ late' = s.late
       /\ phase' = IF s.ended THEN "over" ELSE IF s.need_sync THEN "sync" ELSE "ready"
  /\ inbox' = <<>>
  /\ UNCHANGED <<world, clock, step_n, tick, npcs, calls, opened, history, clients>>

\* The clock is read; what a rewind led to goes first.
Begin ==
  /\ phase = "ready"
  /\ phase' = "run" /\ target' = clock /\ ran' = 0
  /\ calls' = late /\ late' = <<>>
  /\ UNCHANGED <<world, clock, inbox, need_sync, ended, step_n, players, npcs, opened, history, clients>>

Behind == step_n < target /\ ran < MAX_CATCH_UP

RunStep ==
  /\ phase = "run" /\ Behind
  /\ step_n' = step_n + 1 /\ ran' = ran + 1
  /\ _run_step(step_n + 1)
  /\ stalled' = (stalled /\ \E nid \in DOMAIN npcs : npcs[nid].reel > 1)
  /\ UNCHANGED <<world, clock, phase, inbox, need_sync, ended, target, late, opened, sent, done, clients>>

\* Enough steps: too far behind, the rest are skipped.
Caught ==
  /\ phase = "run" /\ ~Behind
  /\ phase' = "call"
  /\ IF ran >= MAX_CATCH_UP THEN _skip_to(target) ELSE UNCHANGED <<step_n, npcs, stalled>>
  /\ UNCHANGED <<world, clock, inbox, need_sync, ended, tick, players, late, calls, opened, sent, done, landed, clients>>

\* The calls are done, and the state may be published: each dot as it was at
\* the start of its window.
state(p) == IF p.history = <<>> THEN [n |-> 0, snap |-> snapshot(p.dot)]
            ELSE [n |-> Head(p.history).n, snap |-> Head(p.history).snap]
Publish ==
  /\ phase = "call" /\ calls = <<>>
  /\ phase' = "listen"
  /\ sent' = [pid \in DOMAIN players |-> state(players[pid])]
  /\ UNCHANGED <<world, clock, inbox, need_sync, ended, step_n, tick, players, npcs, late, calls, opened, done, landed, stalled, clients>>

----------------------------------------------------------------------------

Init ==
  /\ members = [pid \in BeganPlayers |-> 0]
  /\ foes = [nid \in BeganNpcs |-> 0]
  /\ clock = 0 /\ phase = "start"
  /\ inbox = <<>> /\ need_sync = TRUE /\ ended = FALSE
  /\ step_n = 0 /\ target = 0 /\ ran = 0
  /\ players = <<>> /\ npcs = <<>>
  /\ late = <<>> /\ calls = <<>> /\ opened = {} /\ sent = <<>>
  /\ done = [press \in 1..MaxInputs |-> 0]
  /\ landed = [x \in UNION {{nid} \X DOMAIN Attacks[nid] : nid \in Npcs} |-> 0]
  /\ stalled = FALSE
  /\ said = [pid \in Players |-> 0]
  /\ inputs = 0 /\ moves = 0

Next ==
  \/ Tick \/ _take_inbox \/ _loopSyncs \/ Begin \/ RunStep \/ Caught \/ Publish
  \/ Strikes \/ Blows \/ Poise \/ Flees \/ Tells
  \/ \E pid \in Players : Arrives(pid) \/ Departs(pid)
  \/ \E nid \in Npcs : Appears(nid) \/ Vanishes(nid)
  \/ \E pid \in Players, at \in 1..step_n + 1 : \E i \in Inputs[pid] : Press(pid, i, at)
  \/ \E pid \in Players : (\E slot \in Slots : use(pid, slot)) \/ (\E act \in Typed[pid] : brace(pid, act))

Spec == Init /\ [][Next]_vars

----------------------------------------------------------------------------

TypeOK ==
  /\ DOMAIN members \subseteq Players /\ DOMAIN foes \subseteq Npcs
  /\ DOMAIN players \subseteq Players /\ DOMAIN npcs \subseteq Npcs
  /\ DOMAIN sent \subseteq Players
  /\ phase \in {"start", "listen", "sync", "ready", "run", "call", "over"}
  /\ step_n \in 0..MaxStep /\ target \in 0..MaxStep /\ ran \in 0..MAX_CATCH_UP
  /\ \A pid \in DOMAIN players : Len(players[pid].history) <= REWIND_STEPS

\* However the fight stalls, skips steps, is stunned or reels, one attack's
\* blows land at least its period apart: none come in a burst (_run_step,
\* _skip_to, _boss_reels, _call).
BlowsPaced ==
  [][\A x \in DOMAIN landed : landed'[x] # landed[x] /\ landed[x] # 0 =>
       landed'[x] - landed[x] >= Attacks[x[1]][x[2]].period]_vars

\* No attack of a boss lands while it reels, but where steps were skipped:
\* those pass for its attacks and not for its reeling (_boss_reels).
ReelingWaits ==
  [][\A x \in DOMAIN landed : landed'[x] # landed[x] /\ npcs[x[1]].reel > 1 => stalled]_vars

\* An act is done once: it waits for the next step, or is in one step of the
\* window, and never both, whatever is replayed (_input, _rewind).
ActsAt(p, i) == IF i = 0 THEN p.acts ELSE p.history[i].acts
ActsOnce ==
  \A pid \in DOMAIN players : LET p == players[pid] IN
    \A i, j \in 0..Len(p.history) : \A a \in DOMAIN ActsAt(p, i), b \in DOMAIN ActsAt(p, j) :
      ActsAt(p, i)[a].press = ActsAt(p, j)[b].press => i = j /\ a = b

\* What a client was told a dot was at the start of its window stays what
\* the owner would replay from: a late input changes nothing before it.
WindowFixed ==
  \A pid \in DOMAIN players \intersect DOMAIN sent : \A i \in DOMAIN players[pid].history :
    players[pid].history[i].n = sent[pid].n => players[pid].history[i].snap = sent[pid].snap

\* The owner steps those whom Lua has in the fight, unless it has yet to be
\* told of a change (_sync, _call).
ToldOf == need_sync \/ \E i \in DOMAIN inbox : inbox[i].op \in {"sync", "end"}
MembersKnown ==
  phase # "over" => ToldOf \/ (DOMAIN players = DOMAIN members /\ DOMAIN npcs = DOMAIN foes)

\* What docs/combat.md says of a strike: it is made once its slot's cooldown
\* is up.  A press is one strike, whatever is replayed.
PressStrikesOnce == \A press \in DOMAIN done : done[press] <= 1
=============================================================================
