-------------------------------- MODULE Dot --------------------------------
(***************************************************************************)
(* One player's dot in a fight (balance.py): its timers, strikes, volleys, *)
(* dodge, block and stagger, and how it takes one step of the simulation.  *)
(*                                                                         *)
(* A handler takes a dot and the events of the step so far to what they    *)
(* become; Step runs them in the code's order.  Where the dot is, is one   *)
(* of Places: what the rules tell apart.  The forces that move it are left *)
(* out: a step is told where they take it.  Timers are whole steps.        *)
(***************************************************************************)
EXTENDS Integers, SequencesExt

CONSTANTS Slots,     \* the gear slots a strike may name
          Filled,    \* those with gear in them
          Cooldown,  \* Cooldown[s]: steps(gear.cooldown)
          Hits,      \* Hits[s]: a volley's hits
          Kicking,   \* the slots whose gear kicks your own dot
          Shield,    \* whether a shield is in hand
          Perks,     \* the passives that work on the dot
          Gap,             \* steps between a volley's hits
          GlobalCooldown,  \* balance_global_cd_ms
          Buffer,          \* balance_buffer_ms
          StaggerSteps,    \* balance_stagger_ms
          ImmuneSteps,     \* balance_stagger_immune_ms
          DodgeSteps,      \* balance_dodge_ms
          DodgeCooldown,   \* balance_dodge_cd_ms
          WobbleSteps,     \* balance_wobble_ms
          BreathSteps,     \* how long Long Breath lasts
          PerfectSteps     \* defend_perfect_ms

ASSUME DotAssumption ==
  /\ Filled \subseteq Slots
  /\ Kicking \subseteq Slots
  /\ Cooldown \in [Slots -> Nat]
  /\ Hits \in [Slots -> Nat \ {0}]
  /\ Shield \in BOOLEAN
  /\ {Gap, GlobalCooldown, Buffer, DodgeCooldown, PerfectSteps} \subseteq Nat
  /\ {StaggerSteps, ImmuneSteps, DodgeSteps, WobbleSteps, BreathSteps} \subseteq Nat \ {0}

\* How close to the centre: the perfect circle, the rest of the core, what
\* Long Breath adds to it, and outside.  "rim" is only where a step may take
\* the dot; it bounces or staggers there.
Core == {"perfect", "steady"}
Places == Core \union {"wide", "out"}

NoPress == [slot |-> 0, target |-> "none", left |-> 0, press |-> 0]

NewDot ==
  [at |-> "perfect", cool |-> [s \in Slots |-> 0], dodge_cd |-> 0, invuln |-> 0, wobble_after |-> FALSE,
   wobble |-> 0, stagger |-> 0, immune |-> 0, blocking |-> FALSE, braced |-> 0, pending |-> NoPress,
   volleys |-> <<>>, breath |-> 0, steadied |-> FALSE, knocked |-> FALSE, inside |-> TRUE]

\* Bug: what a passive has seen of the dot is left out of the snapshot.
SNAPSHOTForgetful == {"at", "cool", "dodge_cd", "invuln", "wobble_after", "wobble", "stagger", "immune",
             "blocking", "braced", "pending", "volleys", "breath", "steadied", "inside"}

\* The fields a snapshot holds; the others are the same in every copy of a
\* player's dot, or drawn anew each step.
SNAPSHOT == {"at", "cool", "dodge_cd", "invuln", "wobble_after", "wobble", "stagger", "immune", "blocking",
             "braced", "pending", "volleys", "breath", "steadied", "knocked", "inside"}

snapshot(d) == [f \in SNAPSHOT |-> d[f]]
restore(d, snap) == [f \in DOMAIN d |-> IF f \in DOMAIN snap THEN snap[f] ELSE d[f]]

----------------------------------------------------------------------------
(* What a dot is like now. *)

AtLeast(a, b) == IF a > b THEN a ELSE b
CountDown(n) == IF n > 0 THEN n - 1 ELSE 0

Staggered(d) == d.stagger > 0
InCore(d) == d.at \in Core \/ (d.at = "wide" /\ d.breath > 0)

\* A wobble that has not faded to 0.15 of its strength: the rim bounces it.
Wobbling(d) == 100 * d.wobble > 15 * WobbleSteps

\* How good a strike is: 2 perfect; clean and edge are one here.
tier(d) == IF d.at = "perfect" THEN 2 ELSE 0

SteadyHands(d) == "steady_hands" \in Perks /\ ~d.steadied

\* Bug: a strike is checked before the cooldown has been looked at.
strike_checkHasty(d, s) ==
  CASE Staggered(d)              -> "staggered"
    [] ~Staggered(d) /\ (d.blocking \/ ~InCore(d)) -> "not_steady"
    [] OTHER                     -> IF s \in Filled THEN "valid" ELSE "empty"

strike_check(d, s) ==
  CASE Staggered(d)              -> "staggered"
    [] ~Staggered(d) /\ (d.blocking \/ ~InCore(d)) -> "not_steady"
    [] ~Staggered(d) /\ ~d.blocking /\ InCore(d) /\ d.cool[s] > 0 -> "cooldown"
    [] OTHER                     -> IF s \in Filled THEN "valid" ELSE "empty"

----------------------------------------------------------------------------
(* Events, and the handlers of a step: s is [d |-> dot, ev |-> events]. *)

\* A blow: what can meet it, and what it does if nothing does.
BlowKinds ==
  [defend : {"both", "block", "dodge", "none"}, staggers : BOOLEAN, kicks : BOOLEAN, wobbles : BOOLEAN,
   parting : BOOLEAN]

Happens(s, e) == [s EXCEPT !.ev = Append(@, e)]

StrikeEvent(v, hit) ==
  [type |-> "strike", slot |-> v.slot, target |-> v.target, tier |-> v.tier, hit |-> hit, press |-> v.press]
Refused(act, reason, press) == [type |-> "refused", act |-> act, reason |-> reason, press |-> press]
BlowEvent(result) == [type |-> "blow", result |-> result]
StaggerEvent(by) == [type |-> "stagger", by |-> by]
Plain(type) == [type |-> type]

\* A wobble starts, or starts again.
add_debuff(d) == [d EXCEPT !.wobble = WobbleSteps]

\* A strike's hit knocks the dot, if its gear kicks.
apply_kick(d, slot) == [d EXCEPT !.knocked = @ \/ slot \in Kicking]

\* Bug: the immunity is what is left of it, as for any other timer.
TimersUnkind(d) ==
  LET dodged == d.invuln = 1 /\ d.wobble_after
      recovers == d.stagger = 1
      w == IF dodged THEN add_debuff(d) ELSE d
  IN [d |-> [w EXCEPT !.cool = [s \in Slots |-> CountDown(d.cool[s])],
                      !.dodge_cd = CountDown(@),
                      !.breath = CountDown(@),
                      !.invuln = CountDown(@),
                      !.wobble_after = @ /\ ~dodged,
                      !.wobble = CountDown(@),
                      !.stagger = CountDown(@),
                      !.immune = CountDown(IF recovers THEN ImmuneSteps ELSE @),
                      !.braced = IF @ > PerfectSteps THEN @ ELSE @ + 1],
      ev |-> IF recovers THEN <<Plain("recover")>> ELSE <<>>]

\* Every timer counts down.  A dodge that ends owes its wobble; a stagger
\* that ends leaves the dot immune for a while.
Timers(d) ==
  LET dodged == d.invuln = 1 /\ d.wobble_after
      recovers == d.stagger = 1
      w == IF dodged THEN add_debuff(d) ELSE d
  IN [d |-> [w EXCEPT !.cool = [s \in Slots |-> CountDown(d.cool[s])],
                      !.dodge_cd = CountDown(@),
                      !.breath = CountDown(@),
                      !.invuln = CountDown(@),
                      !.wobble_after = @ /\ ~dodged,
                      !.wobble = CountDown(@),
                      !.stagger = CountDown(@),
                      !.immune = IF recovers THEN ImmuneSteps ELSE CountDown(@),
                      !.braced = IF @ > PerfectSteps THEN @ ELSE @ + 1],
      ev |-> IF recovers THEN <<Plain("recover")>> ELSE <<>>]

Dodge(s, a) ==
  LET why == CASE Staggered(s.d)                        -> "staggered"
               [] ~Staggered(s.d) /\ s.d.blocking       -> "blocking"
               [] OTHER -> IF s.d.dodge_cd > 0 THEN "cooldown" ELSE "valid"
  IN IF why # "valid" THEN Happens(s, Refused("dodge", why, a.press))
     ELSE Happens([s EXCEPT !.d.invuln = DodgeSteps,
                            !.d.dodge_cd = DodgeCooldown,
                            !.d.wobble_after = TRUE], Plain("dodge"))

Block(s, a) ==
  IF ~Shield THEN Happens(s, Refused("block", "no_shield", a.press))
  ELSE IF s.d.blocking THEN s
  ELSE [s EXCEPT !.d.blocking = TRUE, !.d.braced = 0]

\* One act of the player's: a strike is held until it can be made.
Act(s, a) ==
  CASE a.kind = "strike"  -> [s EXCEPT !.d.pending = [slot |-> a.slot, target |-> a.target,
                                                      left |-> Buffer, press |-> a.press]]
    [] a.kind = "dodge"   -> Dodge(s, a)
    [] a.kind = "block"   -> Block(s, a)
    [] a.kind = "unblock" -> [s EXCEPT !.d.blocking = FALSE]

ActsDone(s, acts) == FoldLeft(Act, s, acts)

\* All its hits are as good as the first.
Volley(p, t) ==
  [slot |-> p.slot, target |-> p.target, tier |-> t, hit |-> 2, left |-> AtLeast(1, Gap), press |-> p.press]

\* A strike that is made: the cooldowns, the kick, the first hit and the
\* volley that is to follow.
Strike(s, p) ==
  LET own == AtLeast(Cooldown[p.slot], GlobalCooldown)
      volley == Volley(p, tier(s.d))
      shared(k) == IF k \in Filled THEN AtLeast(s.d.cool[k], GlobalCooldown) ELSE s.d.cool[k]
      struck == [s.d EXCEPT !.pending = NoPress,
                            !.breath = IF volley.tier = 2 /\ "long_breath" \in Perks THEN BreathSteps ELSE @,
                            !.cool = [k \in Slots |-> IF k = p.slot THEN own ELSE shared(k)],
                            !.volleys = IF Hits[p.slot] > 1 THEN Append(@, volley) ELSE @]
  IN Happens([s EXCEPT !.d = apply_kick(struck, p.slot)], StrikeEvent(volley, 1))

\* The strike held in the buffer: made, dropped, or held one step less.
Pending(s) ==
  LET p == s.d.pending
      why == strike_check(s.d, p.slot)
  IN CASE p = NoPress                    -> s
       [] p # NoPress /\ why = "valid"   -> Strike(s, p)
       [] p # NoPress /\ why # "valid" /\ (why = "empty" \/ p.left = 0) ->
            Happens([s EXCEPT !.d.pending = NoPress], Refused("strike", why, p.press))
       [] OTHER                          -> [s EXCEPT !.d.pending.left = @ - 1]

\* Bug: a volley is over one hit early.
VolleyStepShort(s, v) ==
  IF v.left > 1 THEN [s EXCEPT !.d.volleys = Append(@, [v EXCEPT !.left = @ - 1])]
  ELSE LET next == [v EXCEPT !.hit = @ + 1, !.left = AtLeast(1, Gap)]
           left == IF v.hit + 1 < Hits[v.slot] THEN Append(s.d.volleys, next) ELSE s.d.volleys
       IN Happens([s EXCEPT !.d = apply_kick([s.d EXCEPT !.volleys = left], v.slot)], StrikeEvent(v, v.hit))

\* Each volley waits, or lands its next hit and goes on if it has more.
VolleyStep(s, v) ==
  IF v.left > 1 THEN [s EXCEPT !.d.volleys = Append(@, [v EXCEPT !.left = @ - 1])]
  ELSE LET next == [v EXCEPT !.hit = @ + 1, !.left = AtLeast(1, Gap)]
           left == IF v.hit < Hits[v.slot] THEN Append(s.d.volleys, next) ELSE s.d.volleys
       IN Happens([s EXCEPT !.d = apply_kick([s.d EXCEPT !.volleys = left], v.slot)], StrikeEvent(v, v.hit))

Volleys(s) == FoldLeft(VolleyStep, [s EXCEPT !.d.volleys = <<>>], s.d.volleys)

\* What is left of a sequence without the elements of a set.
LeftOver(q, drop) == FoldLeft(LAMBDA p, x : IF x \in drop THEN p ELSE Append(p, x), <<>>, q)

\* A target that died: its volleys stop.
cancel_volleys(d, target) ==
  [d EXCEPT !.volleys = LeftOver(@, {v \in ToSet(@) : v.target = target})]

\* The dot on the rim, still, where it was knocked.
StaggerDot(d) == [d EXCEPT !.at = "out", !.stagger = StaggerSteps, !.knocked = TRUE]

\* A blow: what can meet it, whether it knocks, staggers and leaves a wobble.
Blow(s, b) ==
  LET d == s.d
      was == Staggered(d)
      staggers == b.staggers /\ ~was /\ d.immune = 0
      knocked == [d EXCEPT !.knocked = @ \/ (~was /\ b.kicks)]
      landed == IF b.wobbles THEN add_debuff(knocked) ELSE knocked
      hit == Happens([s EXCEPT !.d = landed], BlowEvent(IF was THEN "staggered" ELSE "hit"))
  IN CASE b.parting -> Happens(s, BlowEvent("parting"))
       [] ~b.parting /\ d.invuln > 0 /\ b.defend \in {"both", "dodge"} -> Happens(s, BlowEvent("dodge"))
       [] ~b.parting /\ ~(d.invuln > 0 /\ b.defend \in {"both", "dodge"})
          /\ d.blocking /\ ~was /\ b.defend \in {"both", "block"} ->
            Happens(s, BlowEvent(IF d.braced <= PerfectSteps THEN "perfect_block" ELSE "block"))
       [] OTHER -> IF ~staggers THEN hit
                   ELSE IF SteadyHands(d) THEN Happens([hit EXCEPT !.d.steadied = TRUE], Plain("steadied"))
                   ELSE Happens([hit EXCEPT !.d = StaggerDot(hit.d)], StaggerEvent("blow"))

BlowsMet(s, blows) == FoldLeft(Blow, s, blows)

\* The rim: the dot bounces off it while it wobbles or is immune, or once
\* for Steady Hands; else it staggers.
Rim(s) ==
  IF Wobbling(s.d) \/ s.d.immune > 0 THEN [s EXCEPT !.d.at = "out"]
  ELSE IF SteadyHands(s.d) THEN Happens([s EXCEPT !.d.at = "out", !.d.steadied = TRUE], Plain("steadied"))
  ELSE Happens([s EXCEPT !.d = StaggerDot(@)], StaggerEvent("rim"))

\* Second Wind: back in the core after a knock.
Inside(s) ==
  LET now == ~Staggered(s.d) /\ InCore(s.d)
      back == now /\ ~s.d.inside /\ s.d.knocked
      moved == [s EXCEPT !.d.inside = now, !.d.knocked = @ /\ ~back]
  IN IF back /\ "second_wind" \in Perks THEN Happens(moved, Plain("second_wind")) ELSE moved

\* The dot goes where the forces take it.
Physics(s, to) ==
  IF Staggered(s.d) THEN [s EXCEPT !.d.at = IF to = "rim" THEN "out" ELSE to, !.d.inside = FALSE]
  ELSE Inside(IF to = "rim" THEN Rim(s) ELSE [s EXCEPT !.d.at = to])

\* One step of the simulation.
step(d, acts, blows, to) ==
  Physics(BlowsMet(Volleys(Pending(ActsDone(Timers(d), acts))), blows), to)
=============================================================================
