------------------------------ MODULE Balance ------------------------------
(***************************************************************************)
(* A dot played step by step, beside a copy of it (balance.py: step,       *)
(* snapshot, restore).  The server's dot is the authority.  The copy is    *)
(* what is made of one of its snapshots: the owner's scratch dot when it   *)
(* replays (encounter.py), and the client's prediction (web/index.html).   *)
(*                                                                         *)
(* What is told of each step is kept for one step, and the rest of the     *)
(* history only as how long ago things happened.                           *)
(***************************************************************************)
EXTENDS Dot

CONSTANTS Targets,   \* who a strike may be aimed at
          Given,     \* what a step may be given: [acts, blows]
          Goes,      \* where a step may take the dot
          Horizon,   \* how far back the history goes
          MaxSteps   \* bound: the steps that are played

ActKinds ==
  [kind : {"strike"}, slot : Slots, target : Targets, press : Nat]
  \union [kind : {"dodge", "block", "unblock"}, press : Nat]

ASSUME BalanceAssumption ==
  /\ \A i \in Given : i.acts \in Seq(ActKinds) /\ i.blows \in Seq(BlowKinds)
  /\ "none" \notin Targets
  /\ Goes \subseteq Places \union {"rim"}
  /\ Horizon \in Nat \ {0}
  /\ MaxSteps \in Nat
  /\ \A s \in Slots : /\ Cooldown[s] <= Horizon
                      /\ Hits[s] * AtLeast(1, Gap) <= Horizon
  /\ {GlobalCooldown, ImmuneSteps, Buffer} \subseteq 0..Horizon

VARIABLES dot,      \* the server's dot
          copy,     \* the copy
          told,     \* what the server's dot did in its last step
          copied,   \* what the copy did in it
          same,     \* nothing but steps has happened to either since the copy was made
          since,    \* since[s]: steps from slot s's strike before this step to this one
          calm,     \* steps from the last recovery before this step to this one
          asked,    \* the strike asked for and not yet answered: how long ago
          firsts,   \* first hits of late whose target is still there: [slot, target, tier, ago]
          played         \* steps played

playing == <<dot, copy, told, copied, same, since, calm, asked, firsts, played>>

Struck(ev) == {e \in ToSet(ev) : e.type = "strike"}
FirstHits(ev) == {e \in Struck(ev) : e.hit = 1}
Answers(ev) == FirstHits(ev) \union {e \in ToSet(ev) : e.type = "refused" /\ e.act = "strike"}
Happened(ev, type) == \E e \in ToSet(ev) : e.type = type

Later(k) == IF k < Horizon THEN k + 1 ELSE Horizon

\* What a dot to replay on is left as by an earlier replay: in no field a new dot.
Stale ==
  [at |-> "out", cool |-> [s \in Slots |-> 1], dodge_cd |-> 1, invuln |-> 1, wobble_after |-> TRUE,
   wobble |-> 1, stagger |-> 1, immune |-> 1, blocking |-> TRUE, braced |-> 1,
   pending |-> [NoPress EXCEPT !.left = 1], volleys |-> <<>>, breath |-> 1, steadied |-> TRUE, knocked |-> TRUE,
   inside |-> FALSE]

BalanceInit ==
  /\ dot = NewDot /\ copy = Stale
  /\ told = <<>> /\ copied = <<>>
  /\ same = FALSE
  /\ since = [s \in Slots |-> Horizon]
  /\ calm = Horizon
  /\ asked = {}
  /\ firsts = {}
  /\ played = 0

\* How long a strike has been waiting, after a step given acts that told ev.
Waiting(acts, ev) ==
  IF Answers(ev) # {} THEN {}
  ELSE IF \E a \in ToSet(acts) : a.kind = "strike" THEN {0}
  ELSE {k + 1 : k \in asked}

\* One step, of both; once they differ, what the copy is counts for nothing.
Play(acts, blows, to) ==
  /\ played < MaxSteps
  /\ played' = played + 1
  /\ \E mine \in {step(dot, acts, blows, to)} :
       /\ dot' = mine.d /\ told' = mine.ev
       /\ asked' = Waiting(acts, mine.ev)
       /\ firsts' = {[f EXCEPT !.ago = @ + 1] : f \in {g \in firsts : g.ago < Horizon}}
                    \union {[slot |-> e.slot, target |-> e.target, tier |-> e.tier, ago |-> 0] : e \in FirstHits(mine.ev)}
  /\ IF same THEN \E its \in {step(copy, acts, blows, to)} : copy' = its.d /\ copied' = its.ev
     ELSE UNCHANGED <<copy, copied>>
  /\ since' = [s \in Slots |-> IF \E e \in FirstHits(told) : e.slot = s THEN 1 ELSE Later(since[s])]
  /\ calm' = IF Happened(told, "recover") THEN 1 ELSE Later(calm)
  /\ UNCHANGED same

\* The copy is made again of a snapshot: a state message reaches the client,
\* or the owner replays.
Restore ==
  /\ copy' = restore(copy, snapshot(dot))
  /\ copied' = told
  /\ same' = TRUE
  /\ UNCHANGED <<dot, told, since, calm, asked, firsts, played>>

\* What was told, without the hits of volleys that are stopped.
WithoutHits(ev, t) == LeftOver(ev, {e \in Struck(ev) : e.hit > 1 /\ e.target = t})

\* A target dies: the server stops the volleys at it (encounter._drop_npc),
\* which the copy hears of only when it is made again.
TargetDies(t) ==
  /\ \E i \in DOMAIN dot.volleys : dot.volleys[i].target = t
  /\ dot' = cancel_volleys(dot, t)
  /\ told' = WithoutHits(told, t)
  /\ firsts' = {f \in firsts : f.target # t}
  /\ same' = FALSE /\ copy' = Stale /\ copied' = <<>>
  /\ UNCHANGED <<since, calm, asked, played>>

BalanceNext ==
  \/ \E i \in Given, to \in Goes : Play(i.acts, i.blows, to)
  \/ Restore
  \/ \E t \in Targets : TargetDies(t)

BalanceSpec == BalanceInit /\ [][BalanceNext]_playing

----------------------------------------------------------------------------

HeldPress == [slot : Slots \union {0}, target : Targets \union {"none"}, left : Nat, press : Nat]
DotType ==
  [at : Places, cool : [Slots -> Nat], dodge_cd : Nat, invuln : Nat, wobble_after : BOOLEAN, wobble : Nat,
   stagger : Nat, immune : Nat, blocking : BOOLEAN, braced : 0..(PerfectSteps + 1), pending : HeldPress,
   volleys : Seq([slot : Slots, target : Targets, tier : {0, 2}, hit : Nat, left : Nat, press : Nat]),
   breath : Nat, steadied : BOOLEAN, knocked : BOOLEAN, inside : BOOLEAN]

\* The dot and its copy have every field, in its range; a held strike waits
\* within the buffer.
BalanceTypeOK ==
  /\ {dot, copy} \subseteq DotType
  /\ since \in [Slots -> 0..Horizon]
  /\ calm \in 0..Horizon
  /\ asked \subseteq Nat
  /\ same \in BOOLEAN
  /\ played \in 0..MaxSteps

\* However presses are buffered, volleys run and the dot is knocked about, a
\* slot strikes again no sooner than its cooldown after its last strike, and
\* no slot sooner than the global cooldown after any (_strike, strike_check).
CooldownKept ==
  \A e \in FirstHits(told) : since[e.slot] >= Cooldown[e.slot] /\ \A s \in Slots : since[s] >= GlobalCooldown

\* A dot that recovers from a stagger is staggered by nothing, neither blow
\* nor rim, for the whole of its immunity: no chain of blows keeps a player
\* down (docs/combat.md; _timers, apply_blow, _physics).
ImmuneAfterStagger == Happened(told, "stagger") => calm >= ImmuneSteps /\ ~Happened(told, "recover")

\* The last strike a player asked for is made or refused within the buffer,
\* whatever blows, staggers and dodges come meanwhile: none is left hanging
\* to go off later (_act, step).
PressAnswered == \A k \in asked : k < Buffer

\* Every hit of a volley lands when it is due, as good as the first, staggered
\* or not, unless its target has died; and no hit lands that isn't due
\* (_volleys, cancel_volleys).
HitDue(f, hit) == f.ago = (hit - 1) * AtLeast(1, Gap) - 1
VolleysLand ==
  /\ \A f \in firsts : \A hit \in 2..Hits[f.slot] :
       HitDue(f, hit) =>
         \E e \in Struck(told) : e.slot = f.slot /\ e.target = f.target /\ e.tier = f.tier /\ e.hit = hit
  /\ \A e \in Struck(told) \ FirstHits(told) :
       \E f \in firsts : f.slot = e.slot /\ f.target = e.target /\ f.tier = e.tier /\ HitDue(f, e.hit)

\* A copy made of a snapshot does what the dot does, step for step: the
\* snapshot holds all that the rules read.
CopyFollows == same => copy = dot /\ copied = told
=============================================================================
