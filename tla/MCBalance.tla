------------------------------ MODULE MCBalance ------------------------------
(* A small instance of Balance: a quick blade and a volley of three. *)
EXTENDS Balance, TLC

CONSTANTS wolf, crow

Cooldowns == <<4, 2>>
HitsOf == <<1, 3>>

Strikes == {[kind |-> "strike", slot |-> s, target |-> t, press |-> 0] : s \in Slots, t \in Targets}
Act1(kind) == <<[kind |-> kind, press |-> 0]>>
Hit == [defend |-> "both", staggers |-> TRUE, kicks |-> TRUE, wobbles |-> FALSE, parting |-> FALSE]

Mine == {<<>>, Act1("dodge"), Act1("block"), Act1("unblock")} \union {<<s>> : s \in Strikes}
Both == {<<>>} \union {<<s>> : s \in Strikes}
ActOrBlow == [acts : Mine, blows : {<<>>}] \union [acts : Both, blows : {<<Hit>>}]
=============================================================================
