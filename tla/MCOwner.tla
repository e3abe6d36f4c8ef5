------------------------------- MODULE MCOwner -------------------------------
(* Small instances of Owner: a wolf that bites every two steps, and may be joined by a bear. *)
EXTENDS Owner, TLC

CONSTANTS p1, p2, wolf, bear

\* Steered away a dot leaves the core; let go, it comes back.
Steered(far) == [at \in Places |-> [away |-> IF at = "out" THEN far ELSE "out", none |-> "perfect"]]
NearRim == Steered("rim")
OffRim == Steered("out")

Quick == [s \in Slots |-> 4]
Single == [s \in Slots |-> 1]
Kicks == [s \in Slots |-> 2]

Bite == [defend |-> "both", staggers |-> TRUE, kicks |-> TRUE, wobbles |-> FALSE, parting |-> FALSE]
Biting == [nid \in Npcs |-> <<[period |-> 2, warn |-> 1, blow |-> Bite]>>]
NoAttacks == [nid \in Npcs |-> <<>>]

Unopened == [pid \in Players |-> <<>>]

Input(keys, act) == [keys |-> keys, act |-> act, slot |-> 1, aim |-> "first"]
Steering == [pid \in Players |-> {Input("away", "none"), Input("none", "none"), Input("same", "strike")}]
Said == [pid \in Players |-> IF pid = p1 THEN {"strike", "block"} ELSE {}]
Struck == [pid \in Players |-> {"strike"}]
Everything ==
  [pid \in Players |->
    IF pid # p1 THEN {} ELSE {Input("away", "none"), Input("none", "strike"), Input("same", "flee")}]
=============================================================================
