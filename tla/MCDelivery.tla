----------------------------- MODULE MCDelivery -----------------------------
(* Small instances of Delivery. *)
EXTENDS Delivery, TLC

CONSTANTS p1, p2, t1, t2, inn, lane, ford, docks, news

OnePlayer == [t \in Tabs |-> p1]
OneTabEach == (t1 :> p1) @@ (t2 :> p2)

\* The inn and the lane share an area; the ford is on a road of its own.
InDocks == [r \in Rooms |-> IF r = ford THEN {} ELSE {docks}]
NoAreas == [r \in Rooms |-> {}]

\* All players are new; or one went away on the road.
AllNew == [p \in Players |-> StartRoom]
OneAboard == [p \in Players |-> IF p = p2 THEN ford ELSE StartRoom]
=============================================================================
