------------------------------- MODULE Hearing -------------------------------
(***************************************************************************)
(* What the delivery of events promises a player, without channels,        *)
(* streams, feeds or connections.  Things happen one after another, each   *)
(* for some players; what a client has been shown is always everything its *)
(* player was there for between where its view began and some later point. *)
(* A view grows, or it begins anew; nothing shown is ever taken back, and  *)
(* nothing is put in behind it.                                            *)
(***************************************************************************)
EXTENDS Naturals, Sequences

CONSTANTS Players, Tabs, Who

VARIABLES to,    \* to[n]: the players the n-th thing was for
          shown, \* shown[t]: the numbers of the things a client was shown
          from   \* from[t]: where its view began

vars == <<to, shown, from>>

For(p, a, b) == {n \in DOMAIN to : a < n /\ n <= b /\ p \in to[n]}

Init ==
  /\ to = <<>>
  /\ shown = [t \in Tabs |-> {}]
  /\ from = [t \in Tabs |-> 0]

\* The past is not rewritten.
Continues ==
  /\ DOMAIN to \subseteq DOMAIN to'
  /\ \A n \in DOMAIN to : to'[n] = to[n]

\* The next things, up to some point, with none left out.
Grows(t) ==
  /\ from'[t] = from[t]
  /\ shown[t] \subseteq shown'[t]
  /\ \E b \in DOMAIN to : shown'[t] = For(Who[t], from[t], b)

BeginsAnew(t) ==
  /\ shown'[t] = {}
  /\ from'[t] \in {0} \cup DOMAIN to'

Stays(t) == shown'[t] = shown[t] /\ from'[t] = from[t]

Next ==
  /\ Continues
  /\ DOMAIN shown' = Tabs /\ DOMAIN from' = Tabs
  /\ \A t \in Tabs : Stays(t) \/ Grows(t) \/ BeginsAnew(t)

Spec == Init /\ [][Next]_vars
=============================================================================
