------------------------------- MODULE MCSeed -------------------------------
(***************************************************************************)
(* Small worlds: one map of many and a plain quest, a plain map and one    *)
(* quest of many, or plain both and any files.                             *)
(***************************************************************************)
EXTENDS Seed, TLC

CONSTANTS home, glade, isle, ford, one, two, three

Plain ==
  [files     |-> <<{home, glade, isle, ford}>>,
   start     |-> home, begin |-> {home}, shrine |-> home,
   exits     |-> {<<home, glade>>, <<glade, home>>}, oneWay |-> {}, cutOff |-> {},
   from      |-> glade, to |-> home, strand |-> NoRoom, path |-> {ford},
   teleports |-> {}, maroons |-> {isle},
   first     |-> one, then |-> one :> Done]

Walks == {<<home, glade>>, <<glade, home>>, <<glade, isle>>, <<isle, glade>>, <<isle, home>>}

Maps ==
  {[Plain EXCEPT !.exits = exits, !.oneWay = oneWay, !.to = to, !.strand = strand, !.teleports = teleports,
                 !.maroons = maroons, !.cutOff = cutOff, !.shrine = shrine, !.begin = begin] :
     exits \in SUBSET Walks, oneWay \in {{}, {<<glade, isle>>, <<isle, home>>}},
     to \in {home, isle}, strand \in {NoRoom, isle, ford}, teleports \in {{}, {isle}, {ford}},
     maroons \in {{}, {isle}}, cutOff \in {{}, {isle}}, shrine \in {home, isle}, begin \in {{home}, {glade}}}

Quests ==
  {[Plain EXCEPT !.then = f] :
     f \in [{one, two} -> {one, two, three, Done}] \cup [{one, two, three} -> {one, two, three, Done}]}

Files ==
  {[Plain EXCEPT !.files = <<first, zone1, zone2>>] :
     first, zone1, zone2 \in SUBSET {home, glade, isle, ford}}

MCSeeds == Maps \cup Quests \cup Files
=============================================================================
