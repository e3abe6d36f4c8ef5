--------------------------- MODULE DeliveryProofs ---------------------------
(***************************************************************************)
(* Proofs about Delivery, for any players, places, clients, caps and       *)
(* bounds, with streams trimmed at any time: its types; what is shown is   *)
(* shown once; who holds a player and where they are subscribed; that a    *)
(* connection which lost its player has its end ahead of it; that a resume *)
(* leaves no hole; that views are exact; that Delivery implements Hearing. *)
(***************************************************************************)
EXTENDS Delivery, SequenceTheorems, FiniteSetTheorems, TLAPS

-----------------------------------------------------------------------------
(* Events, streams and calls keep to their types. *)

LEMMA EventTypes ==
  ASSUME TypeOK, NEW c \in Channels, NEW p \in Players, NEW s \in Nat,
         NEW a \in SUBSET Channels, NEW b \in SUBSET Channels,
         NEW h \in SUBSET Players
  PROVE  /\ Event(c, h) \in Events
         /\ Here(c) \in Events
         /\ Own(p) \in Events
         /\ Kick(p, s) \in Events
         /\ Subs(p, a, b) \in Events
BY DEF Event, Here, Own, Kick, Subs, Events, Listeners, Channels, NoSession

LEMMA TrimmedType ==
  ASSUME NEW l \in Seq(Events), NEW g \in [Channels -> Nat],
         NEW w, NEW h \in Trimmed(l, g, w)
  PROVE  h \in [Channels -> Nat]
<1>1. PICK D : \E k \in Cuts(l, g, D) :
                 h = [c \in Channels |-> IF c \in D THEN k[c] ELSE g[c]]
  BY DEF Trimmed
<1>2. PICK k \in Cuts(l, g, D) :
                 h = [c \in Channels |-> IF c \in D THEN k[c] ELSE g[c]]
  BY <1>1
<1>3. \A c \in D : k[c] \in Nat
  BY <1>2 DEF Cuts
<1> QED BY <1>2, <1>3

LEMMA EmitType ==
  ASSUME TypeOK, NEW es \in Seq(Events), Emit(es)
  PROVE  /\ log' \in Seq(Events)
         /\ Len(log') = Len(log) + Len(es)
         /\ \A n \in 1..Len(log) : log'[n] = log[n]
         /\ \A i \in 1..Len(es) : log'[Len(log) + i] = es[i]
         /\ gone' \in [Channels -> Nat]
<1>1. log' = log \o es /\ log \in Seq(Events)
  BY DEF Emit, TypeOK
<1>2. log' \in Seq(Events)
  BY <1>1
<1>3. gone' \in [Channels -> Nat]
  BY <1>1, <1>2, TrimmedType DEF Emit, TypeOK
<1> QED BY <1>1, <1>2, <1>3

LEMMA PlaceType ==
  ASSUME NEW p \in Players, NEW r \in Rooms, NEW there
  PROVE  PlaceChannels(p, r, there) \in SUBSET Channels
BY DeliveryAssumption DEF PlaceChannels, Channels, DeliveryAssumption

LEMMA FeedAtType ==
  ASSUME TypeOK, NEW p \in Players, NEW n \in Nat
  PROVE  FeedAt(p, n) \in [Channels -> Nat \cup {Off}]
BY DEF FeedAt, TypeOK, Channels, Off

LEMMA AttachType ==
  ASSUME TypeOK, NEW t \in Tabs, NEW s \in Nat, NEW n \in Nat,
         NEW b \in BOOLEAN, Attach(t, s, n, b)
  PROVE  /\ phase' \in [Tabs -> {"away", "opening", "open"}]
         /\ sid' \in [Tabs -> Nat]
         /\ cursor' \in [Tabs -> Nat]
         /\ feed' \in [Tabs -> [Channels -> Nat \cup {Off}]]
         /\ seen' \in [Tabs -> Nat]
         /\ view' \in [Tabs -> SUBSET Nat]
         /\ start' \in [Tabs -> Nat]
         /\ whole' \in [Tabs -> BOOLEAN]
BY DEF Attach, TypeOK

LEMMA ShowType ==
  ASSUME TypeOK, NEW t \in Tabs, NEW shown \in SUBSET Nat, Show(t, shown)
  PROVE  /\ view' \in [Tabs -> SUBSET Nat]
         /\ seen' \in [Tabs -> Nat]
BY DEF Show, TypeOK

-----------------------------------------------------------------------------
(* One step of each kind keeps the types. *)

LEMMA TypeInit == Init => TypeOK
BY DeliveryAssumption DEF Init, TypeOK, NoFeed, NoSession, Off, DeliveryAssumption, Events

LEMMA TypeTakeOver ==
  ASSUME TypeOK, NEW t \in Tabs, TakeOver(t)
  PROVE  TypeOK'
<1> DEFINE p == Who[t]
           kicked == Append(log, Kick(p, session[p]))
           now == Len(kicked)
           since == IF 0 < seen[t] /\ seen[t] < now THEN seen[t] ELSE now
           written == Append(kicked, Own(p))
           from(g) == IF since < now /\ Lost(kicked, g, p, since) THEN now ELSE since
<1>1. p \in Players /\ p \in Channels /\ issued + 1 \in Nat
  BY DeliveryAssumption DEF DeliveryAssumption, Channels, TypeOK
<1>2. Kick(p, session[p]) \in Events /\ Own(p) \in Events
  BY <1>1, EventTypes DEF TypeOK
<1>3. kicked \in Seq(Events) /\ written \in Seq(Events)
  BY <1>2 DEF TypeOK
<1>4. now \in Nat /\ since \in Nat
  BY <1>3 DEF TypeOK
<1>5. PICK g \in Trimmed(kicked, gone, {p}) :
        /\ gone' \in Trimmed(written, g, {p})
        /\ Attach(t, issued + 1, from(g), from(g) >= entered[p])
  BY DEF TakeOver
<1>6. gone' \in [Channels -> Nat]
  <2>1. g \in [Channels -> Nat]
    BY <1>3, <1>5, TrimmedType DEF TypeOK
  <2> QED BY <1>3, <1>5, <2>1, TrimmedType
<1>7. from(g) \in Nat /\ (from(g) >= entered[p]) \in BOOLEAN
  BY <1>4
<1>8. log' = written
  BY DEF TakeOver
<1>9. /\ issued' \in Nat
      /\ session' \in [Players -> Nat]
      /\ expiring' \in [Players -> BOOLEAN]
      /\ born' \in [Channels -> Nat]
      /\ room' \in [Players -> Rooms] /\ standing' \in SUBSET Players
      /\ subs' \in [Players -> [Channels -> Nat \cup {Off}]]
      /\ greeted' \in [Players -> BOOLEAN]
      /\ entered' \in [Players -> Nat]
      /\ closed' \in SUBSET Nat
  BY <1>1 DEF TakeOver, TypeOK
<1> HIDE DEF from, since, now, written, kicked, p
<1>10. /\ phase' \in [Tabs -> {"away", "opening", "open"}]
       /\ sid' \in [Tabs -> Nat]
       /\ cursor' \in [Tabs -> Nat]
       /\ feed' \in [Tabs -> [Channels -> Nat \cup {Off}]]
       /\ seen' \in [Tabs -> Nat]
       /\ view' \in [Tabs -> SUBSET Nat]
       /\ start' \in [Tabs -> Nat]
       /\ whole' \in [Tabs -> BOOLEAN]
  BY <1>1, <1>5, <1>7, AttachType
<1> QED BY <1>3, <1>6, <1>8, <1>9, <1>10 DEF TypeOK
LEMMA ResubscribedType ==
  ASSUME TypeOK, NEW p \in Players, NEW n \in Nat, NEW a, NEW b
  PROVE  Resubscribed(p, a, b, n) \in [Players -> [Channels -> Nat \cup {Off}]]
BY DEF Resubscribed, TypeOK, Off

LEMMA TypeEnter ==
  ASSUME TypeOK, NEW t \in Tabs, Enter(t)
  PROVE  TypeOK'
<1> DEFINE p == Who[t]
           r == room[p]
           arrival == <<Here(r)>>
           there == IF r \in Waypoints THEN standing \cup {p} ELSE standing
           now == Len(log) + Len(arrival)
           add == PlaceChannels(p, r, there) \cup (IF greeted[p] THEN {} ELSE DefaultChats)
           es == arrival \o <<Subs(p, add, {}), Own(p)>>
<1>1. /\ p \in Players /\ p \in Channels /\ r \in Rooms /\ r \in Channels
      /\ issued + 1 \in Nat
  BY DeliveryAssumption DEF DeliveryAssumption, Channels, TypeOK
<1>2. add \in SUBSET Channels
  BY <1>1, PlaceType, DeliveryAssumption DEF DeliveryAssumption, Channels
<1>3. Here(r) \in Events /\ Subs(p, add, {}) \in Events /\ Own(p) \in Events
  <2> HIDE DEF add, p, r
  <2> QED BY <1>1, <1>2, EventTypes
<1>4. arrival \in Seq(Events) /\ <<Subs(p, add, {}), Own(p)>> \in Seq(Events)
  BY <1>3
<1>5. es \in Seq(Events) /\ now \in Nat
  BY <1>4 DEF TypeOK
<1>6. Emit(es) /\ Attach(t, issued + 1, now, TRUE)
  BY DEF Enter
<1>7. subs' = Resubscribed(p, add, Channels \ Chats, now + 1)
  BY DEF Enter
<1>8. /\ issued' \in Nat
      /\ session' \in [Players -> Nat]
      /\ expiring' \in [Players -> BOOLEAN]
      /\ born' \in [Channels -> Nat]
      /\ room' \in [Players -> Rooms] /\ standing' \in SUBSET Players
      /\ greeted' \in [Players -> BOOLEAN]
      /\ entered' \in [Players -> Nat]
      /\ closed' \in SUBSET Nat
  BY <1>1, <1>5 DEF Enter, TypeOK
<1> HIDE DEF es, add, now, arrival, r, p
<1>9. log' \in Seq(Events) /\ gone' \in [Channels -> Nat]
  BY <1>5, <1>6, EmitType
<1>10. subs' \in [Players -> [Channels -> Nat \cup {Off}]]
  BY <1>1, <1>5, <1>7, ResubscribedType
<1>11. /\ phase' \in [Tabs -> {"away", "opening", "open"}]
       /\ sid' \in [Tabs -> Nat]
       /\ cursor' \in [Tabs -> Nat]
       /\ feed' \in [Tabs -> [Channels -> Nat \cup {Off}]]
       /\ seen' \in [Tabs -> Nat]
       /\ view' \in [Tabs -> SUBSET Nat]
       /\ start' \in [Tabs -> Nat]
       /\ whole' \in [Tabs -> BOOLEAN]
  BY <1>1, <1>5, <1>6, AttachType
<1> QED BY <1>8, <1>9, <1>10, <1>11 DEF TypeOK

LEMMA TypeOpen ==
  ASSUME TypeOK, NEW t \in Tabs, Open(t)
  PROVE  TypeOK'
<1>1. Who[t] \in Players /\ cursor[t] \in Nat
  BY DeliveryAssumption DEF DeliveryAssumption, TypeOK
<1>2. FeedAt(Who[t], cursor[t]) \in [Channels -> Nat \cup {Off}]
  BY <1>1, FeedAtType
<1>3. feed' \in [Tabs -> [Channels -> Nat \cup {Off}]]
  BY <1>2 DEF Open, TypeOK
<1>4. phase' \in [Tabs -> {"away", "opening", "open"}] /\ whole' \in [Tabs -> BOOLEAN]
  BY DEF Open, TypeOK
<1> QED BY <1>3, <1>4 DEF Open, TypeOK, worldVars

LEMMA BatchType ==
  ASSUME TypeOK, NEW t \in Tabs, NEW n \in DOMAIN log
  PROVE  /\ n \in Nat
         /\ Batch(t, n) \in SUBSET Nat
         /\ FeedAfter(t, n) \in [Channels -> Nat \cup {Off}]
<1>1. n \in 1..Len(log) /\ log[n] \in Events
  BY DEF TypeOK
<1>2. Batch(t, n) \in SUBSET Nat
  BY DEF Batch, Waiting, TypeOK
<1>3. FeedAfter(t, n) \in [Channels -> Nat \cup {Off}]
  BY <1>1 DEF FeedAfter, TypeOK, Off
<1> QED BY <1>1, <1>2, <1>3

LEMMA TypeRead ==
  ASSUME TypeOK, NEW t \in Tabs, Read(t)
  PROVE  TypeOK'
<1>1. PICK n \in DOMAIN log :
        /\ Show(t, Batch(t, n))
        /\ cursor' = [cursor EXCEPT ![t] = n]
        /\ \/ /\ phase' = [phase EXCEPT ![t] = "away"]
              /\ feed' = [feed EXCEPT ![t] = NoFeed]
           \/ /\ phase' = phase
              /\ feed' = [feed EXCEPT ![t] = FeedAfter(t, n)]
  BY DEF Read
<1>2. view' \in [Tabs -> SUBSET Nat] /\ seen' \in [Tabs -> Nat]
  BY <1>1, BatchType, ShowType
<1>3. cursor' \in [Tabs -> Nat]
  BY <1>1, BatchType DEF TypeOK
<1>4. /\ NoFeed \in [Channels -> Nat \cup {Off}]
      /\ FeedAfter(t, n) \in [Channels -> Nat \cup {Off}]
  BY BatchType DEF NoFeed
<1>5. feed' \in [Tabs -> [Channels -> Nat \cup {Off}]]
  BY <1>1, <1>4 DEF TypeOK
<1>6. phase' \in [Tabs -> {"away", "opening", "open"}]
  BY <1>1 DEF TypeOK
<1> QED BY <1>2, <1>3, <1>5, <1>6 DEF Read, TypeOK, worldVars

LEMMA TypeBreakOff ==
  ASSUME TypeOK, NEW t \in Tabs, BreakOff(t)
  PROVE  TypeOK'
<1>1. PICK n \in DOMAIN log : \E k \in Batch(t, n) : Show(t, {m \in Batch(t, n) : m < k})
  BY DEF BreakOff
<1>2. view' \in [Tabs -> SUBSET Nat] /\ seen' \in [Tabs -> Nat]
  BY <1>1, BatchType, ShowType
<1>3. /\ phase' \in [Tabs -> {"away", "opening", "open"}]
      /\ feed' \in [Tabs -> [Channels -> Nat \cup {Off}]]
  BY DEF BreakOff, TypeOK, NoFeed
<1> QED BY <1>2, <1>3 DEF BreakOff, TypeOK, worldVars

LEMMA TypeDrop ==
  ASSUME TypeOK, NEW t \in Tabs, Drop(t)
  PROVE  TypeOK'
BY DEF Drop, TypeOK, worldVars, NoFeed
\* A call that writes events and changes what a player is subscribed to.
LEMMA TypeLeaveWorld ==
  ASSUME TypeOK, NEW p \in Players, LeaveWorld(p), closed' \in SUBSET Nat
  PROVE  TypeOK'
<1>1. room[p] \in Channels /\ session[p] \in Nat
  BY DEF TypeOK, Channels
<1>2. <<Here(room[p]), Kick(p, session[p])>> \in Seq(Events)
  BY <1>1, EventTypes, SMTT(30)
<1>3. log' \in Seq(Events) /\ gone' \in [Channels -> Nat]
  BY <1>2, EmitType DEF LeaveWorld
<1>4. /\ subs' \in [Players -> [Channels -> Nat \cup {Off}]]
      /\ session' \in [Players -> Nat]
      /\ expiring' \in [Players -> BOOLEAN]
  BY DEF LeaveWorld, TypeOK, NoSession, Off
<1> QED BY <1>3, <1>4 DEF LeaveWorld, TypeOK, clientVars

LEMMA TypeQuit ==
  ASSUME TypeOK, NEW t \in Tabs, Quit(t)
  PROVE  TypeOK'
<1>1. closed' \in SUBSET Nat /\ Who[t] \in Players
  <2>1. closed \in SUBSET Nat /\ sid[t] \in Nat
    BY DEF TypeOK
  <2>2. closed' = closed \cup {sid[t]}
    BY DEF Quit
  <2>3. Who[t] \in Players
    BY DeliveryAssumption DEF DeliveryAssumption
  <2> QED BY <2>1, <2>2, <2>3
<1>2. CASE LeaveWorld(Who[t])
  BY <1>1, <1>2, TypeLeaveWorld
<1>3. CASE UNCHANGED <<worldVars, clientVars, entered>>
  BY <1>1, <1>3 DEF TypeOK, worldVars, clientVars
<1> QED BY <1>2, <1>3 DEF Quit

LEMMA TypeReap ==
  ASSUME TypeOK, NEW p \in Players, Reap(p)
  PROVE  TypeOK'
<1>1. closed \in SUBSET Nat /\ session[p] \in Nat
  BY DEF TypeOK
<1>2. closed' = closed \cup {session[p]}
  BY DEF Reap
<1>3. closed' \in SUBSET Nat
  BY <1>1, <1>2
<1> QED BY <1>3, TypeLeaveWorld DEF Reap

LEMMA TypeExpire ==
  ASSUME TypeOK, NEW p \in Players, Expire(p)
  PROVE  TypeOK'
<1>1. Len(log) \in Nat
  BY DEF TypeOK
<1> QED BY <1>1 DEF Expire, TypeOK, clientVars

LEMMA TypeRelocate ==
  ASSUME TypeOK, NEW p \in Players, NEW d \in Rooms, Relocate(p, d)
  PROVE  TypeOK'
<1> DEFINE r == room[p]
           leave == IF r \in Waypoints /\ p \notin standing THEN <<>> ELSE <<Here(r)>>
           arrive == IF d \in Waypoints THEN <<>> ELSE <<Here(d)>>
           there == standing \ {p}
           add == PlaceChannels(p, d, there) \ PlaceChannels(p, r, standing)
           remove == PlaceChannels(p, r, standing) \ PlaceChannels(p, d, there)
           es == leave \o arrive \o <<Subs(p, add, remove), Own(p)>>
           n == Len(log) + Len(leave) + Len(arrive) + 1
<1>1. r \in Rooms /\ r \in Channels /\ d \in Channels /\ p \in Channels
  BY DEF TypeOK, Channels
<1>2. add \in SUBSET Channels /\ remove \in SUBSET Channels
  BY <1>1, PlaceType
<1>3. /\ Here(r) \in Events /\ Here(d) \in Events
      /\ Subs(p, add, remove) \in Events /\ Own(p) \in Events
  <2> HIDE DEF add, remove, r
  <2> QED BY <1>1, <1>2, EventTypes
<1>4. /\ leave \in Seq(Events) /\ arrive \in Seq(Events)
      /\ <<Subs(p, add, remove), Own(p)>> \in Seq(Events)
  BY <1>3
<1>5. es \in Seq(Events) /\ n \in Nat
  <2> HIDE DEF leave, arrive, add, remove, r
  <2>1. leave \o arrive \in Seq(Events)
    BY <1>4
  <2>2. es \in Seq(Events)
    BY <1>4, <2>1
  <2>3. Len(log) \in Nat /\ Len(leave) \in Nat /\ Len(arrive) \in Nat
    BY <1>4 DEF TypeOK
  <2> QED BY <2>2, <2>3
<1>6. Emit(es) /\ subs' = Resubscribed(p, add, remove, n)
  BY DEF Relocate
<1>7. room' \in [Players -> Rooms] /\ standing' \in SUBSET Players
  BY DEF Relocate, TypeOK
<1> HIDE DEF es, n, leave, arrive, add, remove, r
<1>8. log' \in Seq(Events) /\ gone' \in [Channels -> Nat]
  BY <1>5, <1>6, EmitType
<1>9. subs' \in [Players -> [Channels -> Nat \cup {Off}]]
  BY <1>5, <1>6, ResubscribedType
<1> QED BY <1>7, <1>8, <1>9 DEF Relocate, TypeOK, clientVars

LEMMA TypeJoin ==
  ASSUME TypeOK, NEW p \in Players, NEW ch \in Chats, Join(p, ch)
  PROVE  TypeOK'
<1>1. ch \in Channels /\ {ch} \in SUBSET Channels /\ {} \in SUBSET Channels
  BY DEF Channels
<1>2. Listeners(ch) \cup {p} \in SUBSET Players
  BY DEF Listeners
<1>3. <<Subs(p, {ch}, {}), Event(ch, Listeners(ch) \cup {p})>> \in Seq(Events)
  BY <1>1, <1>2, EventTypes
<1>4. log' \in Seq(Events) /\ gone' \in [Channels -> Nat]
  BY <1>3, EmitType DEF Join
<1>5. Len(log) + 1 \in Nat
  BY DEF TypeOK
<1>6. subs' \in [Players -> [Channels -> Nat \cup {Off}]]
  BY <1>5, ResubscribedType DEF Join
<1> QED BY <1>4, <1>6 DEF Join, TypeOK, clientVars

LEMMA TypeLeave ==
  ASSUME TypeOK, NEW p \in Players, NEW ch \in Chats, Leave(p, ch)
  PROVE  TypeOK'
<1>1. ch \in Channels /\ {ch} \in SUBSET Channels /\ {} \in SUBSET Channels
  BY DEF Channels
<1>2. <<Here(ch), Subs(p, {}, {ch})>> \in Seq(Events)
  BY <1>1, EventTypes
<1>3. log' \in Seq(Events) /\ gone' \in [Channels -> Nat]
  BY <1>2, EmitType DEF Leave
<1>4. Len(log) + 2 \in Nat
  BY DEF TypeOK
<1>5. subs' \in [Players -> [Channels -> Nat \cup {Off}]]
  BY <1>4, ResubscribedType DEF Leave
<1> QED BY <1>3, <1>5 DEF Leave, TypeOK, clientVars

LEMMA TypeQuiet ==
  ASSUME TypeOK, NEW es \in Seq(Events), Emit(es), UNCHANGED quiet
  PROVE  TypeOK'
BY EmitType DEF TypeOK, quiet, clientVars

LEMMA TypeSpeech ==
  ASSUME TypeOK, NEW p \in Players
  PROVE  /\ \A ch \in Chats : Chat(p, ch) => TypeOK'
         /\ \A q \in Players : Tell(p, q) => TypeOK'
<1>1. ASSUME NEW ch \in Chats, Chat(p, ch) PROVE TypeOK'
  <2>1. <<Here(ch)>> \in Seq(Events)
    BY EventTypes DEF Channels
  <2> QED BY <1>1, <2>1, TypeQuiet DEF Chat
<1>2. ASSUME NEW q \in Players, Tell(p, q) PROVE TypeOK'
  <2>1. <<Own(q), Own(p)>> \in Seq(Events)
    <3>1. Own(q) \in Events /\ Own(p) \in Events
      BY DEF Own, Event, Events, Channels, NoSession
    <3> QED BY <3>1
  <2> QED BY <1>2, <2>1, TypeQuiet DEF Tell
<1> QED BY <1>1, <1>2

LEMMA TypeHappen ==
  ASSUME TypeOK, NEW c \in Ambient, Happen(c)
  PROVE  TypeOK'
<1>1. c \in Channels
  BY DeliveryAssumption DEF DeliveryAssumption, Channels
<1>2. <<Here(c)>> \in Seq(Events)
  BY <1>1 DEF Here, Event, Events, Listeners, NoSession
<1> QED BY <1>2, TypeQuiet DEF Happen

LEMMA TypeNext == TypeOK /\ [Next]_vars => TypeOK'
<1> SUFFICES ASSUME TypeOK, [Next]_vars PROVE TypeOK'
  OBVIOUS
<1>1. ASSUME NEW t \in Tabs, ClientStep(t) PROVE TypeOK'
  BY <1>1, TypeEnter, TypeTakeOver, TypeOpen, TypeRead, TypeBreakOff, TypeDrop, TypeQuit
     DEF ClientStep
<1>2. ASSUME NEW p \in Players, PlayerStep(p) PROVE TypeOK'
  BY <1>2, TypeReap, TypeExpire, TypeRelocate, TypeJoin, TypeLeave, TypeSpeech
     DEF PlayerStep
<1>3. CASE UNCHANGED vars
  BY <1>3 DEF TypeOK, vars, worldVars, clientVars
<1> QED BY <1>1, <1>2, <1>3, TypeHappen DEF Next

\* Every state of the system has its variables in their types: the sequence
\* and the streams, what connect and disconnect keep for a player, and each
\* connection's feed.
THEOREM Typed == Spec => []TypeOK
<1> QED BY TypeInit, TypeNext, PTL DEF Spec
-----------------------------------------------------------------------------
(* Nothing is shown twice: what was shown is behind the client's lastSeq,   *)
(* and behind the cursor of a connection.                                   *)

ViewBehind ==
  /\ \A t \in Tabs : \A n \in view[t] : n <= seen[t]
  /\ NoRepeats

LEMMA BehindAttach ==
  ASSUME TypeOK, ViewBehind, NEW t \in Tabs, NEW s \in Nat, NEW n \in Nat,
         NEW b, Attach(t, s, n, b)
  PROVE  ViewBehind'
BY DEF ViewBehind, NoRepeats, Attach, TypeOK

\* The events of a batch are ahead of the cursor, and none is past its end.
LEMMA BatchAhead ==
  ASSUME TypeOK, NEW t \in Tabs, NEW n \in DOMAIN log, NEW m \in Batch(t, n)
  PROVE  m \in Nat /\ cursor[t] < m /\ m <= n
BY BatchType DEF Batch, Waiting, TypeOK

LEMMA BehindShow ==
  ASSUME TypeOK, ViewBehind, NEW t \in Tabs, phase[t] # "away",
         NEW n \in DOMAIN log, NEW shown \in SUBSET Batch(t, n), Show(t, shown)
  PROVE  /\ \A u \in Tabs : \A m \in view'[u] : m <= seen'[u]
         /\ \A u \in Tabs \ {t} : view'[u] = view[u]
         /\ \A m \in view'[t] : m \in view[t] \/ m <= n
<1>1. \A m \in shown : m \in Nat /\ cursor[t] < m /\ m <= n
  BY BatchAhead
<1>2. \A m \in view[t] : m \in Nat /\ m <= cursor[t] /\ m <= seen[t]
  BY DEF ViewBehind, NoRepeats, TypeOK
<1>3. view' = [view EXCEPT ![t] = @ \cup shown]
  BY DEF Show
<1>4. \A u \in Tabs \ {t} : view'[u] = view[u] /\ seen'[u] = seen[u]
  BY DEF Show, TypeOK
<1>5. view'[t] = view[t] \cup shown
  BY <1>3 DEF TypeOK
<1>6. ASSUME shown = {} /\ seen' = seen
      PROVE  \A u \in Tabs : \A m \in view'[u] : m <= seen'[u]
  BY <1>2, <1>4, <1>5, <1>6 DEF ViewBehind
<1>7. ASSUME \E k \in shown : (\A m \in shown : m <= k) /\ seen' = [seen EXCEPT ![t] = k]
      PROVE  \A u \in Tabs : \A m \in view'[u] : m <= seen'[u]
  <2>1. PICK k \in shown : (\A m \in shown : m <= k) /\ seen' = [seen EXCEPT ![t] = k]
    BY <1>7
  <2>2. seen'[t] = k /\ cursor[t] < k /\ k \in Nat /\ cursor[t] \in Nat
    BY <1>1, <2>1 DEF TypeOK
  <2>3. \A m \in view[t] : m <= k
    BY <1>2, <2>2
  <2>4. \A m \in view'[t] : m <= seen'[t]
    BY <1>5, <2>1, <2>2, <2>3
  <2> QED BY <1>4, <2>4 DEF ViewBehind
<1>8. \A m \in view'[t] : m \in view[t] \/ m <= n
  BY <1>1, <1>5
<1>9. \A u \in Tabs : \A m \in view'[u] : m <= seen'[u]
  BY <1>6, <1>7 DEF Show
<1> QED BY <1>4, <1>8, <1>9

LEMMA BehindRead ==
  ASSUME TypeOK, ViewBehind, NEW t \in Tabs, Read(t)
  PROVE  ViewBehind'
<1>1. PICK n \in DOMAIN log :
        /\ LastOfBatch(t, n)
        /\ Show(t, Batch(t, n))
        /\ cursor' = [cursor EXCEPT ![t] = n]
        /\ \A u \in Tabs \ {t} : phase'[u] = phase[u]
  BY DEF Read, TypeOK
<1>2. phase[t] # "away"
  BY DEF Read
<1>3. n \in Nat /\ cursor[t] < n /\ cursor[t] \in Nat
  BY <1>1, BatchType DEF LastOfBatch, Waiting, TypeOK
<1>4. /\ \A u \in Tabs : \A m \in view'[u] : m <= seen'[u]
      /\ \A u \in Tabs \ {t} : view'[u] = view[u]
      /\ \A m \in view'[t] : m \in view[t] \/ m <= n
  BY <1>1, <1>2, BehindShow
<1>5. \A m \in view'[t] : m <= n
  BY <1>2, <1>3, <1>4 DEF ViewBehind, NoRepeats, TypeOK
<1> QED BY <1>1, <1>4, <1>5 DEF ViewBehind, NoRepeats, TypeOK

LEMMA BehindBreakOff ==
  ASSUME TypeOK, ViewBehind, NEW t \in Tabs, BreakOff(t)
  PROVE  ViewBehind'
<1>1. PICK n \in DOMAIN log : \E k \in Batch(t, n) : Show(t, {m \in Batch(t, n) : m < k})
  BY DEF BreakOff
<1>2. phase[t] # "away" /\ phase' = [phase EXCEPT ![t] = "away"] /\ cursor' = cursor
  BY DEF BreakOff
<1>3. /\ \A u \in Tabs : \A m \in view'[u] : m <= seen'[u]
      /\ \A u \in Tabs \ {t} : view'[u] = view[u]
  BY <1>1, <1>2, BehindShow
<1> QED BY <1>2, <1>3 DEF ViewBehind, NoRepeats, TypeOK

LEMMA TakeOverAttaches ==
  ASSUME TypeOK, NEW t \in Tabs, TakeOver(t)
  PROVE  \E n, b : n \in Nat /\ Attach(t, issued + 1, n, b)
<1> DEFINE kicked == Append(log, Kick(Who[t], session[Who[t]]))
           now == Len(kicked)
           since == IF 0 < seen[t] /\ seen[t] < now THEN seen[t] ELSE now
           from(g) == IF since < now /\ Lost(kicked, g, Who[t], since) THEN now ELSE since
<1>1. PICK g : Attach(t, issued + 1, from(g), from(g) >= entered[Who[t]])
  BY DEF TakeOver
<1>2. Who[t] \in Players
  BY DeliveryAssumption DEF DeliveryAssumption
<1>3. kicked \in Seq(Events)
  <2>1. Kick(Who[t], session[Who[t]]) \in Events
    BY <1>2, EventTypes DEF TypeOK, Channels
  <2> QED BY <2>1 DEF TypeOK
<1>4. from(g) \in Nat
  BY <1>3 DEF TypeOK
<1> DEFINE n == from(g)
           b == n >= entered[Who[t]]
<1>5. n \in Nat /\ Attach(t, issued + 1, n, b)
  BY <1>1, <1>4
<1> HIDE DEF n, b
<1> QED BY <1>5

LEMMA BehindNext == TypeOK /\ ViewBehind /\ [Next]_vars => ViewBehind'
<1> SUFFICES ASSUME TypeOK, ViewBehind, [Next]_vars PROVE ViewBehind'
  OBVIOUS
<1>1. ASSUME NEW t \in Tabs, ClientStep(t) PROVE ViewBehind'
  <2>1. CASE Enter(t)
    <3> DEFINE now == Len(log) + Len(<<Here(room[Who[t]])>>)
    <3>1. now \in Nat /\ issued + 1 \in Nat
      BY DEF TypeOK
    <3>2. Attach(t, issued + 1, now, TRUE)
      BY <2>1 DEF Enter
    <3> QED BY <3>1, <3>2, BehindAttach
  <2>2. CASE TakeOver(t)
    <3>1. PICK n, b : n \in Nat /\ Attach(t, issued + 1, n, b)
      BY <2>2, TakeOverAttaches
    <3> QED BY <3>1, BehindAttach, SMTT(30) DEF TypeOK
  <2>3. CASE Read(t)
    BY <2>3, BehindRead
  <2>4. CASE BreakOff(t)
    BY <2>4, BehindBreakOff
  <2>5. CASE Open(t)
    BY <2>5 DEF Open, ViewBehind, NoRepeats, TypeOK
  <2>6. CASE Drop(t)
    BY <2>6 DEF Drop, ViewBehind, NoRepeats, TypeOK
  <2>7. CASE Quit(t)
    BY <2>7 DEF Quit, LeaveWorld, clientVars, ViewBehind, NoRepeats
  <2> QED BY <1>1, <2>1, <2>2, <2>3, <2>4, <2>5, <2>6, <2>7 DEF ClientStep
<1>2. CASE UNCHANGED clientVars
  BY <1>2 DEF clientVars, ViewBehind, NoRepeats
<1>3. ASSUME NEW p \in Players, PlayerStep(p) PROVE UNCHANGED clientVars
  BY <1>3 DEF PlayerStep, Reap, LeaveWorld, Expire, Relocate, Join, Leave, Chat, Tell, quiet
<1>4. ASSUME NEW c \in Ambient, Happen(c) PROVE UNCHANGED clientVars
  BY <1>4 DEF Happen, quiet
<1>5. CASE UNCHANGED vars
  BY <1>2, <1>5 DEF vars
<1> QED BY <1>1, <1>2, <1>3, <1>4, <1>5 DEF Next

\* Whatever is trimmed, dropped or resumed, no event is shown to a client
\* twice, and none after one that follows it (Feed.read, connect's cursor).
THEOREM ShownOnceInOrder == Spec => []NoRepeats
<1>1. Init => ViewBehind
  BY DEF Init, ViewBehind, NoRepeats
<1>2. ViewBehind => NoRepeats
  BY DEF ViewBehind
<1> QED BY <1>1, <1>2, Typed, BehindNext, PTL DEF Spec

-----------------------------------------------------------------------------
(* Who holds a player, and where they are subscribed. *)

-----------------------------------------------------------------------------
(* The channels of a place *)

LEMMA PlaceIsNotChat ==
  ASSUME NEW p \in Players, NEW r \in Rooms, NEW there
  PROVE  PlaceChannels(p, r, there) \subseteq Channels \ Chats
BY DeliveryAssumption DEF DeliveryAssumption, PlaceChannels, Channels

LEMMA MatchEnter ==
  ASSUME TypeOK, SubsMatchPlace, NEW t \in Tabs, Enter(t)
  PROVE  SubsMatchPlace'
<1> DEFINE p == Who[t]
           r == room[p]
           arrival == <<Here(r)>>
           there == IF r \in Waypoints THEN standing \cup {p} ELSE standing
           now == Len(log) + Len(arrival)
           add == PlaceChannels(p, r, there) \cup (IF greeted[p] THEN {} ELSE DefaultChats)
<1>1. p \in Players /\ r \in Rooms /\ add \cap (Channels \ Chats) = PlaceChannels(p, r, there)
  BY PlaceIsNotChat, DeliveryAssumption DEF DeliveryAssumption, TypeOK
<1>2. now \in Nat /\ issued \in Nat
  BY DEF TypeOK
<1>3. /\ subs' = Resubscribed(p, add, Channels \ Chats, now + 1)
      /\ session' = [session EXCEPT ![p] = issued + 1]
      /\ room' = room /\ standing' = there
  BY DEF Enter
<1>7. \A q \in Players \ {p} : q \in standing' <=> q \in standing
  BY <1>3
<1> HIDE DEF p, r, add, now, there
<1>4. ASSUME NEW c \in Channels \ Chats
      PROVE  subs'[p][c] # Off <=> c \in PlaceChannels(p, r, there)
  BY <1>1, <1>2, <1>3, <1>4 DEF Resubscribed, TypeOK, Off
<1>5. session'[p] # NoSession /\ r = room'[p]
  BY <1>1, <1>2, <1>3 DEF TypeOK, NoSession, r
<1>6. ASSUME NEW q \in Players \ {p}
      PROVE  /\ subs'[q] = subs[q] /\ session'[q] = session[q]
             /\ PlaceChannels(q, room[q], standing') = PlaceChannels(q, room[q], standing)
  BY <1>1, <1>3, <1>6, <1>7 DEF Resubscribed, TypeOK, PlaceChannels
<1> QED BY <1>3, <1>4, <1>5, <1>6 DEF SubsMatchPlace, InWorld

LEMMA MatchLeaveWorld ==
  ASSUME TypeOK, SubsMatchPlace, NEW p \in Players, LeaveWorld(p)
  PROVE  SubsMatchPlace'
<1>1. /\ subs' = [subs EXCEPT ![p] = [c \in Channels |-> IF c \in Chats THEN subs[p][c] ELSE Off]]
      /\ session' = [session EXCEPT ![p] = NoSession]
      /\ room' = room
  BY DEF LeaveWorld
<1>2. \A q \in Players \ {p} :
        /\ InWorld(q)' = InWorld(q) /\ subs'[q] = subs[q]
        /\ PlaceChannels(q, room[q], standing') = PlaceChannels(q, room[q], standing)
  BY <1>1 DEF LeaveWorld, PlaceChannels, InWorld, TypeOK
<1>3. ~InWorld(p)'
  BY <1>1 DEF InWorld, TypeOK
<1> QED BY <1>1, <1>2, <1>3 DEF SubsMatchPlace

LEMMA MatchRelocate ==
  ASSUME TypeOK, SubsMatchPlace, NEW p \in Players, NEW d \in Rooms, Relocate(p, d)
  PROVE  SubsMatchPlace'
<1> DEFINE r == room[p]
           leave == IF r \in Waypoints /\ p \notin standing THEN <<>> ELSE <<Here(r)>>
           arrive == IF d \in Waypoints THEN <<>> ELSE <<Here(d)>>
           there == standing \ {p}
           add == PlaceChannels(p, d, there) \ PlaceChannels(p, r, standing)
           remove == PlaceChannels(p, r, standing) \ PlaceChannels(p, d, there)
           n == Len(log) + Len(leave) + Len(arrive) + 1
<1>1. n \in Nat /\ room[p] \in Rooms
  <2>1. /\ leave = <<>> \/ leave = <<Here(r)>>
        /\ arrive = <<>> \/ arrive = <<Here(d)>>
    OBVIOUS
  <2> HIDE DEF leave, arrive
  <2>2. Len(leave) \in Nat /\ Len(arrive) \in Nat /\ Len(log) \in Nat
    BY <2>1 DEF TypeOK
  <2>3. n \in Nat
    BY <2>2
  <2>4. room[p] \in Rooms
    BY DEF TypeOK
  <2> QED BY <2>3, <2>4
<1>2. /\ subs' = Resubscribed(p, add, remove, n)
      /\ room' = [room EXCEPT ![p] = d]
      /\ session' = session /\ standing' = there
  BY DEF Relocate
<1> HIDE DEF n
<1>3. ASSUME InWorld(p), NEW c \in Channels \ Chats
      PROVE  subs'[p][c] # Off <=> c \in PlaceChannels(p, d, there)
  <2>1. subs'[p][c] = IF c \in add THEN n ELSE IF c \in remove THEN Off ELSE subs[p][c]
    BY <1>2 DEF Resubscribed, TypeOK
  <2>2. subs[p][c] # Off <=> c \in PlaceChannels(p, r, standing)
    BY <1>3 DEF SubsMatchPlace
  <2> QED BY <1>1, <2>1, <2>2 DEF Off
<1>4. ASSUME NEW q \in Players \ {p}
      PROVE  /\ subs'[q] = subs[q] /\ room'[q] = room[q]
             /\ PlaceChannels(q, room[q], there) = PlaceChannels(q, room[q], standing)
  BY <1>2 DEF Resubscribed, TypeOK, PlaceChannels
<1>5. room'[p] = d /\ \A q \in Players : InWorld(q)' = InWorld(q)
  BY <1>2 DEF InWorld, TypeOK
<1>6. standing' = there
  BY <1>2
<1> HIDE DEF there, add, remove, r
<1>7. ASSUME NEW q \in Players, InWorld(q)', NEW c \in Channels \ Chats
      PROVE  subs'[q][c] # Off <=> c \in PlaceChannels(q, room'[q], standing')
  <2>1. InWorld(q)
    BY <1>5, <1>7
  <2>2. CASE q = p
    BY <1>3, <1>5, <1>6, <2>1, <2>2
  <2>3. CASE q # p
    <3>1. subs[q][c] # Off <=> c \in PlaceChannels(q, room[q], standing)
      BY <2>1 DEF SubsMatchPlace
    <3> QED BY <1>4, <1>6, <2>3, <3>1
  <2> QED BY <2>2, <2>3
<1> QED BY <1>7 DEF SubsMatchPlace, InWorld

LEMMA MatchChats ==
  ASSUME TypeOK, SubsMatchPlace, NEW p \in Players, NEW ch \in Chats,
         Join(p, ch) \/ Leave(p, ch)
  PROVE  SubsMatchPlace'
<1>1. PICK n, add, remove :
        /\ add \subseteq Chats
        /\ remove \subseteq Chats
        /\ subs' = Resubscribed(p, add, remove, n)
  <2>1. {ch} \subseteq Chats /\ {} \subseteq Chats
    OBVIOUS
  <2> QED BY <2>1 DEF Join, Leave
<1>2. session' = session /\ room' = room /\ standing' = standing
  BY DEF Join, Leave
<1>3. \A q \in Players : \A c \in Channels \ Chats : subs'[q][c] = subs[q][c]
  BY <1>1 DEF Resubscribed, TypeOK
<1> QED BY <1>2, <1>3 DEF SubsMatchPlace, InWorld

LEMMA MatchNext == TypeOK /\ SubsMatchPlace /\ [Next]_vars => SubsMatchPlace'
<1> SUFFICES ASSUME TypeOK, SubsMatchPlace, [Next]_vars PROVE SubsMatchPlace'
  OBVIOUS
<1> DEFINE same == UNCHANGED <<subs, room, standing>> /\ \A q \in Players : InWorld(q)' = InWorld(q)
<1>1. same => SubsMatchPlace'
  BY DEF SubsMatchPlace
<1>2. ASSUME NEW t \in Tabs, ClientStep(t) PROVE SubsMatchPlace'
  <2>1. Who[t] \in Players
    BY DeliveryAssumption DEF DeliveryAssumption
  <2>2. CASE Enter(t)
    BY <2>2, MatchEnter
  <2>3. CASE TakeOver(t)
    <3>1. \A q \in Players : InWorld(q)' = InWorld(q)
      BY <2>1, <2>3 DEF TakeOver, InWorld, TypeOK, NoSession
    <3> QED BY <1>1, <2>3, <3>1 DEF TakeOver
  <2>4. CASE Quit(t)
    <3>1. CASE LeaveWorld(Who[t])
      BY <2>1, <3>1, MatchLeaveWorld
    <3>2. CASE UNCHANGED worldVars
      BY <1>1, <3>2 DEF worldVars, InWorld
    <3> QED BY <2>4, <3>1, <3>2 DEF Quit
  <2>5. CASE Open(t) \/ Read(t) \/ BreakOff(t) \/ Drop(t)
    <3>1. UNCHANGED worldVars
      BY <2>5 DEF Open, Read, BreakOff, Drop
    <3> QED BY <1>1, <3>1 DEF worldVars, InWorld
  <2> QED BY <1>2, <2>2, <2>3, <2>4, <2>5 DEF ClientStep
<1>3. ASSUME NEW p \in Players, PlayerStep(p) PROVE SubsMatchPlace'
  <2>1. CASE Reap(p)
    BY <2>1, MatchLeaveWorld DEF Reap
  <2>2. CASE Expire(p)
    BY <1>1, <2>2 DEF Expire, InWorld
  <2>3. CASE \E d \in Rooms : Relocate(p, d)
    BY <2>3, MatchRelocate
  <2>4. CASE \E ch \in Chats : Join(p, ch) \/ Leave(p, ch)
    BY <2>4, MatchChats
  <2>5. CASE (\E ch \in Chats : Chat(p, ch)) \/ (\E q \in Players : Tell(p, q))
    BY <1>1, <2>5 DEF Chat, Tell, quiet, InWorld
  <2> QED BY <1>3, <2>1, <2>2, <2>3, <2>4, <2>5 DEF PlayerStep
<1>4. ASSUME NEW c \in Ambient, Happen(c) PROVE SubsMatchPlace'
  BY <1>1, <1>4 DEF Happen, quiet, InWorld
<1>5. CASE UNCHANGED vars
  BY <1>1, <1>5 DEF vars, worldVars, InWorld
<1> QED BY <1>2, <1>3, <1>4, <1>5 DEF Next

\* A player in the world hears the place they are in, whatever moves, joins,
\* takeovers and reaps came before: on the road the ride's own channel, and the
\* waypoint itself just when they stand there, which a rider whose body was
\* taken away does once they are back (place_channels, resubscribe, connect).
THEOREM HearsWhereOneIs == Spec => []SubsMatchPlace
<1>1. Init => SubsMatchPlace
  BY DEF Init, SubsMatchPlace, InWorld, NoFeed
<1> QED BY <1>1, Typed, MatchNext, PTL DEF Spec

-----------------------------------------------------------------------------
(* Session ids are handed out once, and only one that was replaced or given *)
(* up is ever kicked.                                                        *)

Kicked(l) == {l[n].session : n \in {m \in DOMAIN l : l[m].kind = "kick"}}

SessionInv ==
  /\ \A t \in Tabs : sid[t] <= issued /\ (phase[t] # "away" => sid[t] # NoSession)
  /\ \A p \in Players : session[p] <= issued
  /\ \A p, q \in Players : p # q /\ InWorld(p) => session[p] # session[q]
  /\ \A s \in Kicked(log) : 0 < s /\ s <= issued /\ \A p \in Players : session[p] # s

Quiet == {e \in Events : e.kind # "kick"}

LEMMA Appended ==
  ASSUME NEW S, NEW l \in Seq(Events), NEW es \in Seq(S)
  PROVE  \A n \in DOMAIN (l \o es) :
            \/ n \in DOMAIN l /\ (l \o es)[n] = l[n]
            \/ (l \o es)[n] \in S
<1> TAKE n \in DOMAIN (l \o es)
<1>1. /\ DOMAIN l = 1 .. Len(l) /\ DOMAIN es = 1 .. Len(es)
      /\ Len(l) \in Nat /\ Len(es) \in Nat
  OBVIOUS
<1>2. n \in 1 .. Len(l) + Len(es)
  BY <1>1
<1>3. CASE n <= Len(l)
  BY <1>1, <1>2, <1>3
<1>4. CASE n > Len(l)
  <2>1. n - Len(l) \in DOMAIN es /\ (l \o es)[n] = es[n - Len(l)]
    BY <1>1, <1>2, <1>4
  <2> QED BY <2>1
<1> QED BY <1>2, <1>3, <1>4

LEMMA KickedQuietly ==
  ASSUME NEW l \in Seq(Events), NEW es \in Seq(Quiet)
  PROVE  Kicked(l \o es) \subseteq Kicked(l)
<1> DEFINE le == l \o es
<1>1. \A n \in DOMAIN le : (n \in DOMAIN l /\ le[n] = l[n]) \/ le[n] \in Quiet
  BY Appended
<1> HIDE DEF le
<1>2. Kicked(le) \subseteq Kicked(l)
  BY <1>1 DEF Kicked, Quiet
<1> QED BY <1>2 DEF le

LEMMA KickedOne ==
  ASSUME NEW l \in Seq(Events), NEW p \in Players, NEW s \in Nat,
         NEW es \in Seq(Quiet \cup {Kick(p, s)})
  PROVE  Kicked(l \o es) \subseteq Kicked(l) \cup {s}
<1> DEFINE le == l \o es
<1>1. \A n \in DOMAIN le :
         (n \in DOMAIN l /\ le[n] = l[n]) \/ le[n] \in Quiet \cup {Kick(p, s)}
  BY Appended
<1>2. Kick(p, s).session = s
  BY DEF Kick
<1> HIDE DEF le
<1>3. Kicked(le) \subseteq Kicked(l) \cup {s}
  BY <1>1, <1>2 DEF Kicked, Quiet
<1> QED BY <1>3 DEF le

LEMMA QuietEvents ==
  ASSUME TypeOK, NEW c \in Channels, NEW p \in Players,
         NEW a \in SUBSET Channels, NEW b \in SUBSET Channels,
         NEW h \in SUBSET Players
  PROVE  /\ Event(c, h) \in Quiet
         /\ Here(c) \in Quiet
         /\ Own(p) \in Quiet
         /\ Subs(p, a, b) \in Quiet
<1>1. /\ Event(c, h) \in Events /\ Here(c) \in Events
      /\ Own(p) \in Events /\ Subs(p, a, b) \in Events
  BY EventTypes
<1> QED BY <1>1 DEF Quiet, Event, Here, Own, Subs

-----------------------------------------------------------------------------
(* A step either hands a player to a new connection, takes a player out of *)
(* the world, or does nothing to who holds whom.                           *)

Takes(t) ==
  /\ issued' = issued + 1
  /\ sid' = [sid EXCEPT ![t] = issued + 1]
  /\ session' = [session EXCEPT ![Who[t]] = issued + 1]
  /\ phase' = [phase EXCEPT ![t] = "opening"]
  /\ closed' = closed
  /\ Kicked(log') \subseteq Kicked(log) \cup ({session[Who[t]]} \ {NoSession})

Gives(p) ==
  /\ InWorld(p)
  /\ session' = [session EXCEPT ![p] = NoSession]
  /\ closed' = closed \cup {session[p]}
  /\ UNCHANGED <<issued, sid, phase>>
  /\ Kicked(log') \subseteq Kicked(log) \cup {session[p]}

Keeps ==
  /\ UNCHANGED <<issued, sid, session>>
  /\ closed \subseteq closed'
  /\ \A t \in Tabs : phase'[t] # "away" => phase[t] # "away"
  /\ Kicked(log') \subseteq Kicked(log)

LEMMA TakesEnter ==
  ASSUME TypeOK, NEW t \in Tabs, Enter(t)
  PROVE  Takes(t)
<1> DEFINE p == Who[t]
           r == room[p]
           arrival == <<Here(r)>>
           there == IF r \in Waypoints THEN standing \cup {p} ELSE standing
           add == PlaceChannels(p, r, there) \cup (IF greeted[p] THEN {} ELSE DefaultChats)
           es == arrival \o <<Subs(p, add, {}), Own(p)>>
<1>1. p \in Players /\ r \in Channels /\ add \in SUBSET Channels /\ {} \in SUBSET Channels
  BY PlaceIsNotChat, DeliveryAssumption DEF DeliveryAssumption, TypeOK, Channels
<1>2. Here(r) \in Quiet /\ Subs(p, add, {}) \in Quiet /\ Own(p) \in Quiet
  <2> HIDE DEF add, p, r
  <2> QED BY <1>1, QuietEvents
<1>3. arrival \in Seq(Quiet) /\ <<Subs(p, add, {}), Own(p)>> \in Seq(Quiet)
  BY <1>2
<1>4. es \in Seq(Quiet)
  BY <1>3, SMTT(30)
<1>5. log' = log \o es
  BY DEF Enter, Emit
<1> HIDE DEF es
<1>6. Kicked(log') \subseteq Kicked(log)
  BY <1>4, <1>5, KickedQuietly DEF TypeOK
<1> QED BY <1>6 DEF Enter, Attach, Takes

LEMMA TakesTakeOver ==
  ASSUME TypeOK, NEW t \in Tabs, TakeOver(t)
  PROVE  Takes(t)
<1> DEFINE p == Who[t]
           s == session[p]
           es == <<Kick(p, s), Own(p)>>
<1>1. p \in Players /\ s \in Nat /\ s # NoSession
  BY DeliveryAssumption DEF DeliveryAssumption, TypeOK, TakeOver, InWorld
<1>2. Own(p) \in Quiet
  BY <1>1, QuietEvents DEF Own, Event, Quiet, Events, NoSession, Channels
<1>3. es \in Seq(Quiet \cup {Kick(p, s)})
  BY <1>2
<1>4. log' = Append(Append(log, Kick(p, s)), Own(p))
  BY DEF TakeOver
<1>5. log' = log \o es
  BY <1>4, SMTT(30) DEF TypeOK
<1> HIDE DEF es, s
<1>6. Kicked(log') \subseteq Kicked(log) \cup {s}
  BY <1>1, <1>3, <1>5, KickedOne DEF TypeOK
<1>7. \E n, b : Attach(t, issued + 1, n, b)
  BY TakeOverAttaches
<1> QED BY <1>1, <1>6, <1>7 DEF TakeOver, Attach, Takes, s

LEMMA GivesLeaveWorld ==
  ASSUME TypeOK, NEW p \in Players, InWorld(p), LeaveWorld(p), closed' = closed \cup {session[p]}
  PROVE  Gives(p)
<1> DEFINE es == <<Here(room[p]), Kick(p, session[p])>>
<1>1. session[p] \in Nat
  BY DEF TypeOK
<1>2. Here(room[p]) \in Quiet
  <2>1. room[p] \in Channels
    BY DEF TypeOK, Channels
  <2>2. Here(room[p]) \in Events
    BY <2>1 DEF Here, Event, Events, Listeners, NoSession
  <2> QED BY <2>2 DEF Quiet, Here, Event
<1>3. es \in Seq(Quiet \cup {Kick(p, session[p])})
  BY <1>2
<1>4. log' = log \o es
  BY DEF LeaveWorld, Emit
<1> HIDE DEF es
<1>5. Kicked(log') \subseteq Kicked(log) \cup {session[p]}
  BY <1>1, <1>3, <1>4, KickedOne DEF TypeOK
<1> QED BY <1>5 DEF LeaveWorld, Gives, clientVars

LEMMA KeepsQuiet ==
  ASSUME TypeOK, NEW es \in Seq(Quiet), Emit(es),
         UNCHANGED <<issued, sid, session, phase, closed>>
  PROVE  Keeps
<1>1. Kicked(log') \subseteq Kicked(log)
  BY KickedQuietly DEF Emit, TypeOK
<1> QED BY <1>1 DEF Keeps

LEMMA KeepsRelocate ==
  ASSUME TypeOK, NEW p \in Players, NEW d \in Rooms, Relocate(p, d)
  PROVE  Keeps
<1> DEFINE r == room[p]
           leave == IF r \in Waypoints /\ p \notin standing THEN <<>> ELSE <<Here(r)>>
           arrive == IF d \in Waypoints THEN <<>> ELSE <<Here(d)>>
           there == standing \ {p}
           add == PlaceChannels(p, d, there) \ PlaceChannels(p, r, standing)
           remove == PlaceChannels(p, r, standing) \ PlaceChannels(p, d, there)
           es == leave \o arrive \o <<Subs(p, add, remove), Own(p)>>
<1>1. /\ r \in Channels /\ d \in Channels /\ p \in Channels
      /\ add \in SUBSET Channels /\ remove \in SUBSET Channels
  BY PlaceIsNotChat DEF TypeOK, Channels
<1>2. /\ Here(r) \in Quiet /\ Here(d) \in Quiet
      /\ Subs(p, add, remove) \in Quiet /\ Own(p) \in Quiet
  <2> HIDE DEF add, remove, r
  <2> QED BY <1>1, QuietEvents
<1>3. leave \in Seq(Quiet) /\ arrive \in Seq(Quiet)
      /\ <<Subs(p, add, remove), Own(p)>> \in Seq(Quiet)
  BY <1>2
<1>4. es \in Seq(Quiet)
  <2> HIDE DEF leave, arrive, add, remove
  <2>1. leave \o arrive \in Seq(Quiet)
    BY <1>3
  <2> QED BY <1>3, <2>1
<1>5. Emit(es) /\ UNCHANGED <<issued, sid, session, phase, closed>>
  BY DEF Relocate, clientVars
<1> HIDE DEF es
<1> QED BY <1>4, <1>5, KeepsQuiet

LEMMA KeepsTalk ==
  ASSUME TypeOK, NEW p \in Players, NEW ch \in Chats,
         Join(p, ch) \/ Leave(p, ch) \/ Chat(p, ch)
  PROVE  Keeps
<1>1. /\ ch \in Channels /\ {ch} \in SUBSET Channels /\ {} \in SUBSET Channels
      /\ Listeners(ch) \cup {p} \in SUBSET Players
  BY DEF Channels, Listeners
<1>2. /\ Here(ch) \in Quiet /\ Event(ch, Listeners(ch) \cup {p}) \in Quiet
      /\ Subs(p, {ch}, {}) \in Quiet /\ Subs(p, {}, {ch}) \in Quiet
  BY <1>1, QuietEvents
<1>3. PICK es \in Seq(Quiet) : Emit(es)
  <2>1. /\ <<Subs(p, {ch}, {}), Event(ch, Listeners(ch) \cup {p})>> \in Seq(Quiet)
        /\ <<Here(ch), Subs(p, {}, {ch})>> \in Seq(Quiet)
        /\ <<Here(ch)>> \in Seq(Quiet)
    BY <1>2
  <2> QED BY <2>1 DEF Join, Leave, Chat
<1>4. UNCHANGED <<issued, sid, session, phase, closed>>
  BY DEF Join, Leave, Chat, quiet, clientVars
<1> QED BY <1>3, <1>4, KeepsQuiet

LEMMA KeepsTell ==
  ASSUME TypeOK, NEW p \in Players, NEW q \in Players, Tell(p, q)
  PROVE  Keeps
<1>1. Own(p) \in Quiet /\ Own(q) \in Quiet
  BY DEF Own, Event, Quiet, Events, NoSession, Channels
<1>2. <<Own(q), Own(p)>> \in Seq(Quiet) /\ Emit(<<Own(q), Own(p)>>)
  BY <1>1 DEF Tell
<1> QED BY <1>2, KeepsQuiet DEF Tell, quiet, clientVars

LEMMA KeepsHappen ==
  ASSUME TypeOK, NEW c \in Ambient, Happen(c)
  PROVE  Keeps
<1>1. c \in Channels
  BY DeliveryAssumption DEF DeliveryAssumption, Channels
<1>2. Here(c) \in Quiet
  BY <1>1 DEF Here, Event, Events, Listeners, NoSession, Quiet
<1>3. <<Here(c)>> \in Seq(Quiet) /\ Emit(<<Here(c)>>)
  BY <1>2 DEF Happen
<1> QED BY <1>3, KeepsQuiet DEF Happen, quiet, clientVars

LEMMA EachStep ==
  ASSUME TypeOK, SessionInv, [Next]_vars
  PROVE  \/ \E t \in Tabs : phase[t] = "away" /\ Takes(t)
         \/ \E p \in Players : Gives(p)
         \/ Keeps
<1>1. ASSUME NEW t \in Tabs, ClientStep(t)
      PROVE  \/ phase[t] = "away" /\ Takes(t)
             \/ \E p \in Players : Gives(p)
             \/ Keeps
  <2>1. Who[t] \in Players
    BY DeliveryAssumption DEF DeliveryAssumption
  <2>2. CASE Enter(t)
    BY <2>2, TakesEnter DEF Enter
  <2>3. CASE TakeOver(t)
    BY <2>3, TakesTakeOver DEF TakeOver
  <2>4. CASE Quit(t) /\ Holds(t)
    <3>1. InWorld(Who[t]) /\ closed' = closed \cup {session[Who[t]]} /\ LeaveWorld(Who[t])
      BY <2>4 DEF Quit, Holds, SessionInv, InWorld
    <3> QED BY <2>1, <3>1, GivesLeaveWorld
  <2>5. CASE Quit(t) /\ ~Holds(t)
    BY <2>5 DEF Quit, Keeps, worldVars, clientVars
  <2>6. CASE Open(t) \/ Read(t) \/ BreakOff(t) \/ Drop(t)
    BY <2>6 DEF Open, Read, BreakOff, Drop, Keeps, worldVars, TypeOK
  <2> QED BY <1>1, <2>2, <2>3, <2>4, <2>5, <2>6 DEF ClientStep
<1>2. ASSUME NEW p \in Players, PlayerStep(p) PROVE (\E q \in Players : Gives(q)) \/ Keeps
  <2>1. CASE Reap(p)
    BY <2>1, GivesLeaveWorld DEF Reap
  <2>2. CASE Expire(p)
    BY <2>2 DEF Expire, Keeps, clientVars
  <2>3. CASE \E d \in Rooms : Relocate(p, d)
    BY <2>3, KeepsRelocate
  <2>4. CASE \E ch \in Chats : Join(p, ch) \/ Leave(p, ch) \/ Chat(p, ch)
    BY <2>4, KeepsTalk
  <2>5. CASE \E q \in Players : Tell(p, q)
    BY <2>5, KeepsTell
  <2> QED BY <1>2, <2>1, <2>2, <2>3, <2>4, <2>5 DEF PlayerStep
<1>3. ASSUME NEW c \in Ambient, Happen(c) PROVE Keeps
  BY <1>3, KeepsHappen
<1>4. CASE UNCHANGED vars
  BY <1>4 DEF vars, worldVars, clientVars, Keeps
<1> QED BY <1>1, <1>2, <1>3, <1>4 DEF Next

-----------------------------------------------------------------------------
(* What follows for who holds a player *)

LEMMA KickedType ==
  ASSUME TypeOK, NEW s \in Kicked(log)
  PROVE  s \in Nat
<1>1. PICK n \in DOMAIN log : s = log[n].session
  BY DEF Kicked
<1>2. log[n] \in Events
  BY <1>1 DEF TypeOK
<1> QED BY <1>1, <1>2 DEF Events

LEMMA SessionTakes ==
  ASSUME TypeOK, SessionInv, NEW t \in Tabs, Takes(t)
  PROVE  SessionInv'
<1>1. Who[t] \in Players /\ issued \in Nat
  BY DeliveryAssumption DEF DeliveryAssumption, TypeOK
<1>2. \A u \in Tabs : sid'[u] <= issued' /\ (phase'[u] # "away" => sid'[u] # NoSession)
  BY <1>1 DEF Takes, SessionInv, TypeOK, NoSession
<1>3. \A p \in Players : session'[p] <= issued'
  BY <1>1 DEF Takes, SessionInv, TypeOK
<1>4. \A p, q \in Players : p # q /\ session'[p] # NoSession => session'[p] # session'[q]
  BY <1>1 DEF Takes, SessionInv, TypeOK, InWorld, NoSession
<1>5. \A s \in Kicked(log') : 0 < s /\ s <= issued' /\ \A p \in Players : session'[p] # s
  <2> TAKE s \in Kicked(log')
  <2>1. CASE s \in Kicked(log)
    <3>1. 0 < s /\ s <= issued /\ \A p \in Players : session[p] # s
      BY <2>1 DEF SessionInv
    <3>2. s \in Nat /\ session' = [session EXCEPT ![Who[t]] = issued + 1] /\ issued' = issued + 1
      BY <2>1, KickedType DEF Takes
    <3>3. s <= issued + 1 /\ s # issued + 1
      BY <1>1, <3>1, <3>2
    <3> QED BY <3>1, <3>2, <3>3 DEF TypeOK
  <2>2. CASE s = session[Who[t]] /\ s # NoSession
    BY <1>1, <2>2 DEF Takes, SessionInv, TypeOK, InWorld, NoSession
  <2> QED BY <2>1, <2>2 DEF Takes
<1> QED BY <1>2, <1>3, <1>4, <1>5 DEF SessionInv, InWorld

LEMMA SessionGives ==
  ASSUME TypeOK, SessionInv, NEW p \in Players, Gives(p)
  PROVE  SessionInv'
<1>1. \A q, r \in Players : q # r /\ session'[q] # NoSession => session'[q] # session'[r]
  BY DEF Gives, SessionInv, TypeOK, InWorld, NoSession
<1>2. \A s \in Kicked(log') : 0 < s /\ s <= issued' /\ \A q \in Players : session'[q] # s
  <2> TAKE s \in Kicked(log')
  <2>1. CASE s \in Kicked(log)
    BY <2>1 DEF Gives, SessionInv, TypeOK, NoSession
  <2>2. CASE s = session[p]
    BY <2>2 DEF Gives, SessionInv, TypeOK, InWorld, NoSession
  <2> QED BY <2>1, <2>2 DEF Gives
<1> QED BY <1>1, <1>2 DEF Gives, SessionInv, InWorld, TypeOK, NoSession

LEMMA SessionNext == TypeOK /\ SessionInv /\ [Next]_vars => SessionInv'
<1> SUFFICES ASSUME TypeOK, SessionInv, [Next]_vars PROVE SessionInv'
  OBVIOUS
<1>1. CASE Keeps
  BY <1>1 DEF Keeps, SessionInv, InWorld
<1> QED BY <1>1, EachStep, SessionTakes, SessionGives

LEMMA SessionAlways == Spec => [](TypeOK /\ SessionInv)
<1>1. Init => SessionInv
  BY DEF Init, SessionInv, InWorld, Kicked, NoSession
<1> QED BY <1>1, Typed, SessionNext, PTL DEF Spec

\* Whatever order connects, takeovers, quits and reaps come in, no kick ever
\* emitted names the connection that holds its player (connect, disconnect).
THEOREM HolderStands == Spec => []HolderIsNotEnded
<1>1. TypeOK /\ SessionInv => HolderIsNotEnded
  BY DeliveryAssumption
     DEF DeliveryAssumption, SessionInv, HolderIsNotEnded, Current, KickFor, Kicked
<1> QED BY <1>1, SessionAlways, PTL

LEMMA StaysNext ==
  TypeOK /\ SessionInv /\ StaysUntilAsked /\ [Next]_vars => StaysUntilAsked'
<1> SUFFICES ASSUME TypeOK, SessionInv, StaysUntilAsked, [Next]_vars,
                    NEW u \in Tabs, Newest(u)', sid'[u] \notin closed'
             PROVE  session'[Who[u]] = sid'[u]
  BY DEF StaysUntilAsked, Current
<1>1. \A t \in Tabs : Who[t] \in Players
  BY DeliveryAssumption DEF DeliveryAssumption
<1>2. ASSUME NEW t \in Tabs, Takes(t) PROVE session'[Who[u]] = sid'[u]
  <2>1. CASE u = t
    BY <1>1, <1>2, <2>1 DEF Takes, TypeOK
  <2>2. CASE u # t /\ Who[u] = Who[t]
    <3>1. sid'[t] = issued + 1 /\ sid'[u] = sid[u] /\ sid[u] <= issued
      BY <1>2, <2>2 DEF Takes, SessionInv, TypeOK
    <3>2. sid'[t] <= sid'[u]
      BY <2>2 DEF Newest
    <3>3. issued \in Nat /\ sid[u] \in Nat
      BY DEF TypeOK
    <3>4. ~(issued + 1 <= sid[u])
      BY <3>1, <3>3
    <3> QED BY <3>1, <3>2, <3>4
  <2>3. CASE Who[u] # Who[t]
    <3>1. sid'[u] = sid[u] /\ session'[Who[u]] = session[Who[u]]
      BY <1>1, <1>2, <2>3 DEF Takes, TypeOK
    <3>2. \A v \in Tabs : Who[v] = Who[u] => sid'[v] = sid[v]
      BY <1>2, <2>3 DEF Takes, TypeOK
    <3>3. Newest(u) /\ sid[u] \notin closed
      BY <1>2, <3>1, <3>2 DEF Newest, Takes
    <3> QED BY <3>1, <3>3 DEF StaysUntilAsked, Current
  <2> QED BY <2>1, <2>2, <2>3
<1>3. ASSUME NEW p \in Players, Gives(p) PROVE session'[Who[u]] = sid'[u]
  <2>1. Newest(u) /\ sid[u] \notin closed /\ sid[u] # session[p]
    BY <1>3 DEF Gives, Newest
  <2>2. session[Who[u]] = sid[u]
    BY <2>1 DEF StaysUntilAsked, Current
  <2> QED BY <1>1, <1>3, <2>1, <2>2 DEF Gives, TypeOK
<1>4. ASSUME Keeps PROVE session'[Who[u]] = sid'[u]
  <2>1. Newest(u) /\ sid[u] \notin closed
    BY <1>4 DEF Keeps, Newest
  <2> QED BY <1>4, <2>1 DEF Keeps, StaysUntilAsked, Current
<1> QED BY <1>2, <1>3, <1>4, EachStep

\* A player is in the world until the newest of their connections asks to
\* leave or is given up, however late an older one quits (disconnect).
THEOREM StaysInTheWorld == Spec => []StaysUntilAsked
<1>1. Init => StaysUntilAsked
  BY DEF Init, StaysUntilAsked, Newest
<1> QED BY <1>1, SessionAlways, StaysNext, PTL DEF Spec

-----------------------------------------------------------------------------
(* The end of a connection that lost its player, as long as no own stream  *)
(* outgrows what is kept of it.                                            *)

\* What is kept of a player's own stream is never exceeded.
Uncut == MaxLog <= CapPlayer

-----------------------------------------------------------------------------
(* Streams only grow *)

LEMMA StreamUncut ==
  ASSUME NEW p \in Channels, MaxLog <= Cap(p), NEW l \in Seq(Events), Len(l) <= MaxLog,
         NEW g \in [Channels -> Nat], NEW w, NEW h \in Trimmed(l, g, w)
  PROVE  h[p] = g[p]
<1>1. Cap(p) \in Nat
  BY DeliveryAssumption DEF DeliveryAssumption, Cap
<1>2. /\ Len(l) \in Nat /\ DOMAIN l = 1 .. Len(l)
      /\ MaxLog \in Nat
  BY DeliveryAssumption DEF DeliveryAssumption
<1>3. /\ IsFiniteSet(1 .. Len(l)) /\ Cardinality(1 .. Len(l)) = Len(l)
  <2> DEFINE n == Len(l)
  <2>1. 1 \in Int /\ n \in Int
    BY <1>2
  <2> HIDE DEF n
  <2>2. IsFiniteSet(1 .. n) /\ Cardinality(1 .. n) = IF 1 > n THEN 0 ELSE n - 1 + 1
    BY <2>1, FS_Interval
  <2>3. n \in Nat
    BY <1>2 DEF n
  <2>4. Cardinality(1 .. n) = n
    BY <2>2, <2>3
  <2> QED BY <2>2, <2>4 DEF n
<1>4. Entries(l, p, g[p]) \in SUBSET (1 .. Len(l))
  BY <1>2 DEF Entries
<1>5. /\ Cardinality(Entries(l, p, g[p])) \in Nat
      /\ Cardinality(Entries(l, p, g[p])) <= Len(l)
  BY <1>3, <1>4, FS_Subset, FS_CardinalityType
<1>6. ~(Cardinality(Entries(l, p, g[p])) > Cap(p))
  BY <1>1, <1>2, <1>5
<1>7. PICK D \in SUBSET {c \in w : Cardinality(Entries(l, c, g[c])) > Cap(c)} :
        \E k \in Cuts(l, g, D) : h = [c \in Channels |-> IF c \in D THEN k[c] ELSE g[c]]
  BY DEF Trimmed
<1>8. p \notin D
  BY <1>6, <1>7
<1> QED BY <1>7, <1>8

LEMMA OwnStreamUncut ==
  ASSUME Uncut, NEW l \in Seq(Events), Len(l) <= MaxLog,
         NEW g \in [Channels -> Nat], NEW w, NEW h \in Trimmed(l, g, w),
         NEW p \in Players
  PROVE  h[p] = g[p]
<1>1. p \in Channels /\ MaxLog <= Cap(p)
  BY DEF Channels, Cap, Uncut
<1> QED BY <1>1, StreamUncut

\* Nothing in the log changes, what is added takes no player's own stream from
\* them or gives it to another, and what a feed acts on is for no one to see
\* and in a player's own stream.
Keep(l, m) ==
  /\ Len(l) <= Len(m) /\ Len(m) \in Nat
  /\ DOMAIN m \subseteq Nat
  /\ \A n \in DOMAIN l : n \in DOMAIN m /\ m[n] = l[n]
  /\ \A n \in DOMAIN m \ DOMAIN l : /\ m[n].remove \cap Players = {}
                                    /\ m[n].add \cap Players \subseteq {m[n].ch}
                                    /\ \/ m[n].kind = "event"
                                       \/ m[n].ch \in Players /\ m[n].to = {}

Sparing == {e \in Events : /\ e.remove \cap Players = {}
                           /\ e.add \cap Players \subseteq {e.ch}
                           /\ e.kind = "event" \/ (e.ch \in Players /\ e.to = {})}

LEMMA KeepAppended ==
  ASSUME NEW l \in Seq(Events), NEW es \in Seq(Sparing)
  PROVE  Keep(l, l \o es) /\ l \o es \in Seq(Events)
<1>1. es \in Seq(Events)
  BY DEF Sparing
<1>2. /\ Len(l \o es) = Len(l) + Len(es) /\ DOMAIN (l \o es) = 1 .. Len(l) + Len(es)
      /\ DOMAIN l = 1 .. Len(l) /\ Len(l) \in Nat /\ Len(es) \in Nat
  OBVIOUS
<1>3. /\ Len(l) <= Len(l \o es)
      /\ \A n \in DOMAIN l : n \in DOMAIN (l \o es) /\ (l \o es)[n] = l[n]
  BY <1>2
<1>4. ASSUME NEW n \in DOMAIN (l \o es) \ DOMAIN l
      PROVE  (l \o es)[n] \in Sparing
  BY Appended
<1> QED BY <1>1, <1>3, <1>4 DEF Keep, Sparing

Spares == Keep(log, log') /\ \A p \in Players : gone'[p] = gone[p]

LEMMA EmitSpares ==
  ASSUME TypeOK, Uncut, NEW es \in Seq(Sparing), Emit(es)
  PROVE  Spares
<1>1. Keep(log, log') /\ log' \in Seq(Events)
  BY KeepAppended DEF Emit, TypeOK
<1>2. PICK w : gone' \in Trimmed(log', gone, w)
  BY DEF Emit
<1>3. Len(log') <= MaxLog
  <2>1. es \in Seq(Events)
    BY DEF Sparing
  <2>2. Len(log') = Len(log) + Len(es)
    BY <2>1, EmitType
  <2>3. Len(log) + Len(es) <= MaxLog
    BY DEF Emit
  <2> QED BY <2>2, <2>3
<1>4. gone \in [Channels -> Nat]
  BY DEF TypeOK
<1>5. \A p \in Players : gone'[p] = gone[p]
  BY <1>1, <1>2, <1>3, <1>4, OwnStreamUncut
<1> QED BY <1>1, <1>5 DEF Spares

LEMMA SparingEvents ==
  ASSUME TypeOK, NEW c \in Channels, NEW p \in Players, NEW s \in Nat,
         NEW a \in SUBSET Channels, a \cap Players \subseteq {p},
         NEW b \in SUBSET (Channels \ Players),
         NEW h \in SUBSET Players
  PROVE  /\ Event(c, h) \in Sparing
         /\ Here(c) \in Sparing
         /\ Own(p) \in Sparing
         /\ Kick(p, s) \in Sparing
         /\ Subs(p, a, b) \in Sparing
<1>1. /\ Event(c, h) \in Events /\ Here(c) \in Events /\ Own(p) \in Events
      /\ Kick(p, s) \in Events /\ Subs(p, a, b) \in Events
  BY EventTypes
<1> QED BY <1>1 DEF Sparing, Event, Here, Own, Kick, Subs

LEMMA PlaceIsNotOthers ==
  ASSUME NEW p \in Players, NEW r \in Rooms, NEW there
  PROVE  PlaceChannels(p, r, there) \cap Players \subseteq {p} /\ DefaultChats \cap Players = {}
BY DeliveryAssumption DEF DeliveryAssumption, PlaceChannels

LEMMA EmitsEnter ==
  ASSUME TypeOK, NEW t \in Tabs, Enter(t)
  PROVE  \E es \in Seq(Sparing) :
           Emit(es) /\ Len(log) <= cursor'[t] /\ cursor'[t] <= Len(log')
<1> DEFINE p == Who[t]
           r == room[p]
           arrival == <<Here(r)>>
           there == IF r \in Waypoints THEN standing \cup {p} ELSE standing
           add == PlaceChannels(p, r, there) \cup (IF greeted[p] THEN {} ELSE DefaultChats)
           es == arrival \o <<Subs(p, add, {}), Own(p)>>
           now == Len(log) + Len(arrival)
<1>1. /\ p \in Players /\ r \in Channels /\ add \in SUBSET Channels
      /\ {} \in SUBSET (Channels \ Players) /\ add \cap Players \subseteq {p}
  BY PlaceIsNotChat, PlaceIsNotOthers, DeliveryAssumption
     DEF DeliveryAssumption, TypeOK, Channels
<1>2. Here(r) \in Sparing /\ Subs(p, add, {}) \in Sparing /\ Own(p) \in Sparing
  <2> HIDE DEF add, p, r
  <2> QED BY <1>1, SparingEvents
<1>3. arrival \in Seq(Sparing) /\ <<Subs(p, add, {}), Own(p)>> \in Seq(Sparing)
  BY <1>2
<1>4. es \in Seq(Sparing) /\ Emit(es)
  BY <1>3 DEF Enter
<1>5. cursor'[t] = now /\ log' = log \o es
  BY DEF Enter, Emit, Attach, TypeOK
<1>6. Len(log) <= now /\ now <= Len(log')
  <2> HIDE DEF arrival
  <2>1. Len(log) \in Nat /\ Len(arrival) \in Nat
    BY <1>3 DEF TypeOK
  <2>2. Len(es) = Len(arrival) + 2
    BY <1>3
  <2>3. Len(log') = Len(log) + Len(es)
    BY <1>4, <1>5 DEF TypeOK
  <2> QED BY <2>1, <2>2, <2>3
<1> HIDE DEF es, now
<1> QED BY <1>4, <1>5, <1>6

LEMMA SparesEnter ==
  ASSUME TypeOK, Uncut, NEW t \in Tabs, Enter(t)
  PROVE  Spares /\ cursor'[t] <= Len(log')
BY EmitsEnter, EmitSpares

\* The end of a connection is added to what its player can read.
Ending(p) ==
  \E n \in DOMAIN log' : /\ n > Len(log)
                         /\ log'[n].ch = p
                         /\ log'[n].kind = "kick"
                         /\ log'[n].session = session[p]

LEMMA SparesTakeOver ==
  ASSUME TypeOK, Uncut, NEW t \in Tabs, TakeOver(t)
  PROVE  Spares /\ cursor'[t] <= Len(log') /\ Ending(Who[t])
<1> DEFINE p == Who[t]
           k == Kick(p, session[p])
           kicked == Append(log, k)
           now == Len(kicked)
           since == IF 0 < seen[t] /\ seen[t] < now THEN seen[t] ELSE now
           written == Append(kicked, Own(p))
           from(g) == IF since < now /\ Lost(kicked, g, p, since) THEN now ELSE since
<1>1. p \in Players /\ p \in Channels /\ session[p] \in Nat
  BY DeliveryAssumption DEF DeliveryAssumption, TypeOK, Channels
<1>2. k \in Sparing /\ Own(p) \in Sparing
  BY <1>1, SparingEvents
<1>3. k \in Events /\ Own(p) \in Events
  BY <1>2 DEF Sparing
<1>4. PICK g \in Trimmed(kicked, gone, {p}) :
        /\ gone' \in Trimmed(written, g, {p})
        /\ cursor' = [cursor EXCEPT ![t] = from(g)]
  BY DEF TakeOver, Attach
<1>5. log' = written /\ Len(written) <= MaxLog
  BY DEF TakeOver
<1> HIDE DEF k
<1>6. /\ kicked \in Seq(Events) /\ written \in Seq(Events)
      /\ Len(kicked) = Len(log) + 1 /\ Len(written) = Len(log) + 2 /\ Len(log) \in Nat
      /\ written = log \o <<k, Own(p)>>
      /\ written[Len(log) + 1] = k
  BY <1>3 DEF TypeOK
<1>7. Keep(log, log')
  <2>1. <<k, Own(p)>> \in Seq(Sparing)
    BY <1>2
  <2> QED BY <1>5, <1>6, <2>1, KeepAppended DEF TypeOK
<1>8. ASSUME NEW q \in Players PROVE gone'[q] = gone[q]
  <2>1. Len(kicked) <= MaxLog
    BY <1>5, <1>6, DeliveryAssumption DEF DeliveryAssumption
  <2>2. gone \in [Channels -> Nat] /\ kicked \in Seq(Events) /\ written \in Seq(Events)
    BY <1>6 DEF TypeOK
  <2> HIDE DEF written, kicked
  <2>3. g \in [Channels -> Nat]
    BY <2>2, TrimmedType
  <2>4. g[q] = gone[q]
    BY <2>1, <2>2, OwnStreamUncut
  <2>5. gone' \in Trimmed(written, g, {p}) /\ Len(written) <= MaxLog
    BY <1>4, <1>5
  <2>6. gone'[q] = g[q]
    BY <2>2, <2>3, <2>5, OwnStreamUncut
  <2> QED BY <2>4, <2>6
<1>9. from(g) <= now /\ now <= Len(log')
  <2>1. now \in Nat /\ since <= now
    BY <1>6 DEF TypeOK
  <2> HIDE DEF now, since
  <2>2. from(g) <= now
    BY <2>1
  <2> QED BY <1>5, <1>6, <2>2 DEF now
<1>10. Ending(p)
  <2>1. k.ch = p /\ k.kind = "kick" /\ k.session = session[p]
    BY DEF k, Kick
  <2>2. Len(log) + 1 \in DOMAIN log' /\ Len(log) + 1 > Len(log)
    BY <1>5, <1>6
  <2> QED BY <1>5, <1>6, <2>1, <2>2 DEF Ending
<1>11. cursor'[t] <= Len(log')
  <2> HIDE DEF from, now
  <2>1. cursor'[t] = from(g)
    BY <1>4 DEF TypeOK
  <2>2. from(g) \in Nat /\ now \in Nat /\ Len(log') \in Nat
    BY <1>5, <1>6 DEF from, now, TypeOK
  <2> QED BY <1>9, <2>1, <2>2
<1> QED BY <1>7, <1>8, <1>10, <1>11 DEF Spares

LEMMA EmitsLeaveWorld ==
  ASSUME TypeOK, NEW p \in Players, LeaveWorld(p)
  PROVE  (\E es \in Seq(Sparing) : Emit(es)) /\ Ending(p)
<1> DEFINE k == Kick(p, session[p])
           es == <<Here(room[p]), k>>
<1>1. room[p] \in Channels /\ session[p] \in Nat
  BY DEF TypeOK, Channels
<1>2. Here(room[p]) \in Sparing /\ k \in Sparing
  <2>1. Here(room[p]) \in Sparing
    BY <1>1 DEF Here, Event, Sparing, Events, Listeners, NoSession
  <2>2. k \in Sparing
    BY <1>1 DEF Kick, Sparing, Events, Channels
  <2> QED BY <2>1, <2>2
<1>3. k.ch = p /\ k.kind = "kick" /\ k.session = session[p]
  BY DEF Kick
<1> HIDE DEF k
<1>4. es \in Seq(Sparing) /\ Emit(es) /\ log' = log \o es
  BY <1>2 DEF LeaveWorld, Emit, k
<1>5. /\ Len(log) + 2 \in DOMAIN log' /\ Len(log) + 2 > Len(log)
      /\ log'[Len(log) + 2] = k
  BY <1>4 DEF TypeOK
<1>6. Ending(p)
  BY <1>3, <1>5 DEF Ending
<1> HIDE DEF es
<1> QED BY <1>4, <1>6

LEMMA SparesLeaveWorld ==
  ASSUME TypeOK, Uncut, NEW p \in Players, LeaveWorld(p)
  PROVE  Spares /\ Ending(p)
BY EmitsLeaveWorld, EmitSpares

LEMMA EmitsRelocate ==
  ASSUME TypeOK, NEW p \in Players, NEW d \in Rooms, Relocate(p, d)
  PROVE  \E es \in Seq(Sparing) : Emit(es)
<1> DEFINE r == room[p]
           leave == IF r \in Waypoints /\ p \notin standing THEN <<>> ELSE <<Here(r)>>
           arrive == IF d \in Waypoints THEN <<>> ELSE <<Here(d)>>
           there == standing \ {p}
           add == PlaceChannels(p, d, there) \ PlaceChannels(p, r, standing)
           remove == PlaceChannels(p, r, standing) \ PlaceChannels(p, d, there)
           es == leave \o arrive \o <<Subs(p, add, remove), Own(p)>>
<1>1. /\ r \in Channels /\ d \in Channels /\ p \in Channels
      /\ add \in SUBSET Channels /\ add \cap Players \subseteq {p}
  BY PlaceIsNotChat, PlaceIsNotOthers DEF TypeOK, Channels
<1>2. remove \in SUBSET (Channels \ Players)
  BY DeliveryAssumption DEF DeliveryAssumption, PlaceChannels, Channels, TypeOK
<1>3. /\ Here(r) \in Sparing /\ Here(d) \in Sparing
      /\ Subs(p, add, remove) \in Sparing /\ Own(p) \in Sparing
  <2> HIDE DEF add, remove, r
  <2> QED BY <1>1, <1>2, SparingEvents
<1>4. leave \in Seq(Sparing) /\ arrive \in Seq(Sparing)
      /\ <<Subs(p, add, remove), Own(p)>> \in Seq(Sparing)
  BY <1>3
<1>5. es \in Seq(Sparing)
  <2> HIDE DEF leave, arrive, add, remove
  <2>1. leave \o arrive \in Seq(Sparing)
    BY <1>4
  <2> QED BY <1>4, <2>1
<1>6. Emit(es)
  BY DEF Relocate
<1> HIDE DEF es
<1> QED BY <1>5, <1>6

LEMMA EmitsTalk ==
  ASSUME TypeOK, NEW p \in Players, NEW ch \in Chats,
         Join(p, ch) \/ Leave(p, ch) \/ Chat(p, ch)
  PROVE  \E es \in Seq(Sparing) : Emit(es)
<1>1. /\ ch \in Channels /\ {ch} \in SUBSET Channels /\ {} \in SUBSET Channels
      /\ {ch} \in SUBSET (Channels \ Players) /\ {} \in SUBSET (Channels \ Players)
      /\ Listeners(ch) \cup {p} \in SUBSET Players
  BY DeliveryAssumption DEF DeliveryAssumption, Channels, Listeners
<1>2. /\ Here(ch) \in Sparing /\ Event(ch, Listeners(ch) \cup {p}) \in Sparing
      /\ Subs(p, {ch}, {}) \in Sparing /\ Subs(p, {}, {ch}) \in Sparing
  BY <1>1, SparingEvents
<1>3. /\ <<Subs(p, {ch}, {}), Event(ch, Listeners(ch) \cup {p})>> \in Seq(Sparing)
      /\ <<Here(ch), Subs(p, {}, {ch})>> \in Seq(Sparing)
      /\ <<Here(ch)>> \in Seq(Sparing)
  BY <1>2
<1> QED BY <1>3 DEF Join, Leave, Chat

LEMMA EmitsTell ==
  ASSUME TypeOK, NEW p \in Players, NEW q \in Players, Tell(p, q)
  PROVE  \E es \in Seq(Sparing) : Emit(es)
<1>1. Own(q) \in Sparing /\ Own(p) \in Sparing
  BY DEF Own, Event, Sparing, Events, NoSession, Channels
<1>2. <<Own(q), Own(p)>> \in Seq(Sparing)
  BY <1>1
<1> QED BY <1>2 DEF Tell

LEMMA EmitsHappen ==
  ASSUME TypeOK, NEW c \in Ambient, Happen(c)
  PROVE  \E es \in Seq(Sparing) : Emit(es)
<1>1. c \in Channels
  BY DeliveryAssumption DEF DeliveryAssumption, Channels
<1>2. Here(c) \in Sparing
  BY <1>1 DEF Here, Event, Sparing, Events, NoSession, Listeners
<1>3. <<Here(c)>> \in Seq(Sparing)
  BY <1>2, SMTT(30)
<1> QED BY <1>3 DEF Happen

-----------------------------------------------------------------------------
(* What a feed reads *)

EndInv ==
  /\ \A t \in Tabs : cursor[t] <= Len(log)
  /\ \A p \in Players : gone[p] <= Len(log)
  /\ \A n \in DOMAIN log : log[n].remove \cap Players = {}
  /\ \A t \in Tabs : phase[t] = "open" => feed[t][Who[t]] \in 0 .. cursor[t]
  /\ EndIsComing

LEMMA OwnFeedOpens ==
  ASSUME TypeOK, NEW t \in Tabs, Open(t)
  PROVE  feed'[t][Who[t]] = 0
<1>1. Who[t] \in Channels
  BY DeliveryAssumption DEF DeliveryAssumption, Channels
<1> QED BY <1>1 DEF Open, FeedAt, TypeOK

\* A feed that stays open has not yet read its own end.
LEMMA ReadUpToEnd ==
  ASSUME TypeOK, EndInv, NEW t \in Tabs, Read(t), phase'[t] # "away"
  PROVE  /\ cursor'[t] \in DOMAIN log
         /\ feed'[t][Who[t]] \in 0 .. cursor'[t]
         /\ \A k \in Entries(log, Who[t], gone[Who[t]]) :
              k > cursor[t] /\ KickFor(sid[t], k) => k > cursor'[t]
<1> DEFINE p == Who[t]
<1>1. p \in Players /\ p \in Channels
  BY DeliveryAssumption DEF DeliveryAssumption, Channels
<1>2. PICK n \in DOMAIN log :
        /\ LastOfBatch(t, n)
        /\ cursor' = [cursor EXCEPT ![t] = n]
        /\ ~Ends(t, n)
        /\ feed' = [feed EXCEPT ![t] = FeedAfter(t, n)]
  <2>1. PICK n \in DOMAIN log :
          /\ LastOfBatch(t, n)
          /\ cursor' = [cursor EXCEPT ![t] = n]
          /\ Ends(t, n) => phase' = [phase EXCEPT ![t] = "away"]
          /\ ~Ends(t, n) => feed' = [feed EXCEPT ![t] = FeedAfter(t, n)]
    BY DEF Read
  <2>2. ~Ends(t, n)
    BY <2>1 DEF TypeOK
  <2> QED BY <2>1, <2>2
<1>3. /\ cursor'[t] = n /\ feed'[t] = FeedAfter(t, n)
      /\ cursor[t] \in Nat /\ n \in Nat /\ cursor[t] < n
      /\ phase[t] = "open" /\ feed[t][p] \in 0 .. cursor[t]
  BY <1>2 DEF Read, LastOfBatch, Waiting, TypeOK, EndInv
<1>4. FeedAfter(t, n)[p] \in 0 .. n
  <2>1. p \notin log[n].remove
    BY <1>1 DEF EndInv
  <2> QED BY <1>1, <1>3, <2>1 DEF FeedAfter
<1>5. ASSUME NEW k \in Entries(log, p, gone[p]), k > cursor[t], KickFor(sid[t], k)
      PROVE  k > n
  <2>1. k \in DOMAIN log /\ log[k].ch = p /\ k > gone[p] /\ k \in Nat
    BY <1>5 DEF Entries, TypeOK
  <2>2. k \in Waiting(t)
    BY <1>3, <1>5, <2>1 DEF Waiting, Off
  <2>3. k \in Stops(t) /\ Ends(t, k)
    BY <1>5, <2>2 DEF Stops, Ends, KickFor
  <2>4. n <= k /\ n # k
    BY <1>2, <2>3 DEF LastOfBatch
  <2> QED BY <1>3, <2>1, <2>4
<1> QED BY <1>2, <1>3, <1>4, <1>5

-----------------------------------------------------------------------------
(* The invariant is kept: either the client stands still, or the step is   *)
(* its own.                                                                 *)

\* What a step does to the world, as far as the clients that stay connected
\* are concerned.
WorldStep ==
  /\ Keep(log, log')
  /\ \A p \in Players : \/ gone'[p] = gone[p]
                        \/ /\ gone'[p] <= Len(log')
                           /\ \A t \in Tabs : Who[t] = p => phase'[t] = "away"
  /\ \A p \in Players : InWorld(p) /\ session'[p] # session[p] => Ending(p)

Stands(t) ==
  /\ sid'[t] = sid[t]
  /\ \/ phase'[t] = "away" /\ cursor'[t] \in {cursor[t]} \cup DOMAIN log
     \/ phase'[t] = phase[t] /\ cursor'[t] = cursor[t] /\ feed'[t] = feed[t]

LEMMA StandsOn ==
  ASSUME TypeOK, SessionInv, EndInv, WorldStep, NEW t \in Tabs, Stands(t)
  PROVE  /\ cursor'[t] <= Len(log')
         /\ phase'[t] = "open" => feed'[t][Who[t]] \in 0 .. cursor'[t]
         /\ phase'[t] # "away" /\ session'[Who[t]] # sid'[t] =>
              \E n \in DOMAIN log' : /\ log'[n].ch = Who[t] /\ n > gone'[Who[t]]
                                     /\ n > cursor'[t]
                                     /\ log'[n].kind = "kick" /\ log'[n].session = sid'[t]
<1>1. Who[t] \in Players
  BY DeliveryAssumption DEF DeliveryAssumption
<1>2. Len(log) \in Nat /\ DOMAIN log = 1 .. Len(log) /\ Len(log) <= Len(log') /\ cursor[t] \in Nat
  BY DEF TypeOK, WorldStep, Keep
<1>3. /\ cursor'[t] <= Len(log) /\ Len(log) <= Len(log')
      /\ cursor'[t] \in Nat /\ Len(log') \in Nat
  BY <1>2 DEF Stands, EndInv, WorldStep, Keep
<1>4. ASSUME phase'[t] # "away", session'[Who[t]] # sid'[t]
      PROVE  \E n \in DOMAIN log' : /\ log'[n].ch = Who[t] /\ n > gone'[Who[t]]
                                   /\ n > cursor'[t]
                                   /\ log'[n].kind = "kick" /\ log'[n].session = sid'[t]
  <2>1. /\ phase[t] # "away" /\ sid'[t] = sid[t] /\ cursor'[t] = cursor[t]
        /\ gone'[Who[t]] = gone[Who[t]] /\ gone[Who[t]] <= Len(log) /\ gone[Who[t]] \in Nat
    BY <1>1, <1>4 DEF Stands, WorldStep, EndInv, TypeOK, Channels
  <2>2. CASE session[Who[t]] = sid[t]
    <3>1. Ending(Who[t])
      BY <1>1, <1>4, <2>1, <2>2 DEF WorldStep, SessionInv, InWorld
    <3>2. PICK n \in DOMAIN log' : /\ n > Len(log) /\ log'[n].ch = Who[t]
                                  /\ log'[n].kind = "kick" /\ log'[n].session = sid[t]
      BY <2>2, <3>1 DEF Ending
    <3>3. n > gone'[Who[t]] /\ n > cursor'[t]
      <4>1. n \in Nat
        BY <3>2 DEF WorldStep, Keep
      <4> QED BY <1>2, <1>3, <2>1, <3>2, <4>1
    <3> QED BY <2>1, <3>2, <3>3
  <2>3. CASE session[Who[t]] # sid[t]
    <3>1. PICK n \in Entries(log, Who[t], gone[Who[t]]) : n > cursor[t] /\ KickFor(sid[t], n)
      BY <2>1, <2>3 DEF EndInv, EndIsComing, Current
    <3>2. n \in DOMAIN log' /\ log'[n] = log[n] /\ log[n].ch = Who[t] /\ n > gone[Who[t]]
      BY <3>1 DEF WorldStep, Keep, Entries
    <3> QED BY <2>1, <3>1, <3>2 DEF KickFor
  <2> QED BY <2>2, <2>3
<1>5. phase'[t] = "open" => feed'[t][Who[t]] \in 0 .. cursor'[t]
  BY DEF Stands, EndInv
<1> QED BY <1>2, <1>3, <1>4, <1>5

LEMMA WorldStepSpares ==
  ASSUME TypeOK, Uncut, [Next]_vars
  PROVE  WorldStep
<1> DEFINE Same == UNCHANGED <<log, gone, session>>
           Kept == \A p \in Players : InWorld(p) /\ session'[p] # session[p] => Ending(p)
<1>1. Spares /\ Kept => WorldStep
  BY DEF Spares, WorldStep
<1>2. Same => WorldStep
  BY DEF WorldStep, Keep, TypeOK
<1>3. session' = session => Kept
  OBVIOUS
<1>4. ASSUME NEW p \in Players, LeaveWorld(p) PROVE WorldStep
  <2>1. session' = [session EXCEPT ![p] = NoSession]
    BY <1>4 DEF LeaveWorld
  <2>2. Kept
    BY <1>4, <2>1, SparesLeaveWorld DEF TypeOK
  <2> QED BY <1>1, <1>4, <2>2, SparesLeaveWorld
<1>5. ASSUME NEW t \in Tabs, ClientStep(t) PROVE WorldStep
  <2>1. Who[t] \in Players
    BY DeliveryAssumption DEF DeliveryAssumption
  <2>2. CASE Enter(t)
    <3>1. Kept
      BY <2>2 DEF Enter, InWorld, TypeOK
    <3> QED BY <1>1, <2>2, <3>1, SparesEnter
  <2>3. CASE TakeOver(t)
    <3>1. session' = [session EXCEPT ![Who[t]] = issued + 1]
      BY <2>3 DEF TakeOver
    <3>2. Kept
      BY <2>3, <3>1, SparesTakeOver DEF TypeOK
    <3> QED BY <1>1, <2>3, <3>2, SparesTakeOver
  <2>4. CASE Quit(t)
    BY <1>2, <1>4, <2>1, <2>4 DEF Quit, worldVars
  <2>5. CASE Open(t) \/ Read(t) \/ BreakOff(t) \/ Drop(t)
    BY <1>2, <2>5 DEF Open, Read, BreakOff, Drop, worldVars
  <2> QED BY <1>5, <2>2, <2>3, <2>4, <2>5 DEF ClientStep
<1>6. ASSUME NEW p \in Players, PlayerStep(p) PROVE WorldStep
  <2>1. CASE Reap(p)
    BY <1>4, <2>1 DEF Reap
  <2>2. CASE Expire(p)
    <3>1. \A q \in Players : q # p => gone'[q] = gone[q]
      BY <2>2 DEF Expire, TypeOK, Channels
    <3>2. gone'[p] = Len(log) /\ log' = log
      BY <2>2 DEF Expire, TypeOK, Channels
    <3>3. \A t \in Tabs : Who[t] = p => phase'[t] = "away"
      BY <2>2 DEF Expire, clientVars
    <3>4. Keep(log, log') /\ Kept /\ gone'[p] <= Len(log')
      BY <2>2, <3>2 DEF Expire, Keep, TypeOK
    <3> QED BY <3>1, <3>3, <3>4 DEF WorldStep
  <2>3. CASE \E d \in Rooms : Relocate(p, d)
    BY <1>1, <1>3, <2>3, EmitsRelocate, EmitSpares DEF Relocate
  <2>4. CASE \E ch \in Chats : Join(p, ch) \/ Leave(p, ch) \/ Chat(p, ch)
    BY <1>1, <1>3, <2>4, EmitsTalk, EmitSpares DEF Join, Leave, Chat, quiet
  <2>5. CASE \E q \in Players : Tell(p, q)
    BY <1>1, <1>3, <2>5, EmitsTell, EmitSpares DEF Tell, quiet
  <2> QED BY <1>6, <2>1, <2>2, <2>3, <2>4, <2>5 DEF PlayerStep
<1>7. ASSUME NEW c \in Ambient, Happen(c) PROVE WorldStep
  BY <1>1, <1>3, <1>7, EmitsHappen, EmitSpares DEF Happen, quiet
<1> QED BY <1>2, <1>5, <1>6, <1>7 DEF Next, vars, worldVars

\* A client stands, opens or reads its feed, or comes in.
LEMMA EachClient ==
  ASSUME TypeOK, Uncut, [Next]_vars, NEW u \in Tabs
  PROVE  \/ Stands(u)
         \/ Open(u)
         \/ Read(u) /\ phase'[u] # "away"
         \/ /\ phase'[u] = "opening" /\ session'[Who[u]] = sid'[u]
            /\ cursor'[u] <= Len(log')
<1>1. CASE UNCHANGED clientVars
  BY <1>1 DEF clientVars, Stands
<1>2. ASSUME NEW t \in Tabs, ClientStep(t)
      PROVE  \/ Stands(u)
             \/ Open(u)
             \/ Read(u) /\ phase'[u] # "away"
             \/ /\ phase'[u] = "opening" /\ session'[Who[u]] = sid'[u]
                /\ cursor'[u] <= Len(log')
  <2>1. Who[t] \in Players
    BY DeliveryAssumption DEF DeliveryAssumption
  <2>2. CASE Enter(t)
    <3>1. CASE u = t
      <4>1. phase'[t] = "opening" /\ sid'[t] = issued + 1 /\ session'[Who[t]] = issued + 1
        BY <2>1, <2>2 DEF Enter, Attach, TypeOK
      <4> QED BY <2>2, <3>1, <4>1, SparesEnter
    <3>2. CASE u # t
      BY <2>2, <3>2 DEF Enter, Attach, Stands, TypeOK
    <3> QED BY <3>1, <3>2
  <2>3. CASE TakeOver(t)
    <3>1. PICK n, b : Attach(t, issued + 1, n, b)
      BY <2>3, TakeOverAttaches
    <3>2. CASE u = t
      <4>1. phase'[t] = "opening" /\ sid'[t] = issued + 1 /\ session'[Who[t]] = issued + 1
        BY <2>1, <2>3, <3>1 DEF TakeOver, Attach, TypeOK
      <4> QED BY <2>3, <3>2, <4>1, SparesTakeOver
    <3>3. CASE u # t
      BY <3>1, <3>3 DEF Attach, Stands, TypeOK
    <3> QED BY <3>2, <3>3
  <2>4. CASE Quit(t)
    BY <1>1, <2>4 DEF Quit, LeaveWorld
  <2>5. CASE u # t /\ (Open(t) \/ Read(t) \/ BreakOff(t) \/ Drop(t))
    BY <2>5 DEF Open, Read, BreakOff, Drop, Stands, TypeOK
  <2>6. CASE u = t /\ (BreakOff(t) \/ Drop(t))
    BY <2>6 DEF BreakOff, Drop, Stands, TypeOK
  <2>7. CASE u = t /\ Read(t) /\ phase'[t] = "away"
    <3>1. PICK n \in DOMAIN log : cursor' = [cursor EXCEPT ![t] = n]
      BY <2>7 DEF Read
    <3> QED BY <2>7, <3>1 DEF Read, Stands, TypeOK, worldVars
  <2> QED BY <1>2, <2>2, <2>3, <2>4, <2>5, <2>6, <2>7 DEF ClientStep
<1>3. ASSUME NEW p \in Players, PlayerStep(p) PROVE UNCHANGED clientVars
  BY <1>3 DEF PlayerStep, Reap, LeaveWorld, Expire, Relocate, Join, Leave, Chat, Tell, quiet
<1>4. ASSUME NEW c \in Ambient, Happen(c) PROVE UNCHANGED clientVars
  BY <1>4 DEF Happen, quiet
<1> QED BY <1>1, <1>2, <1>3, <1>4 DEF Next, vars

LEMMA EndNext == Uncut /\ TypeOK /\ SessionInv /\ EndInv /\ [Next]_vars => EndInv'
<1> SUFFICES ASSUME Uncut, TypeOK, SessionInv, EndInv, [Next]_vars PROVE EndInv'
  OBVIOUS
<1>1. WorldStep
  BY WorldStepSpares
<1> DEFINE ended(u) == \E n \in DOMAIN log' :
                         /\ log'[n].ch = Who[u] /\ n > gone'[Who[u]] /\ n > cursor'[u]
                         /\ log'[n].kind = "kick" /\ log'[n].session = sid'[u]
<1>2. ASSUME NEW u \in Tabs
      PROVE  /\ cursor'[u] <= Len(log')
             /\ phase'[u] = "open" => feed'[u][Who[u]] \in 0 .. cursor'[u]
             /\ phase'[u] # "away" /\ session'[Who[u]] # sid'[u] => ended(u)
  <2>1. CASE Stands(u)
    BY <1>1, <2>1, StandsOn
  <2>2. CASE Open(u)
    <3>1. /\ cursor' = cursor /\ log' = log /\ gone' = gone /\ session' = session
          /\ sid' = sid /\ phase[u] = "opening"
      BY <2>2 DEF Open, worldVars
    <3>2. feed'[u][Who[u]] \in 0 .. cursor'[u]
      <4>1. cursor'[u] \in Nat
        BY <3>1 DEF TypeOK
      <4> QED BY <2>2, <4>1, OwnFeedOpens
    <3>3. cursor'[u] <= Len(log')
      BY <3>1 DEF EndInv
    <3>4. session'[Who[u]] # sid'[u] => ended(u)
      BY <3>1 DEF EndInv, EndIsComing, Current, KickFor, Entries
    <3> QED BY <3>2, <3>3, <3>4
  <2>3. CASE Read(u) /\ phase'[u] # "away"
    <3>1. /\ log' = log /\ gone' = gone /\ session' = session
          /\ sid' = sid /\ phase[u] = "open"
      BY <2>3 DEF Read, worldVars
    <3>2. /\ cursor'[u] \in DOMAIN log
          /\ feed'[u][Who[u]] \in 0 .. cursor'[u]
          /\ \A k \in Entries(log, Who[u], gone[Who[u]]) :
               k > cursor[u] /\ KickFor(sid[u], k) => k > cursor'[u]
      BY <2>3, ReadUpToEnd
    <3>3. cursor'[u] <= Len(log')
      BY <3>1, <3>2 DEF TypeOK
    <3>4. session'[Who[u]] # sid'[u] => ended(u)
      BY <3>1, <3>2 DEF EndInv, EndIsComing, Current, KickFor, Entries
    <3> QED BY <3>2, <3>3, <3>4
  <2>4. CASE /\ phase'[u] = "opening" /\ session'[Who[u]] = sid'[u]
             /\ cursor'[u] <= Len(log')
    BY <2>4
  <2> QED BY <2>1, <2>2, <2>3, <2>4, EachClient
<1>3. ASSUME NEW p \in Players PROVE gone'[p] <= Len(log')
  <2>1. gone[p] <= Len(log) /\ gone[p] \in Nat /\ Len(log) \in Nat
    BY DEF EndInv, TypeOK, Channels
  <2> QED BY <1>1, <2>1 DEF WorldStep, Keep
<1>4. \A n \in DOMAIN log' : log'[n].remove \cap Players = {}
  BY <1>1 DEF WorldStep, Keep, EndInv
<1>5. EndIsComing'
  BY <1>2 DEF EndIsComing, Current, KickFor, Entries
<1> QED BY <1>2, <1>3, <1>4, <1>5 DEF EndInv

\* As long as a player's own stream is not cut, a connection that lost its
\* player to another, or was taken out of the world, has its end ahead of it
\* in what it will read (connect, disconnect, Feed.read).
THEOREM EndAhead == ASSUME Uncut PROVE Spec => []EndIsComing
<1>1. Init => EndInv
  <2>1. Init => TypeOK
    BY TypeInit
  <2> QED BY DeliveryAssumption
          DEF DeliveryAssumption, Init, EndInv, EndIsComing, Channels
<1>2. EndInv => EndIsComing
  BY DEF EndInv
<1>3. TypeOK /\ SessionInv /\ EndInv /\ [Next]_vars => EndInv'
  BY EndNext
<1> QED BY <1>1, <1>2, <1>3, SessionAlways, PTL DEF Spec

-----------------------------------------------------------------------------
(* What is trimmed from the streams that are shared.                        *)

\* A stream stays as it is, or loses what is before some number and keeps at
\* least its cap.
LEMMA TrimmedTo ==
  ASSUME NEW l \in Seq(Events), NEW g \in [Channels -> Nat],
         NEW w, NEW h \in Trimmed(l, g, w), NEW c \in Channels
  PROVE  \/ h[c] = g[c]
         \/ /\ c \in w /\ g[c] < h[c] /\ h[c] \in DOMAIN l
            /\ Cardinality(Entries(l, c, h[c])) >= Cap(c)
<1>1. PICK D \in SUBSET {d \in w : Cardinality(Entries(l, d, g[d])) > Cap(d)} :
        \E k \in Cuts(l, g, D) : h = [d \in Channels |-> IF d \in D THEN k[d] ELSE g[d]]
  BY DEF Trimmed
<1>2. PICK k \in Cuts(l, g, D) : h = [d \in Channels |-> IF d \in D THEN k[d] ELSE g[d]]
  BY <1>1
<1>3. CASE c \in D
  BY <1>1, <1>2, <1>3 DEF Cuts
<1>4. CASE c \notin D
  BY <1>2, <1>4
<1> QED BY <1>3, <1>4

\* What is left of a trimmed stream.
Remains ==
  /\ \A c \in Channels : gone[c] <= Len(log)
  /\ \A c \in Channels \ Players :
       born[c] = 0 /\ (gone[c] > 0 => Entries(log, c, gone[c]) # {})

\* Streams only grow at their end, and shared ones are only cut where
\* something is left of them.
Lasts ==
  /\ Len(log) <= Len(log')
  /\ \A n \in DOMAIN log : n \in DOMAIN log' /\ log'[n] = log[n]
  /\ \A c \in Channels : gone[c] <= gone'[c] /\ gone'[c] <= Len(log')
  /\ \A c \in Channels \ Players :
       /\ born'[c] = born[c]
       /\ gone'[c] = gone[c] \/ Entries(log', c, gone'[c]) # {}
       /\ MaxLog <= CapShared => gone'[c] = gone[c]

LEMMA EmitLasts ==
  ASSUME TypeOK, Remains, NEW es \in Seq(Sparing), Emit(es), born' = born
  PROVE  Lasts
<1>1. Keep(log, log') /\ log' \in Seq(Events)
  BY KeepAppended DEF Emit, TypeOK
<1>2. PICK w : gone' \in Trimmed(log', gone, w)
  BY DEF Emit
<1>3. gone \in [Channels -> Nat]
  BY DEF TypeOK
<1>4. ASSUME NEW c \in Channels
      PROVE  /\ gone[c] <= gone'[c] /\ gone'[c] <= Len(log')
             /\ gone'[c] = gone[c] \/ Entries(log', c, gone'[c]) # {}
  <2>1. \/ gone'[c] = gone[c]
        \/ /\ gone[c] < gone'[c] /\ gone'[c] \in DOMAIN log'
           /\ Cardinality(Entries(log', c, gone'[c])) >= Cap(c)
    BY <1>1, <1>2, <1>3, TrimmedTo
  <2>2. Cap(c) \in Nat \ {0}
    BY DeliveryAssumption DEF DeliveryAssumption, Cap
  <2>3. ASSUME Cardinality(Entries(log', c, gone'[c])) >= Cap(c)
        PROVE  Entries(log', c, gone'[c]) # {}
    <3>1. Cardinality({}) = 0
      BY FS_EmptySet
    <3>2. CASE Entries(log', c, gone'[c]) = {}
      <4>1. 0 >= Cap(c)
        BY <2>3, <3>1, <3>2
      <4> QED BY <2>2, <4>1
    <3> QED BY <3>2
  <2>4. gone'[c] \in Nat /\ gone[c] \in Nat
    BY <1>1, <1>2, <1>3, TrimmedType
  <2>5. /\ gone[c] <= Len(log) /\ Len(log) <= Len(log') /\ Len(log') \in Nat /\ Len(log) \in Nat
        /\ DOMAIN log' = 1 .. Len(log')
    BY <1>1 DEF Remains, Keep, TypeOK
  <2> QED BY <2>1, <2>3, <2>4, <2>5
<1>5. ASSUME NEW c \in Channels \ Players, MaxLog <= CapShared PROVE gone'[c] = gone[c]
  <2>1. MaxLog <= Cap(c)
    BY <1>5 DEF Cap
  <2>2. Len(log') <= MaxLog
    <3>1. es \in Seq(Events)
      BY DEF Sparing
    <3>2. Len(log') = Len(log) + Len(es)
      BY <3>1, EmitType
    <3>3. Len(log) + Len(es) <= MaxLog
      BY DEF Emit
    <3> QED BY <3>2, <3>3
  <2> QED BY <1>1, <1>2, <1>3, <2>1, <2>2, StreamUncut
<1> QED BY <1>1, <1>4, <1>5 DEF Lasts, Keep

\* connect trims twice, and only the player's own stream.
LEMMA TakeOverLasts ==
  ASSUME TypeOK, Remains, NEW t \in Tabs, TakeOver(t)
  PROVE  /\ Lasts
         /\ \E g \in [Channels -> Nat] :
              LET p == Who[t]
                  kicked == Append(log, Kick(p, session[p]))
                  now == Len(kicked)
                  since == IF 0 < seen[t] /\ seen[t] < now THEN seen[t] ELSE now
              IN /\ \A c \in Channels : c # p => g[c] = gone[c] /\ gone'[c] = gone[c]
                 /\ cursor'[t] = IF since < now /\ Lost(kicked, g, p, since)
                                 THEN now ELSE since
<1> DEFINE p == Who[t]
           k == Kick(p, session[p])
           kicked == Append(log, k)
           now == Len(kicked)
           since == IF 0 < seen[t] /\ seen[t] < now THEN seen[t] ELSE now
           written == Append(kicked, Own(p))
           from(g) == IF since < now /\ Lost(kicked, g, p, since) THEN now ELSE since
<1>1. p \in Players /\ p \in Channels /\ session[p] \in Nat
  BY DeliveryAssumption DEF DeliveryAssumption, TypeOK, Channels
<1>2. k \in Sparing /\ Own(p) \in Sparing
  BY <1>1, SparingEvents
<1>3. k \in Events /\ Own(p) \in Events
  BY <1>2 DEF Sparing
<1>4. PICK g \in Trimmed(kicked, gone, {p}) :
        /\ gone' \in Trimmed(written, g, {p})
        /\ cursor' = [cursor EXCEPT ![t] = from(g)]
  BY DEF TakeOver, Attach
<1>5. log' = written /\ born' = born
  BY DEF TakeOver
<1> HIDE DEF k
<1>6. /\ kicked \in Seq(Events) /\ written \in Seq(Events)
      /\ Len(kicked) = Len(log) + 1 /\ Len(written) = Len(log) + 2 /\ Len(log) \in Nat
      /\ written = log \o <<k, Own(p)>>
      /\ gone \in [Channels -> Nat]
  <2>1. log \in Seq(Events) /\ gone \in [Channels -> Nat]
    BY DEF TypeOK
  <2>2. /\ kicked \in Seq(Events) /\ written \in Seq(Events)
        /\ Len(kicked) = Len(log) + 1 /\ Len(written) = Len(log) + 2 /\ Len(log) \in Nat
    BY <1>3, <2>1
  <2>3. written = log \o <<k, Own(p)>>
    BY <1>3, <2>1
  <2> QED BY <2>1, <2>2, <2>3
<1>7. Keep(log, log')
  <2>1. <<k, Own(p)>> \in Seq(Sparing)
    BY <1>2
  <2> QED BY <1>5, <1>6, <2>1, KeepAppended DEF TypeOK
<1> HIDE DEF written
<1>8. g \in [Channels -> Nat] /\ gone' \in [Channels -> Nat]
  <2> HIDE DEF kicked
  <2>1. g \in [Channels -> Nat]
    BY <1>4, <1>6, TrimmedType
  <2> QED BY <1>4, <1>6, <2>1, TrimmedType
<1>9. ASSUME NEW c \in Channels
      PROVE  /\ gone[c] <= gone'[c] /\ gone'[c] <= Len(log')
             /\ c # p => g[c] = gone[c] /\ gone'[c] = gone[c]
  <2> DEFINE w == {p}
  <2>0. g \in Trimmed(kicked, gone, w) /\ gone' \in Trimmed(written, g, w)
    BY <1>4
  <2> HIDE DEF kicked, w
  <2>1. g[c] = gone[c] \/ (c \in w /\ gone[c] < g[c] /\ g[c] \in DOMAIN kicked)
    BY <1>6, <2>0, TrimmedTo
  <2>2. gone'[c] = g[c] \/ (c \in w /\ g[c] < gone'[c] /\ gone'[c] \in DOMAIN log')
    BY <1>5, <1>6, <1>8, <2>0, TrimmedTo
  <2>3. gone[c] \in Nat /\ g[c] \in Nat /\ gone'[c] \in Nat
    BY <1>6, <1>8
  <2>4. c \in w => c = p
    BY DEF w
  <2>5. /\ DOMAIN kicked = 1 .. Len(kicked) /\ DOMAIN log' = 1 .. Len(log')
        /\ Len(kicked) <= Len(log') /\ Len(log) <= Len(log') /\ gone[c] <= Len(log)
        /\ Len(log) \in Nat /\ Len(kicked) \in Nat /\ Len(log') \in Nat
    BY <1>5, <1>6 DEF Remains
  <2> QED BY <2>1, <2>2, <2>3, <2>4, <2>5
<1>10. Lasts
  BY <1>1, <1>5, <1>7, <1>9 DEF Lasts, Keep
<1>11. cursor'[t] = from(g)
  BY <1>4 DEF TypeOK
<1> QED BY <1>8, <1>9, <1>10, <1>11 DEF k

LEMMA ExpireLasts ==
  ASSUME TypeOK, Remains, NEW p \in Players, Expire(p)
  PROVE  Lasts
<1>1. /\ log' = log /\ p \in Channels /\ Len(log) \in Nat
      /\ gone' = [gone EXCEPT ![p] = Len(log)] /\ born' = [born EXCEPT ![p] = Len(log)]
  BY DEF Expire, Channels, TypeOK
<1>2. ASSUME NEW c \in Channels, c # p PROVE gone'[c] = gone[c] /\ born'[c] = born[c]
  BY <1>1, <1>2 DEF TypeOK
<1>3. gone'[p] = Len(log)
  BY <1>1 DEF TypeOK
<1>4. \A c \in Channels : gone[c] \in Nat /\ gone[c] <= Len(log)
  BY DEF Remains, TypeOK
<1> QED BY <1>1, <1>2, <1>3, <1>4 DEF Lasts

LEMMA EachLasts ==
  ASSUME TypeOK, Remains, [Next]_vars
  PROVE  Lasts
<1>1. CASE UNCHANGED <<log, gone, born>>
  BY <1>1 DEF Lasts, Remains, TypeOK
<1>2. ASSUME NEW t \in Tabs, ClientStep(t) PROVE Lasts
  <2>1. Who[t] \in Players
    BY DeliveryAssumption DEF DeliveryAssumption
  <2>2. CASE Enter(t)
    BY <2>2, EmitsEnter, EmitLasts DEF Enter
  <2>3. CASE TakeOver(t)
    BY <2>3, TakeOverLasts
  <2>4. CASE Quit(t)
    BY <1>1, <2>1, <2>4, EmitsLeaveWorld, EmitLasts DEF Quit, LeaveWorld, worldVars
  <2>5. CASE Open(t) \/ Read(t) \/ BreakOff(t) \/ Drop(t)
    BY <1>1, <2>5 DEF Open, Read, BreakOff, Drop, worldVars
  <2> QED BY <1>2, <2>2, <2>3, <2>4, <2>5 DEF ClientStep
<1>3. ASSUME NEW p \in Players, PlayerStep(p) PROVE Lasts
  <2>1. CASE Reap(p)
    BY <2>1, EmitsLeaveWorld, EmitLasts DEF Reap, LeaveWorld
  <2>2. CASE Expire(p)
    BY <2>2, ExpireLasts
  <2>3. CASE \E d \in Rooms : Relocate(p, d)
    BY <2>3, EmitsRelocate, EmitLasts DEF Relocate
  <2>4. CASE \E ch \in Chats : Join(p, ch) \/ Leave(p, ch) \/ Chat(p, ch)
    BY <2>4, EmitsTalk, EmitLasts DEF Join, Leave, Chat, quiet
  <2>5. CASE \E q \in Players : Tell(p, q)
    BY <2>5, EmitsTell, EmitLasts DEF Tell, quiet
  <2> QED BY <1>3, <2>1, <2>2, <2>3, <2>4, <2>5 DEF PlayerStep
<1>4. ASSUME NEW c \in Ambient, Happen(c) PROVE Lasts
  BY <1>4, EmitsHappen, EmitLasts DEF Happen, quiet
<1> QED BY <1>1, <1>2, <1>3, <1>4 DEF Next, vars, worldVars

LEMMA RemainsNext == TypeOK /\ Remains /\ [Next]_vars => Remains'
<1> SUFFICES ASSUME TypeOK, Remains, [Next]_vars PROVE Remains'
  OBVIOUS
<1>1. Lasts
  BY EachLasts
<1>2. ASSUME NEW c \in Channels \ Players, gone'[c] > 0
      PROVE  Entries(log', c, gone'[c]) # {}
  <2>1. CASE gone'[c] = gone[c]
    <3>1. PICK m : m \in Entries(log, c, gone[c])
      BY <1>2, <2>1 DEF Remains
    <3>2. m \in Entries(log', c, gone'[c])
      BY <1>1, <2>1, <3>1 DEF Entries, Lasts
    <3> QED BY <3>2
  <2> QED BY <1>1, <2>1 DEF Lasts
<1> QED BY <1>1, <1>2 DEF Lasts, Remains

LEMMA RemainsAlways == Spec => [](TypeOK /\ Remains)
<1>1. Init => Remains
  BY DEF Init, Remains
<1> QED BY <1>1, Typed, RemainsNext, PTL DEF Spec

\* A player in the world hears no one's stream but their own.
LEMMA NoOthersStream ==
  ASSUME TypeOK, SubsMatchPlace, NEW p \in Players, InWorld(p), NEW q \in Players
  PROVE  subs[p][q] # Off <=> q = p
<1>1. q \in Channels \ Chats /\ (q \in PlaceChannels(p, room[p], standing) <=> q = p)
  BY DeliveryAssumption, SMTT(30) DEF DeliveryAssumption, PlaceChannels, Channels, TypeOK
<1> QED BY <1>1 DEF SubsMatchPlace

LEMMA TakeOverHasNoHole ==
  ASSUME TypeOK, Remains, SubsMatchPlace, NEW t \in Tabs, TakeOver(t),
         cursor'[t] < Len(log), NEW n \in DOMAIN log, n > cursor'[t],
         subs[Who[t]][log[n].ch] # Off, n > subs[Who[t]][log[n].ch], log[n].ch # Who[t]
  PROVE  n > gone'[log[n].ch]
<1> DEFINE p == Who[t]
           c == log[n].ch
           kicked == Append(log, Kick(p, session[p]))
           now == Len(kicked)
           since == IF 0 < seen[t] /\ seen[t] < now THEN seen[t] ELSE now
<1>1. p \in Players /\ InWorld(p)
  BY DeliveryAssumption DEF DeliveryAssumption, TakeOver
<1>2. c \in Channels
  <2>1. log[n] \in Events
    BY DEF TypeOK
  <2> QED BY <2>1 DEF Events
<1>3. c \notin Players
  BY <1>1, NoOthersStream
<1>4. PICK g \in [Channels -> Nat] :
        /\ \A d \in Channels : d # p => g[d] = gone[d] /\ gone'[d] = gone[d]
        /\ cursor'[t] = IF since < now /\ Lost(kicked, g, p, since) THEN now ELSE since
  BY TakeOverLasts
<1>5. /\ now = Len(log) + 1 /\ Len(log) \in Nat /\ since \in Nat /\ n \in Nat
      /\ \A m \in DOMAIN log : m \in DOMAIN kicked /\ kicked[m] = log[m]
  BY SMTT(30) DEF TypeOK
<1>6. cursor'[t] = since /\ ~Lost(kicked, g, p, since)
  <2>1. since <= now
    BY <1>5
  <2> HIDE DEF now, since, kicked
  <2>2. cursor'[t] # now
    BY <1>5
  <2>3. cursor'[t] = since /\ ~(since < now /\ Lost(kicked, g, p, since))
    BY <1>4, <2>2
  <2>4. since < now
    BY <1>5, <2>1, <2>2, <2>3
  <2> QED BY <2>3, <2>4
<1>7. g[c] = gone[c] /\ gone'[c] = gone[c] /\ gone[c] \in Nat
      /\ subs[p][c] \in Nat
  BY <1>1, <1>2, <1>3, <1>4, SMTT(30) DEF TypeOK
<1> HIDE DEF kicked, now, since
<1>8. CASE n <= gone[c]
  <2>1. gone[c] > 0 /\ born[c] = 0
    BY <1>2, <1>3, <1>5, <1>7, <1>8 DEF Remains, TypeOK
  <2>2. PICK e : e \in Entries(log, c, gone[c])
    BY <1>2, <1>3, <2>1 DEF Remains
  <2>3. e \in Entries(kicked, c, g[c])
    BY <1>5, <1>7, <2>2 DEF Entries
  <2>4. PICK m \in Entries(kicked, c, g[c]) : ~(m > since + 1 /\ m > subs[p][c] + 1)
    BY <1>2, <1>6, <1>7, <2>1, <2>3 DEF Lost
  <2>5. m \in Nat /\ m > gone[c]
    <3>1. kicked \in Seq(Events)
      <4>1. Kick(p, session[p]) \in Events
        BY <1>1, EventTypes DEF TypeOK, Channels
      <4> QED BY <4>1 DEF kicked, TypeOK
    <3> QED BY <1>7, <3>1 DEF Entries
  <2> QED BY <1>5, <1>6, <1>7, <1>8, <2>4, <2>5
<1>9. CASE ~(n <= gone[c])
  BY <1>5, <1>7, <1>9
<1> QED BY <1>8, <1>9

\* What a client must be able to read if it is to carry on, as one step.
Resumes ==
  \A t \in Tabs :
    /\ phase[t] = "away" /\ phase'[t] = "opening"
    /\ cursor'[t] < Len(log)
    => \A n \in DOMAIN log :
         LET c == log[n].ch
         IN n > cursor'[t] /\ subs[Who[t]][c] # Off /\ n > subs[Who[t]][c] /\ c # Who[t]
            => n > gone'[c]

\* A client begins to connect by coming in or by taking over.
LEMMA Begins ==
  ASSUME TypeOK, [Next]_vars, NEW t \in Tabs, phase[t] = "away", phase'[t] = "opening"
  PROVE  Enter(t) \/ TakeOver(t)
<1>1. CASE UNCHANGED clientVars
  BY <1>1 DEF clientVars
<1>2. ASSUME NEW u \in Tabs, ClientStep(u) PROVE Enter(t) \/ TakeOver(t)
  <2>1. CASE Enter(u)
    BY <2>1 DEF Enter, Attach, TypeOK
  <2>2. CASE TakeOver(u)
    <3>1. \E n, b : Attach(u, issued + 1, n, b)
      BY <2>2, TakeOverAttaches
    <3> QED BY <2>2, <3>1 DEF Attach, TypeOK
  <2>3. CASE Open(u) \/ Read(u) \/ BreakOff(u) \/ Drop(u)
    BY <2>3 DEF Open, Read, BreakOff, Drop, TypeOK
  <2>4. CASE Quit(u)
    BY <1>1, <2>4 DEF Quit, LeaveWorld
  <2> QED BY <1>2, <2>1, <2>2, <2>3, <2>4 DEF ClientStep
<1>3. ASSUME NEW p \in Players, PlayerStep(p) PROVE UNCHANGED clientVars
  BY <1>3 DEF PlayerStep, Reap, LeaveWorld, Expire, Relocate, Join, Leave, Chat, Tell, quiet
<1>4. ASSUME NEW c \in Ambient, Happen(c) PROVE UNCHANGED clientVars
  BY <1>4 DEF Happen, quiet
<1> QED BY <1>1, <1>2, <1>3, <1>4 DEF Next, vars

LEMMA ResumesNext == TypeOK /\ Remains /\ SubsMatchPlace /\ [Next]_vars => Resumes
<1> SUFFICES ASSUME TypeOK, Remains, SubsMatchPlace, [Next]_vars,
                    NEW t \in Tabs, phase[t] = "away", phase'[t] = "opening",
                    cursor'[t] < Len(log), NEW n \in DOMAIN log, n > cursor'[t],
                    subs[Who[t]][log[n].ch] # Off, n > subs[Who[t]][log[n].ch],
                    log[n].ch # Who[t]
             PROVE  n > gone'[log[n].ch]
  BY DEF Resumes
<1>1. CASE Enter(t)
  <2>1. Len(log) <= cursor'[t]
    BY <1>1, EmitsEnter
  <2>2. Len(log) \in Nat /\ cursor'[t] \in Nat
    <3>1. TypeOK'
      BY TypeNext
    <3> QED BY <3>1 DEF TypeOK
  <2> QED BY <2>1, <2>2
<1>2. CASE TakeOver(t)
  BY <1>2, TakeOverHasNoHole
<1> QED BY <1>1, <1>2, Begins

\* A client that is let carry on from what it saw can still read everything
\* its player was subscribed to since, however streams are trimmed and however
\* small they are kept (connect's check for trimming).
THEOREM ResumesWhole == Spec => ResumesWithoutHole
<1>1. TypeOK /\ Remains /\ SubsMatchPlace /\ [Next]_vars => [Resumes]_vars
  BY ResumesNext
<1>2. Spec => [][Resumes]_vars
  BY <1>1, RemainsAlways, HearsWhereOneIs, PTL DEF Spec
<1> QED BY <1>2 DEF ResumesWithoutHole, Resumes
-----------------------------------------------------------------------------
(* Where a player was, as their own stream tells it.  A feed is opened and  *)
(* moved on by the changes of subscriptions in that stream, and an event is *)
(* for whoever is subscribed when it happens: the two agree.                *)

\* A change of p's subscriptions, and those of channel c in (n, e].
Changes(l, p, m) == l[m].kind = "subs" /\ l[m].ch = p
Later(l, p, e, c, n) ==
  {m \in DOMAIN l : /\ n < m /\ m <= e
                    /\ Changes(l, p, m) /\ c \in l[m].add \cup l[m].remove}

\* Whether p was in channel c just after number n, if S is where p was at
\* number e: the first change since decides, as in FeedAt.
In(l, p, S, e, c, n) ==
  LET later == Later(l, p, e, c, n)
  IN \/ later = {} /\ c \in S
     \/ \E m \in later : c \in l[m].remove /\ \A k \in later : m <= k

\* From k to e the stream tells where p was: an event was for p if it came by
\* p's own stream or by a channel p was in, and each change says what it did.
Tells(l, p, S, k, e) ==
  \A n \in DOMAIN l : k < n /\ n <= e =>
    /\ l[n].kind = "event" =>
         (p \in l[n].to <=> (l[n].ch = p \/ In(l, p, S, e, l[n].ch, n)))
    /\ Changes(l, p, n) =>
         \A c \in (l[n].add \cup l[n].remove) \ {p} :
           c \in l[n].add <=> In(l, p, S, e, c, n)

-----------------------------------------------------------------------------
(* A stream that grows *)

\* m is l and more.
Prefix(l, m) ==
  /\ Len(l) \in Nat /\ Len(m) \in Nat /\ Len(l) <= Len(m)
  /\ DOMAIN l = 1 .. Len(l) /\ DOMAIN m = 1 .. Len(m)
  /\ \A n \in DOMAIN l : m[n] = l[n]

\* What was told up to e stays told.
LEMMA LaterSettled ==
  ASSUME NEW l, NEW m, Prefix(l, m), NEW p, NEW e \in 0 .. Len(l), NEW c, NEW n
  PROVE  Later(m, p, e, c, n) = Later(l, p, e, c, n)
BY DEF Prefix, Later, Changes

LEMMA InSettled ==
  ASSUME NEW l, NEW m, Prefix(l, m), NEW p, NEW S, NEW e \in 0 .. Len(l), NEW c, NEW n
  PROVE  In(m, p, S, e, c, n) <=> In(l, p, S, e, c, n)
<1> DEFINE later == Later(l, p, e, c, n)
<1>1. Later(m, p, e, c, n) = later
  BY LaterSettled
<1>2. \A k \in later : m[k] = l[k]
  BY DEF Prefix, Later
<1> HIDE DEF later
<1>3. In(l, p, S, e, c, n) <=>
        \/ later = {} /\ c \in S
        \/ \E i \in later : c \in l[i].remove /\ \A k \in later : i <= k
  BY DEF In, later
<1>4. In(m, p, S, e, c, n) <=>
        \/ later = {} /\ c \in S
        \/ \E i \in later : c \in m[i].remove /\ \A k \in later : i <= k
  BY <1>1 DEF In
<1> QED BY <1>2, <1>3, <1>4

LEMMA TellsSettled ==
  ASSUME NEW l, NEW m, Prefix(l, m), NEW p, NEW S, NEW k \in Nat, NEW e \in 0 .. Len(l),
         Tells(l, p, S, k, e)
  PROVE  Tells(m, p, S, k, e)
<1> SUFFICES ASSUME NEW n \in DOMAIN m, k < n, n <= e
             PROVE  /\ m[n].kind = "event" =>
                         (p \in m[n].to <=> (m[n].ch = p \/ In(m, p, S, e, m[n].ch, n)))
                    /\ Changes(m, p, n) =>
                         \A c \in (m[n].add \cup m[n].remove) \ {p} :
                           c \in m[n].add <=> In(m, p, S, e, c, n)
  BY DEF Tells
<1>1. n \in DOMAIN l /\ m[n] = l[n]
  BY DEF Prefix
<1>2. \A c : In(m, p, S, e, c, n) <=> In(l, p, S, e, c, n)
  BY InSettled
<1> QED BY <1>1, <1>2 DEF Tells, Changes

\* Where nothing changes, a player is where they were.
LEMMA InBetween ==
  ASSUME NEW l, NEW p, NEW S, NEW e, NEW c, NEW k \in Nat, NEW n \in Nat, k <= n,
         DOMAIN l \subseteq Nat, \A m \in DOMAIN l : k < m /\ m <= n => ~Changes(l, p, m)
  PROVE  In(l, p, S, e, c, n) <=> In(l, p, S, e, c, k)
<1>1. Later(l, p, e, c, n) = Later(l, p, e, c, k)
  BY DEF Later
<1> QED BY <1>1 DEF In

\* An event goes to p as it should if p is in the channels S.
Fits(e, p, S) == e.kind = "event" => (p \in e.to <=> (e.ch = p \/ e.ch \in S))

\* One call adds to the stream: p goes from S to T at number b, if anywhere.
Grown(l, m, p, S, T, b) ==
  /\ Prefix(l, m)
  /\ b \in Nat /\ Len(l) < b
  /\ \A n \in DOMAIN m \ DOMAIN l : /\ Changes(m, p, n) => n = b
                                    /\ n < b => Fits(m[n], p, S)
                                    /\ b < n => Fits(m[n], p, T)
  /\ b \notin DOMAIN m => T = S
  /\ b \in DOMAIN m => /\ Changes(m, p, b)
                       /\ m[b].add \cap S = {} /\ m[b].remove \subseteq S
                       /\ T = (S \ m[b].remove) \cup m[b].add

\* Before b one is in S, from b on in T.
LEMMA GrownAt ==
  ASSUME NEW l, NEW m, NEW p, NEW S, NEW T, NEW b, Grown(l, m, p, S, T, b),
         NEW c, NEW n \in Nat, Len(l) <= n
  PROVE  /\ n < b => (In(m, p, T, Len(m), c, n) <=> c \in S)
         /\ b <= n => (In(m, p, T, Len(m), c, n) <=> c \in T)
<1> DEFINE later == Later(m, p, Len(m), c, n)
<1>1. /\ Prefix(l, m) /\ b \in Nat /\ Len(l) < b
      /\ \A k \in DOMAIN m \ DOMAIN l : Changes(m, p, k) => k = b
      /\ b \notin DOMAIN m => T = S
      /\ b \in DOMAIN m => /\ Changes(m, p, b)
                           /\ m[b].add \cap S = {} /\ m[b].remove \subseteq S
                           /\ T = (S \ m[b].remove) \cup m[b].add
  BY DEF Grown
<1>2. \A k \in later : k = b /\ b \in DOMAIN m /\ n < b /\ c \in m[b].add \cup m[b].remove
  BY <1>1 DEF Prefix, Later
<1>3. b \in DOMAIN m /\ n < b /\ c \in m[b].add \cup m[b].remove => b \in later
  BY <1>1 DEF Prefix, Later
<1>4. In(m, p, T, Len(m), c, n) <=>
        \/ later = {} /\ c \in T
        \/ \E i \in later : c \in m[i].remove /\ \A k \in later : i <= k
  BY DEF In
<1> HIDE DEF later
<1>5. CASE b \in later
  <2>1. In(m, p, T, Len(m), c, n) <=> c \in m[b].remove
    BY <1>1, <1>2, <1>4, <1>5
  <2> QED BY <1>1, <1>2, <1>5, <2>1
<1>6. CASE later = {}
  <2>1. In(m, p, T, Len(m), c, n) <=> c \in T
    BY <1>4, <1>6
  <2>2. n < b => (c \in T <=> c \in S)
    BY <1>1, <1>3, <1>6
  <2> QED BY <2>1, <2>2
<1> QED BY <1>2, <1>5, <1>6

\* And before the call one is where one was.
LEMMA GrownIn ==
  ASSUME NEW l, NEW m, NEW p, NEW S, NEW T, NEW b, Grown(l, m, p, S, T, b),
         NEW c, NEW n \in 0 .. Len(l)
  PROVE  In(m, p, T, Len(m), c, n) <=> In(l, p, S, Len(l), c, n)
<1> DEFINE old == Later(l, p, Len(l), c, n)
           new == Later(m, p, Len(m), c, n)
<1>1. Prefix(l, m) /\ Len(l) \in Nat
  BY DEF Grown, Prefix
<1>2. old \subseteq new /\ \A k \in new \ old : k \in Nat /\ Len(l) < k
  BY <1>1 DEF Prefix, Later, Changes
<1>3. \A k \in old : k \in Nat /\ k <= Len(l) /\ m[k] = l[k]
  BY <1>1 DEF Prefix, Later
<1>4. In(m, p, T, Len(m), c, n) <=>
        \/ new = {} /\ c \in T
        \/ \E i \in new : c \in m[i].remove /\ \A k \in new : i <= k
  BY DEF In
<1>5. In(l, p, S, Len(l), c, n) <=>
        \/ old = {} /\ c \in S
        \/ \E i \in old : c \in l[i].remove /\ \A k \in old : i <= k
  BY DEF In
<1>6. CASE old = {}
  <2>1. new = Later(m, p, Len(m), c, Len(l))
    BY <1>1, <1>2, <1>6 DEF Later
  <2>2. In(m, p, T, Len(m), c, n) <=> In(m, p, T, Len(m), c, Len(l))
    BY <2>1 DEF In
  <2>3. In(m, p, T, Len(m), c, Len(l)) <=> c \in S
    <3>1. Len(l) < b /\ Len(l) <= Len(l)
      BY <1>1 DEF Grown
    <3> QED BY <1>1, <3>1, GrownAt
  <2> HIDE DEF old, new
  <2>4. In(l, p, S, Len(l), c, n) <=> c \in S
    BY <1>5, <1>6
  <2> QED BY <2>2, <2>3, <2>4
<1>7. CASE old # {}
  <2> HIDE DEF old, new
  <2>1. ASSUME NEW i \in new, \A k \in new : i <= k
        PROVE  i \in old /\ \A k \in old : i <= k
    BY <1>1, <1>2, <1>3, <1>7, <2>1
  <2>2. ASSUME NEW i \in old, \A k \in old : i <= k
        PROVE  i \in new /\ \A k \in new : i <= k
    BY <1>1, <1>2, <1>3, <2>2
  <2> QED BY <1>2, <1>3, <1>4, <1>5, <1>7, <2>1, <2>2
<1> QED BY <1>6, <1>7

LEMMA GrownTells ==
  ASSUME NEW l, NEW m, NEW p, NEW S, NEW T, NEW b, Grown(l, m, p, S, T, b),
         NEW k \in Nat, Tells(l, p, S, k, Len(l))
  PROVE  Tells(m, p, T, k, Len(m))
<1> SUFFICES ASSUME NEW n \in DOMAIN m, k < n
             PROVE  /\ m[n].kind = "event" =>
                         (p \in m[n].to <=> (m[n].ch = p \/ In(m, p, T, Len(m), m[n].ch, n)))
                    /\ Changes(m, p, n) =>
                         \A c \in (m[n].add \cup m[n].remove) \ {p} :
                           c \in m[n].add <=> In(m, p, T, Len(m), c, n)
  BY DEF Tells
<1>1. Prefix(l, m) /\ n \in Nat /\ Len(l) \in Nat
  BY DEF Grown, Prefix
<1>2. CASE n \in DOMAIN l
  <2>1. n \in 0 .. Len(l) /\ m[n] = l[n]
    BY <1>1, <1>2 DEF Prefix
  <2>2. \A c : In(m, p, T, Len(m), c, n) <=> In(l, p, S, Len(l), c, n)
    BY <2>1, GrownIn
  <2>3. n <= Len(l)
    BY <2>1
  <2> QED BY <1>2, <2>1, <2>2, <2>3 DEF Tells, Changes
<1>3. CASE n \notin DOMAIN l
  <2>1. n > Len(l)
    BY <1>1, <1>3 DEF Prefix
  <2>2. \A c : /\ n < b => (In(m, p, T, Len(m), c, n) <=> c \in S)
               /\ b <= n => (In(m, p, T, Len(m), c, n) <=> c \in T)
    BY <1>1, <2>1, GrownAt
  <2>3. /\ b \in Nat
        /\ Changes(m, p, n) => n = b
        /\ n < b => Fits(m[n], p, S)
        /\ b < n => Fits(m[n], p, T)
        /\ n = b => /\ Changes(m, p, n)
                    /\ m[n].add \cap S = {} /\ m[n].remove \subseteq S
                    /\ T = (S \ m[n].remove) \cup m[n].add
    BY <1>3 DEF Grown
  <2>4. CASE n < b
    BY <2>2, <2>3, <2>4 DEF Fits
  <2>5. CASE b < n
    BY <2>2, <2>3, <2>5 DEF Fits
  <2>6. CASE n = b
    <3>1. m[n].kind # "event"
      BY <2>3, <2>6 DEF Changes
    <3> QED BY <2>2, <2>3, <2>6, <3>1
  <2> QED BY <1>1, <2>3, <2>4, <2>5, <2>6
<1> QED BY <1>2, <1>3
-----------------------------------------------------------------------------
(* What one call adds, for each player in the world *)

On(p) == {c \in Channels : subs[p][c] # Off}

LEMMA PrefixAppended ==
  ASSUME NEW l \in Seq(Events), NEW es \in Seq(Events)
  PROVE  Prefix(l, l \o es)
BY DEF Prefix

\* A call whose i-th event, if it has one, changes where p is from S to T.
LEMMA GrownBy ==
  ASSUME NEW l \in Seq(Events), NEW es \in Seq(Events), NEW p, NEW S, NEW T,
         NEW i \in 1 .. Len(es) + 1,
         \A j \in 1 .. Len(es) : /\ j # i => ~(es[j].kind = "subs" /\ es[j].ch = p)
                                 /\ j < i => Fits(es[j], p, S)
                                 /\ i < j => Fits(es[j], p, T),
         i = Len(es) + 1 => T = S,
         i # Len(es) + 1 => /\ es[i].kind = "subs" /\ es[i].ch = p
                            /\ es[i].add \cap S = {} /\ es[i].remove \subseteq S
                            /\ T = (S \ es[i].remove) \cup es[i].add
  PROVE  Grown(l, l \o es, p, S, T, Len(l) + i)
<1> DEFINE m == l \o es
           b == Len(l) + i
<1>1. Prefix(l, m)
  BY PrefixAppended
<1>2. /\ Len(m) = Len(l) + Len(es) /\ Len(l) \in Nat /\ Len(es) \in Nat
      /\ DOMAIN m = 1 .. Len(l) + Len(es) /\ DOMAIN l = 1 .. Len(l)
      /\ \A j \in 1 .. Len(es) : m[Len(l) + j] = es[j]
  OBVIOUS
<1>3. ASSUME NEW n \in DOMAIN m \ DOMAIN l
      PROVE  /\ Changes(m, p, n) => n = b
             /\ n < b => Fits(m[n], p, S)
             /\ b < n => Fits(m[n], p, T)
  <2> DEFINE j == n - Len(l)
  <2>1. j \in 1 .. Len(es) /\ n = Len(l) + j /\ m[n] = es[j]
    BY <1>2, SMTT(30)
  <2> HIDE DEF j, m
  <2>2. /\ j # i => ~(m[n].kind = "subs" /\ m[n].ch = p)
        /\ j < i => Fits(m[n], p, S)
        /\ i < j => Fits(m[n], p, T)
    BY <2>1
  <2>3. (n = b <=> j = i) /\ (n < b <=> j < i) /\ (b < n <=> i < j)
    <3> DEFINE L == Len(l)
    <3>1. j \in Int /\ i \in Int /\ L \in Int /\ n = L + j /\ b = L + i
      BY <1>2, <2>1
    <3> HIDE DEF L, b
    <3>2. n = b <=> j = i
      BY <3>1
    <3>3. n < b <=> j < i
      BY <3>1
    <3>4. b < n <=> i < j
      BY <3>1
    <3> QED BY <3>2, <3>3, <3>4
  <2> QED BY <2>2, <2>3 DEF Changes
<1>4. b \in DOMAIN m <=> i # Len(es) + 1
  BY <1>2
<1>5. i # Len(es) + 1 => m[b] = es[i]
  BY <1>2
<1>6. b \in Nat /\ Len(l) < b
  BY <1>2
<1> HIDE DEF m, b
<1>7. Grown(l, m, p, S, T, b)
  BY <1>1, <1>3, <1>4, <1>5, <1>6 DEF Grown, Changes
<1> QED BY <1>7 DEF m, b

\* Events that go to q just when they should, and move q nowhere.
Fitting(q) == {e \in Events : Fits(e, q, On(q)) /\ ~(e.kind = "subs" /\ e.ch = q)}

LEMMA FittingEvents ==
  ASSUME TypeOK, SubsMatchPlace, NEW q \in Players, InWorld(q),
         NEW p \in Players, NEW s \in Nat, NEW c \in Channels \ Players,
         NEW a \in SUBSET Channels, NEW b \in SUBSET Channels
  PROVE  /\ Here(c) \in Fitting(q)
         /\ Own(p) \in Fitting(q)
         /\ Kick(p, s) \in Fitting(q)
         /\ p # q => Subs(p, a, b) \in Fitting(q)
         /\ p # q => Event(c, Listeners(c) \cup {p}) \in Fitting(q)
<1>1. /\ Here(c) \in Events /\ Own(p) \in Events /\ Kick(p, s) \in Events
      /\ Subs(p, a, b) \in Events
      /\ Event(c, Listeners(c) \cup {p}) \in Events
  <2>1. Listeners(c) \cup {p} \in SUBSET Players
    BY DEF Listeners
  <2> QED BY <2>1, EventTypes
<1>2. c # q /\ (q \in Listeners(c) <=> c \in On(q)) /\ (p \in On(q) <=> p = q)
  BY NoOthersStream DEF Listeners, On, Channels
<1>3. Here(c) \in Fitting(q)
  BY <1>1, <1>2 DEF Fitting, Fits, Here, Event
<1>4. Own(p) \in Fitting(q)
  BY <1>1, <1>2 DEF Fitting, Fits, Own, Event
<1>5. Kick(p, s) \in Fitting(q) /\ (p # q => Subs(p, a, b) \in Fitting(q))
  BY <1>1 DEF Fitting, Fits, Kick, Subs
<1>6. p # q => Event(c, Listeners(c) \cup {p}) \in Fitting(q)
  BY <1>1, <1>2 DEF Fitting, Fits, Event
<1> QED BY <1>3, <1>4, <1>5, <1>6

\* A step of the world, for a player who is in it: the stream grows, and
\* tells where they are then.
HearsOn(q) ==
  \E T \in SUBSET Channels : \E b \in Nat :
    /\ Grown(log, log', q, On(q), T, b)
    /\ session'[q] # NoSession =>
         /\ T = {c \in Channels : subs'[q][c] # Off}
         /\ \A c \in Channels :
              \/ subs'[q][c] \in {subs[q][c], Off}
              \/ b \in DOMAIN log' /\ subs'[q][c] = b /\ c \in log'[b].add
         /\ entered'[q] = entered[q] /\ expiring'[q] = expiring[q]
         /\ gone'[q] = gone[q]

LEMMA HearsQuiet ==
  ASSUME TypeOK, NEW q \in Players, NEW es \in Seq(Fitting(q)), log' = log \o es,
         session'[q] # NoSession =>
           /\ subs'[q] = subs[q] /\ entered'[q] = entered[q] /\ expiring'[q] = expiring[q]
           /\ gone'[q] = gone[q]
  PROVE  HearsOn(q)
<1> DEFINE i == Len(es) + 1
           S == On(q)
<1>1. es \in Seq(Events) /\ i \in 1 .. Len(es) + 1 /\ i \in Nat /\ Len(log) \in Nat
  BY DEF Fitting, TypeOK
<1>2. \A j \in 1 .. Len(es) : es[j] \in Fitting(q)
  OBVIOUS
<1>3. \A j \in 1 .. Len(es) : /\ j # i => ~(es[j].kind = "subs" /\ es[j].ch = q)
                              /\ j < i => Fits(es[j], q, S)
                              /\ i < j => Fits(es[j], q, S)
  BY <1>2 DEF Fitting
<1>4. log \in Seq(Events) /\ S \in SUBSET Channels
  BY DEF TypeOK, On
<1> HIDE DEF S
<1>5. Grown(log, log \o es, q, S, S, Len(log) + i)
  BY <1>1, <1>3, <1>4, GrownBy
<1> DEFINE b == Len(log) + i
<1>6. b \in Nat /\ Grown(log, log', q, S, S, b)
  BY <1>1, <1>5
<1>7. session'[q] # NoSession =>
        /\ S = {c \in Channels : subs'[q][c] # Off}
        /\ \A c \in Channels : subs'[q][c] \in {subs[q][c], Off}
  BY DEF S, On
<1> HIDE DEF b
<1> QED BY <1>4, <1>6, <1>7 DEF HearsOn, S

\* The same where the i-th event of the call moves the player.
LEMMA HearsMoved ==
  ASSUME TypeOK, NEW q \in Players, NEW es \in Seq(Events), log' = log \o es,
         NEW i \in 1 .. Len(es), NEW T \in SUBSET Channels,
         NEW add \in SUBSET Channels, NEW remove \in SUBSET Channels,
         es[i] = Subs(q, add, remove),
         add \cap On(q) = {}, remove \subseteq On(q), T = (On(q) \ remove) \cup add,
         \A j \in 1 .. Len(es) : /\ j < i => es[j] \in Fitting(q)
                                 /\ i < j => /\ Fits(es[j], q, T)
                                             /\ es[j].kind # "subs",
         subs' = Resubscribed(q, add, remove, Len(log) + i),
         entered'[q] = entered[q], expiring'[q] = expiring[q], gone'[q] = gone[q]
  PROVE  HearsOn(q)
<1> DEFINE S == On(q)
           b == Len(log) + i
<1>1. /\ Len(es) \in Nat /\ Len(log) \in Nat /\ i \in 1 .. Len(es) + 1
      /\ i # Len(es) + 1 /\ log \in Seq(Events)
  BY DEF TypeOK
<1>2. /\ es[i].kind = "subs" /\ es[i].ch = q
      /\ es[i].add = add /\ es[i].remove = remove
  BY DEF Subs
<1>3. \A j \in 1 .. Len(es) : /\ j # i => ~(es[j].kind = "subs" /\ es[j].ch = q)
                              /\ j < i => Fits(es[j], q, S)
                              /\ i < j => Fits(es[j], q, T)
  <2> TAKE j \in 1 .. Len(es)
  <2>1. j # i => j < i \/ i < j
    BY <1>1
  <2>2. j < i => es[j] \in Fitting(q)
    OBVIOUS
  <2>3. i < j => Fits(es[j], q, T) /\ es[j].kind # "subs"
    OBVIOUS
  <2> QED BY <2>1, <2>2, <2>3 DEF Fitting
<1> HIDE DEF S
<1>4. Grown(log, log \o es, q, S, T, b)
  BY <1>1, <1>2, <1>3, GrownBy DEF S
<1>5. b \in DOMAIN log' /\ log'[b] = es[i] /\ b \in Nat
  BY <1>1
<1> HIDE DEF b
<1>6. subs'[q] = [c \in Channels |-> IF c \in add THEN b ELSE IF c \in remove THEN Off ELSE subs[q][c]]
  BY DEF Resubscribed, b, TypeOK
<1>7. T = {c \in Channels : subs'[q][c] # Off}
  BY <1>5, <1>6 DEF On, Off
<1>8. \A c \in Channels : \/ subs'[q][c] \in {subs[q][c], Off}
                          \/ b \in DOMAIN log' /\ subs'[q][c] = b /\ c \in log'[b].add
  BY <1>2, <1>5, <1>6
<1> QED BY <1>4, <1>5, <1>7, <1>8 DEF HearsOn, S
LEMMA TwoMore ==
  ASSUME NEW S, NEW s \in Seq(S), NEW x \in S, NEW y \in S
  PROVE  /\ s \o <<x, y>> \in Seq(S)
         /\ Len(s \o <<x, y>>) = Len(s) + 2
         /\ (s \o <<x, y>>)[Len(s) + 1] = x
         /\ (s \o <<x, y>>)[Len(s) + 2] = y
         /\ \A j \in 1 .. Len(s) : (s \o <<x, y>>)[j] = s[j]
<1>1. <<x, y>> \in Seq(S) /\ Len(<<x, y>>) = 2
  OBVIOUS
<1>2. <<x, y>>[1] = x /\ <<x, y>>[2] = y
  OBVIOUS
<1> DEFINE two == <<x, y>>
<1> HIDE DEF two
<1>3. /\ s \o two \in Seq(S) /\ Len(s \o two) = Len(s) + 2
      /\ \A j \in 1 .. Len(s) : (s \o two)[j] = s[j]
      /\ (s \o two)[Len(s) + 1] = two[1] /\ (s \o two)[Len(s) + 2] = two[2]
  BY <1>1 DEF two
<1> QED BY <1>2, <1>3 DEF two

LEMMA HearsEnter ==
  ASSUME TypeOK, Uncut, SubsMatchPlace, NEW t \in Tabs, Enter(t),
         NEW q \in Players, InWorld(q)
  PROVE  HearsOn(q)
<1> DEFINE p == Who[t]
           r == room[p]
           arrival == <<Here(r)>>
           there == IF r \in Waypoints THEN standing \cup {p} ELSE standing
           add == PlaceChannels(p, r, there) \cup (IF greeted[p] THEN {} ELSE DefaultChats)
           es == arrival \o <<Subs(p, add, {}), Own(p)>>
<1>1. /\ p \in Players /\ p # q /\ r \in Channels \ Players /\ add \in SUBSET Channels
      /\ {} \in SUBSET Channels
  <2>1. p \in Players /\ r \in Rooms
    BY DeliveryAssumption DEF DeliveryAssumption, TypeOK
  <2>2. r \in Channels \ Players
    BY <2>1, DeliveryAssumption DEF DeliveryAssumption, Channels
  <2> QED BY <2>1, <2>2, PlaceIsNotChat, DeliveryAssumption DEF DeliveryAssumption, Enter, Channels
<1>2. Here(r) \in Fitting(q) /\ Subs(p, add, {}) \in Fitting(q) /\ Own(p) \in Fitting(q)
  <2> HIDE DEF add, p, r
  <2> QED BY <1>1, FittingEvents
<1>3. arrival \in Seq(Fitting(q)) /\ <<Subs(p, add, {}), Own(p)>> \in Seq(Fitting(q))
  BY <1>2
<1>4. es \in Seq(Fitting(q)) /\ log' = log \o es
  BY <1>3 DEF Enter, Emit
<1> HIDE DEF es
<1>5. gone'[q] = gone[q]
  BY SparesEnter DEF Spares
<1>6. subs'[q] = subs[q] /\ entered'[q] = entered[q] /\ expiring'[q] = expiring[q]
  BY <1>1 DEF Enter, Resubscribed, TypeOK
<1> QED BY <1>4, <1>5, <1>6, HearsQuiet

\* A stream that is written to twice.
LEMMA AppendTwice ==
  ASSUME NEW S, NEW l \in Seq(S), NEW a \in S, NEW b \in S
  PROVE  Append(Append(l, a), b) = l \o <<a, b>>
OBVIOUS

LEMMA HearsTakeOver ==
  ASSUME TypeOK, Uncut, SubsMatchPlace, NEW t \in Tabs, TakeOver(t),
         NEW q \in Players, InWorld(q), ~expiring[q]
  PROVE  HearsOn(q)
<1> DEFINE p == Who[t]
           es == <<Kick(p, session[p]), Own(p)>>
<1>1. p \in Players /\ session[p] \in Nat
  BY DeliveryAssumption DEF DeliveryAssumption, TypeOK
<1>2. Kick(p, session[p]) \in Fitting(q) /\ Own(p) \in Fitting(q)
  <2>1. StartRoom \in Channels \ Players
    BY DeliveryAssumption DEF DeliveryAssumption, Channels
  <2> QED BY <1>1, <2>1, FittingEvents
<1>3. es \in Seq(Fitting(q))
  BY <1>2
<1>4. log' = Append(Append(log, Kick(p, session[p])), Own(p))
  BY DEF TakeOver
<1>5. log' = log \o es
  <2>1. log \in Seq(Events) /\ Kick(p, session[p]) \in Events /\ Own(p) \in Events
    BY <1>2 DEF TypeOK, Fitting
  <2> QED BY <2>1, <1>4, AppendTwice
<1> HIDE DEF es
<1>6. gone'[q] = gone[q]
  BY SparesTakeOver DEF Spares
<1>7. subs'[q] = subs[q] /\ entered'[q] = entered[q] /\ expiring'[q] = expiring[q]
  BY DEF TakeOver, TypeOK
<1> QED BY <1>3, <1>5, <1>6, <1>7, HearsQuiet

LEMMA HearsLeaveWorld ==
  ASSUME TypeOK, Uncut, SubsMatchPlace, NEW p \in Players, LeaveWorld(p),
         NEW q \in Players, InWorld(q)
  PROVE  HearsOn(q)
<1> DEFINE es == <<Here(room[p]), Kick(p, session[p])>>
<1>1. session[p] \in Nat /\ room[p] \in Channels \ Players
  BY DeliveryAssumption DEF DeliveryAssumption, TypeOK, Channels
<1>2. Here(room[p]) \in Fitting(q) /\ Kick(p, session[p]) \in Fitting(q)
  BY <1>1, FittingEvents
<1>3. es \in Seq(Fitting(q)) /\ log' = log \o es
  BY <1>2 DEF LeaveWorld, Emit
<1> HIDE DEF es
<1>4. gone'[q] = gone[q]
  BY SparesLeaveWorld DEF Spares
<1>5. session'[q] # NoSession =>
        subs'[q] = subs[q] /\ entered'[q] = entered[q] /\ expiring'[q] = expiring[q]
  BY DEF LeaveWorld, TypeOK
<1> QED BY <1>3, <1>4, <1>5, HearsQuiet

LEMMA HearsRelocate ==
  ASSUME TypeOK, Uncut, SubsMatchPlace, NEW p \in Players, NEW d \in Rooms, Relocate(p, d),
         NEW q \in Players, InWorld(q)
  PROVE  HearsOn(q)
<1> DEFINE r == room[p]
           leave == IF r \in Waypoints /\ p \notin standing THEN <<>> ELSE <<Here(r)>>
           arrive == IF d \in Waypoints THEN <<>> ELSE <<Here(d)>>
           there == standing \ {p}
           add == PlaceChannels(p, d, there) \ PlaceChannels(p, r, standing)
           remove == PlaceChannels(p, r, standing) \ PlaceChannels(p, d, there)
           es == leave \o arrive \o <<Subs(p, add, remove), Own(p)>>
           i == Len(leave) + Len(arrive) + 1
<1>1. /\ r \in Channels \ Players /\ d \in Channels \ Players
      /\ add \in SUBSET Channels /\ remove \in SUBSET Channels
  <2>1. r \in Rooms
    BY DEF TypeOK
  <2> QED BY <2>1, PlaceType, DeliveryAssumption DEF DeliveryAssumption, Channels
<1>2. /\ Here(r) \in Fitting(q) /\ Here(d) \in Fitting(q) /\ Own(p) \in Fitting(q)
      /\ p # q => Subs(p, add, remove) \in Fitting(q)
  <2>1. 0 \in Nat
    OBVIOUS
  <2> HIDE DEF add, remove, r
  <2> QED BY <1>1, <2>1, FittingEvents
<1>3. log' = log \o es /\ gone'[q] = gone[q] /\ entered' = entered /\ expiring' = expiring
  BY EmitsRelocate, EmitSpares DEF Relocate, Emit, Spares
<1>4. leave \in Seq(Fitting(q)) /\ arrive \in Seq(Fitting(q))
      /\ leave \o arrive \in Seq(Fitting(q))
  <2>1. leave \in Seq(Fitting(q)) /\ arrive \in Seq(Fitting(q))
    BY <1>2
  <2> HIDE DEF leave, arrive
  <2> QED BY <2>1
<1>5. subs' = Resubscribed(p, add, remove, Len(log) + i)
  <2>1. subs' = Resubscribed(p, add, remove, Len(log) + Len(leave) + Len(arrive) + 1)
    BY DEF Relocate
  <2>2. Len(log) \in Nat /\ Len(leave) \in Nat /\ Len(arrive) \in Nat
    <3> HIDE DEF leave, arrive
    <3> QED BY <1>4 DEF TypeOK
  <2> HIDE DEF leave, arrive, add, remove
  <2>3. Len(log) + Len(leave) + Len(arrive) + 1 = Len(log) + i
    BY <2>2
  <2> QED BY <2>1, <2>3
<1>6. CASE p # q
  <2>1. <<Subs(p, add, remove), Own(p)>> \in Seq(Fitting(q))
    BY <1>2, <1>6
  <2>2. es \in Seq(Fitting(q))
    <3> HIDE DEF leave, arrive, add, remove
    <3> QED BY <1>4, <2>1
  <2>3. subs'[q] = subs[q]
    BY <1>5, <1>6 DEF Resubscribed, TypeOK
  <2> HIDE DEF es
  <2> QED BY <1>3, <2>2, <2>3, HearsQuiet
<1>7. CASE p = q
  <2> DEFINE T == (On(p) \ remove) \cup add
             x == Subs(p, add, remove)
             y == Own(p)
  <2>1. x \in Events /\ y \in Events
    <3> HIDE DEF add, remove
    <3> QED BY <1>1, EventTypes DEF Channels
  <2>2. add \cap On(p) = {} /\ remove \subseteq On(p)
    <3>1. \A c \in Channels \ Chats : c \in On(p) <=> c \in PlaceChannels(p, r, standing)
      BY <1>7 DEF SubsMatchPlace, On
    <3>2. PlaceChannels(p, r, standing) \in SUBSET (Channels \ Chats)
          /\ PlaceChannels(p, d, there) \in SUBSET (Channels \ Chats)
      <4>1. r \in Rooms
        BY DEF TypeOK
      <4> QED BY <4>1, PlaceIsNotChat
    <3> QED BY <3>1, <3>2
  <2>3. T \in SUBSET Channels
    BY <1>1 DEF On
  <2>4. y.ch = p /\ p \in y.to /\ y.kind = "event"
    BY DEF Own, Event
  <2>5. Fits(y, q, T) /\ y.kind # "subs"
    BY <1>7, <2>4 DEF Fits
  <2> DEFINE pre == leave \o arrive
  <2>6. /\ pre \in Seq(Fitting(q)) /\ pre \in Seq(Events) /\ i = Len(pre) + 1
        /\ Len(pre) \in Nat
    <3>1. pre \in Seq(Fitting(q)) /\ Len(pre) = Len(leave) + Len(arrive)
      <4> HIDE DEF leave, arrive
      <4> QED BY <1>4
    <3> HIDE DEF pre, leave, arrive
    <3>2. pre \in Seq(Events)
      BY <3>1 DEF Fitting
    <3> QED BY <3>1, <3>2
  <2> HIDE DEF leave, arrive, x, y, T, pre, i
  <2>7. es = pre \o <<x, y>>
    BY DEF pre, x, y
  <2>8. /\ es \in Seq(Events) /\ Len(es) = Len(pre) + 2
        /\ es[i] = x /\ es[Len(pre) + 2] = y
        /\ \A j \in 1 .. Len(pre) : es[j] = pre[j]
    <3> HIDE DEF es
    <3> QED BY <2>1, <2>6, <2>7, TwoMore
  <2>9. \A j \in 1 .. Len(es) : /\ j < i => es[j] \in Fitting(q)
                                /\ i < j => Fits(es[j], q, T) /\ es[j].kind # "subs"
    <3> TAKE j \in 1 .. Len(es)
    <3>1. CASE j < i
      <4>1. j \in 1 .. Len(pre)
        BY <2>6, <2>8, <3>1
      <4>2. es[j] = pre[j] /\ pre[j] \in Fitting(q)
        BY <2>6, <2>8, <4>1
      <4>3. ~(i < j)
        BY <2>6, <2>8, <3>1
      <4> QED BY <4>2, <4>3
    <3>2. CASE ~(j < i)
      <4>1. i < j => j = Len(pre) + 2
        BY <2>6, <2>8, <3>2
      <4> QED BY <2>5, <2>8, <3>2, <4>1
    <3> QED BY <3>1, <3>2
  <2>10. i \in 1 .. Len(es)
    BY <2>6, <2>8
  <2>11. es[i] = Subs(q, add, remove) /\ subs' = Resubscribed(q, add, remove, Len(log) + i)
    BY <1>5, <1>7, <2>8 DEF x
  <2> HIDE DEF es, add, remove
  <2> QED BY <1>1, <1>3, <1>7, <2>2, <2>3, <2>8, <2>9, <2>10, <2>11, HearsMoved DEF T
<1> QED BY <1>6, <1>7
LEMMA HearsTalk ==
  ASSUME TypeOK, Uncut, SubsMatchPlace, NEW p \in Players, NEW ch \in Chats,
         Join(p, ch) \/ Leave(p, ch) \/ Chat(p, ch),
         NEW q \in Players, InWorld(q)
  PROVE  HearsOn(q)
<1> DEFINE e == Event(ch, Listeners(ch) \cup {p})
<1>1. /\ ch \in Channels \ Players /\ {ch} \in SUBSET Channels /\ {} \in SUBSET Channels
      /\ Listeners(ch) \cup {p} \in SUBSET Players /\ 0 \in Nat
  BY DeliveryAssumption DEF DeliveryAssumption, Channels, Listeners
<1>2. /\ Here(ch) \in Fitting(q)
      /\ p # q => /\ Subs(p, {ch}, {}) \in Fitting(q) /\ Subs(p, {}, {ch}) \in Fitting(q)
                  /\ e \in Fitting(q)
  BY <1>1, FittingEvents
<1>3. /\ Subs(p, {ch}, {}) \in Events /\ Subs(p, {}, {ch}) \in Events
      /\ e \in Events /\ Here(ch) \in Events
  BY <1>1, EventTypes
<1>4. gone'[q] = gone[q] /\ entered' = entered /\ expiring' = expiring
  BY EmitsTalk, EmitSpares DEF Join, Leave, Chat, quiet, Spares
<1>5. CASE Chat(p, ch)
  <2>1. <<Here(ch)>> \in Seq(Fitting(q)) /\ log' = log \o <<Here(ch)>>
    BY <1>2, <1>5 DEF Chat, Emit
  <2>2. subs' = subs
    BY <1>5 DEF Chat, quiet
  <2> QED BY <1>4, <2>1, <2>2, HearsQuiet
<1>6. CASE Join(p, ch)
  <2> DEFINE es == <<Subs(p, {ch}, {}), e>>
  <2>1. log' = log \o es /\ subs' = Resubscribed(p, {ch}, {}, Len(log) + 1)
    BY <1>6 DEF Join, Emit
  <2>2. CASE p # q
    <3>1. es \in Seq(Fitting(q))
      BY <1>2, <2>2
    <3>2. subs'[q] = subs[q]
      BY <2>1, <2>2 DEF Resubscribed, TypeOK
    <3> HIDE DEF es
    <3> QED BY <1>4, <2>1, <3>1, <3>2, HearsQuiet
  <2>3. CASE p = q
    <3> DEFINE T == (On(q) \ {}) \cup {ch}
    <3>1. {ch} \cap On(q) = {} /\ {} \subseteq On(q) /\ T \in SUBSET Channels
      BY <1>1, <1>6, <2>3 DEF Join, On
    <3>2. Fits(e, q, T) /\ e.kind # "subs"
      BY <2>3 DEF Event, Fits
    <3>3. es \in Seq(Events) /\ Len(es) = 2 /\ es[1] = Subs(q, {ch}, {}) /\ es[2] = e
      BY <1>3, <2>3
    <3> HIDE DEF es, T, e
    <3>4. \A j \in 1 .. Len(es) : /\ j < 1 => es[j] \in Fitting(q)
                                  /\ 1 < j => Fits(es[j], q, T) /\ es[j].kind # "subs"
      <4> TAKE j \in 1 .. Len(es)
      <4>1. ~(j < 1) /\ (1 < j => j = 2)
        BY <3>3
      <4> QED BY <3>2, <3>3, <4>1
    <3>5. 1 \in 1 .. Len(es)
      BY <3>3
    <3> QED BY <1>1, <1>4, <2>1, <2>3, <3>1, <3>3, <3>4, <3>5, HearsMoved DEF T
  <2> QED BY <2>2, <2>3
<1>7. CASE Leave(p, ch)
  <2> DEFINE es == <<Here(ch), Subs(p, {}, {ch})>>
  <2>1. log' = log \o es /\ subs' = Resubscribed(p, {}, {ch}, Len(log) + 2)
    BY <1>7 DEF Leave, Emit
  <2>2. CASE p # q
    <3>1. es \in Seq(Fitting(q))
      BY <1>2, <2>2
    <3>2. subs'[q] = subs[q]
      BY <2>1, <2>2 DEF Resubscribed, TypeOK
    <3> HIDE DEF es
    <3> QED BY <1>4, <2>1, <3>1, <3>2, HearsQuiet
  <2>3. CASE p = q
    <3> DEFINE T == (On(q) \ {ch}) \cup {}
    <3>1. {} \cap On(q) = {} /\ {ch} \subseteq On(q) /\ T \in SUBSET Channels
      BY <1>1, <1>7, <2>3 DEF Leave, On
    <3>2. es \in Seq(Events) /\ Len(es) = 2 /\ es[2] = Subs(q, {}, {ch}) /\ es[1] = Here(ch)
      BY <1>3, <2>3
    <3> HIDE DEF es, T
    <3>3. \A j \in 1 .. Len(es) : /\ j < 2 => es[j] \in Fitting(q)
                                  /\ 2 < j => Fits(es[j], q, T) /\ es[j].kind # "subs"
      <4> TAKE j \in 1 .. Len(es)
      <4>1. ~(2 < j) /\ (j < 2 => j = 1)
        BY <3>2
      <4> QED BY <1>2, <3>2, <4>1
    <3>4. 2 \in 1 .. Len(es)
      BY <3>2
    <3> QED BY <1>1, <1>4, <2>1, <2>3, <3>1, <3>2, <3>3, <3>4, HearsMoved, ZenonT(60) DEF T
  <2> QED BY <2>2, <2>3
<1> QED BY <1>5, <1>6, <1>7

LEMMA HearsTell ==
  ASSUME TypeOK, Uncut, SubsMatchPlace, NEW p \in Players, NEW r \in Players, Tell(p, r),
         NEW q \in Players, InWorld(q)
  PROVE  HearsOn(q)
<1> DEFINE es == <<Own(r), Own(p)>>
<1>1. StartRoom \in Channels \ Players /\ 0 \in Nat /\ {} \in SUBSET Channels
  BY DeliveryAssumption DEF DeliveryAssumption, Channels
<1>2. Own(r) \in Fitting(q) /\ Own(p) \in Fitting(q)
  BY <1>1, FittingEvents
<1>3. es \in Seq(Fitting(q)) /\ log' = log \o es
  BY <1>2 DEF Tell, Emit
<1> HIDE DEF es
<1>4. gone'[q] = gone[q] /\ UNCHANGED <<subs, entered, expiring>>
  BY EmitsTell, EmitSpares DEF Tell, quiet, Spares
<1> QED BY <1>3, <1>4, HearsQuiet

LEMMA HearsHappen ==
  ASSUME TypeOK, Uncut, SubsMatchPlace, NEW c \in Ambient, Happen(c),
         NEW q \in Players, InWorld(q)
  PROVE  HearsOn(q)
<1>1. c \in Channels \ Players /\ 0 \in Nat /\ {} \in SUBSET Channels
  BY DeliveryAssumption DEF DeliveryAssumption, Channels
<1>2. Here(c) \in Fitting(q)
  BY <1>1, FittingEvents
<1>3. <<Here(c)>> \in Seq(Fitting(q)) /\ log' = log \o <<Here(c)>>
  BY <1>2 DEF Happen, Emit
<1>4. gone'[q] = gone[q] /\ UNCHANGED <<subs, entered, expiring>>
  BY EmitsHappen, EmitSpares DEF Happen, quiet, Spares
<1> QED BY <1>3, <1>4, HearsQuiet

LEMMA EachHears ==
  ASSUME TypeOK, Uncut, SubsMatchPlace, [Next]_vars,
         NEW q \in Players, InWorld(q), ~expiring[q]
  PROVE  HearsOn(q)
<1>1. ASSUME log' = log, UNCHANGED <<subs, entered>>, expiring'[q] = expiring[q], gone'[q] = gone[q]
      PROVE  HearsOn(q)
  <2>1. <<>> \in Seq(Fitting(q)) /\ log' = log \o <<>>
    BY <1>1 DEF TypeOK
  <2> QED BY <1>1, <2>1, HearsQuiet
<1>2. ASSUME NEW t \in Tabs, ClientStep(t) PROVE HearsOn(q)
  <2>1. Who[t] \in Players
    BY DeliveryAssumption DEF DeliveryAssumption
  <2>2. CASE Enter(t)
    BY <2>2, HearsEnter
  <2>3. CASE TakeOver(t)
    BY <2>3, HearsTakeOver
  <2>4. CASE Quit(t) /\ Holds(t)
    BY <2>1, <2>4, HearsLeaveWorld DEF Quit
  <2>5. CASE (Quit(t) /\ ~Holds(t)) \/ Open(t) \/ Read(t) \/ BreakOff(t) \/ Drop(t)
    BY <1>1, <2>5 DEF Quit, Open, Read, BreakOff, Drop, worldVars
  <2> QED BY <1>2, <2>2, <2>3, <2>4, <2>5 DEF ClientStep
<1>3. ASSUME NEW p \in Players, PlayerStep(p) PROVE HearsOn(q)
  <2>1. CASE Reap(p)
    BY <2>1, HearsLeaveWorld DEF Reap
  <2>2. CASE Expire(p)
    <3>1. p # q
      BY <2>2 DEF Expire
    <3>2. gone'[q] = gone[q] /\ expiring'[q] = expiring[q]
      BY <2>2, <3>1 DEF Expire, Channels, TypeOK
    <3> QED BY <1>1, <2>2, <3>2 DEF Expire
  <2>3. CASE \E d \in Rooms : Relocate(p, d)
    BY <2>3, HearsRelocate
  <2>4. CASE \E ch \in Chats : Join(p, ch) \/ Leave(p, ch) \/ Chat(p, ch)
    BY <2>4, HearsTalk
  <2>5. CASE \E r \in Players : Tell(p, r)
    BY <2>5, HearsTell
  <2> QED BY <1>3, <2>1, <2>2, <2>3, <2>4, <2>5 DEF PlayerStep
<1>4. ASSUME NEW c \in Ambient, Happen(c) PROVE HearsOn(q)
  BY <1>4, HearsHappen
<1>5. CASE UNCHANGED vars
  BY <1>1, <1>5 DEF vars, worldVars
<1> QED BY <1>2, <1>3, <1>4, <1>5 DEF Next
-----------------------------------------------------------------------------
(* A stay in the world *)

\* Chats are joined at some number in the past, also those kept while away.
ChatsJoined == \A p \in Players : \A c \in Chats : subs[p][c] <= Len(log)

\* A stay in the world is told from its first event to now.
StayInv(p) ==
  InWorld(p) =>
    /\ Tells(log, p, On(p), entered[p], Len(log))
    /\ \A c \in Channels \ {p} : subs[p][c] > entered[p] =>
         /\ subs[p][c] \in DOMAIN log
         /\ Changes(log, p, subs[p][c])
         /\ c \in log[subs[p][c]].add
    /\ gone[p] <= entered[p] /\ ~expiring[p]

LEMMA StayEnters ==
  ASSUME TypeOK, Uncut, Remains, ChatsJoined, NEW t \in Tabs, Enter(t)
  PROVE  /\ StayInv(Who[t])'
         /\ \A c \in Chats : subs'[Who[t]][c] <= Len(log')
<1> DEFINE p == Who[t]
           r == room[p]
           arrival == <<Here(r)>>
           there == IF r \in Waypoints THEN standing \cup {p} ELSE standing
           add == PlaceChannels(p, r, there) \cup (IF greeted[p] THEN {} ELSE DefaultChats)
           x == Subs(p, add, {})
           y == Own(p)
           pre == log \o arrival
           now == Len(log) + Len(arrival)
           T == On(p)'
<1>1. /\ p \in Players /\ p \in Channels /\ r \in Channels /\ add \in SUBSET Channels
      /\ {} \in SUBSET Channels
  BY PlaceIsNotChat, DeliveryAssumption DEF DeliveryAssumption, TypeOK, Channels
<1>2. Here(r) \in Events /\ x \in Events /\ y \in Events
  <2> HIDE DEF add, p, r
  <2> QED BY <1>1, EventTypes DEF x, y
<1>3. arrival \in Seq(Events) /\ <<x, y>> \in Seq(Events) /\ log \in Seq(Events)
  BY <1>2, SMTT(30) DEF TypeOK
<1>4. /\ log' = log \o (arrival \o <<x, y>>)
      /\ subs' = Resubscribed(p, add, Channels \ Chats, now + 1)
      /\ entered' = [entered EXCEPT ![p] = now]
      /\ expiring' = [expiring EXCEPT ![p] = FALSE]
      /\ gone'[p] = gone[p]
  BY <1>1, SparesEnter DEF Enter, Emit, Spares
<1> HIDE DEF add, x, y, arrival
<1>5. log' = pre \o <<x, y>> /\ pre \in Seq(Events) /\ now = Len(pre)
  BY <1>3, <1>4, ConcatAssociative, ConcatProperties
<1> HIDE DEF pre
<1>6. /\ Len(log') = now + 2 /\ now \in Nat /\ DOMAIN log' = 1 .. now + 2
      /\ log'[now + 1] = x /\ log'[now + 2] = y
  BY <1>2, <1>5, TwoMore
<1>7. Len(log) <= now /\ Len(log) \in Nat
  BY <1>3
<1> HIDE DEF now
<1>8. subs'[p] = [c \in Channels |-> IF c \in add THEN now + 1
                                     ELSE IF c \in Channels \ Chats THEN Off ELSE subs[p][c]]
  BY <1>1, <1>4 DEF Resubscribed, TypeOK
<1>9. \A c \in add : c \in T
  BY <1>1, <1>6, <1>8 DEF On, Off
<1>10. /\ x.kind = "subs" /\ x.ch = p /\ x.add = add /\ x.remove = {}
       /\ y.kind = "event" /\ y.ch = p /\ p \in y.to
  BY DEF x, y, Subs, Own, Event
<1>11. Tells(log', p, T, now, Len(log'))
  <2> SUFFICES ASSUME NEW n \in DOMAIN log', now < n
               PROVE  /\ log'[n].kind = "event" =>
                           (p \in log'[n].to <=> (log'[n].ch = p \/ In(log', p, T, Len(log'), log'[n].ch, n)))
                      /\ Changes(log', p, n) =>
                           \A c \in (log'[n].add \cup log'[n].remove) \ {p} :
                             c \in log'[n].add <=> In(log', p, T, Len(log'), c, n)
    BY DEF Tells
  <2>1. n = now + 1 \/ n = now + 2
    BY <1>6
  <2>2. CASE n = now + 2
    BY <1>6, <1>10, <2>2 DEF Changes
  <2>3. CASE n = now + 1
    <3>1. \A c : Later(log', p, Len(log'), c, n) = {}
      BY <1>6, <1>10, <2>3 DEF Later, Changes
    <3>2. \A c \in add : In(log', p, T, Len(log'), c, n)
      BY <1>9, <3>1 DEF In
    <3> QED BY <1>6, <1>10, <2>3, <3>2
  <2> QED BY <2>1, <2>2, <2>3
<1>12. entered'[p] = now /\ expiring'[p] = FALSE
  BY <1>1, <1>4 DEF TypeOK
<1>13. ASSUME NEW c \in Channels \ {p}, subs'[p][c] > now
       PROVE  /\ subs'[p][c] \in DOMAIN log'
              /\ Changes(log', p, subs'[p][c])
              /\ c \in log'[subs'[p][c]].add
  <2>1. CASE c \in add
    <3>1. subs'[p][c] = now + 1
      BY <1>8, <2>1
    <3> QED BY <1>6, <1>10, <2>1, <3>1 DEF Changes
  <2>2. CASE c \notin add /\ c \in Chats
    <3>1. subs'[p][c] = subs[p][c] /\ subs[p][c] <= Len(log)
      BY <1>1, <1>8, <2>2 DEF ChatsJoined, Channels
    <3>2. subs[p][c] \in Nat \cup {Off}
      BY <1>1 DEF TypeOK
    <3> QED BY <1>6, <1>7, <1>13, <3>1, <3>2 DEF Off
  <2>3. CASE c \notin add /\ c \notin Chats
    <3>1. subs'[p][c] = Off
      BY <1>8, <2>3
    <3> QED BY <1>6, <1>13, <3>1 DEF Off
  <2> QED BY <2>1, <2>2, <2>3
<1>14. gone'[p] <= now
  BY <1>1, <1>4, <1>6, <1>7, SMTT(30) DEF Remains, TypeOK
<1>15. StayInv(p)'
  BY <1>11, <1>12, <1>13, <1>14 DEF StayInv, InWorld
<1>16. ASSUME NEW c \in Chats PROVE subs'[p][c] <= Len(log')
  <2>1. c \in Channels /\ subs[p][c] <= Len(log) /\ subs[p][c] \in Nat \cup {Off}
    BY <1>1 DEF ChatsJoined, TypeOK, Channels
  <2>2. subs'[p][c] = now + 1 \/ subs'[p][c] = subs[p][c]
    BY <1>8, <2>1
  <2> QED BY <1>6, <1>7, <2>1, <2>2 DEF Off
<1> QED BY <1>15, <1>16

LEMMA StayGoesOn ==
  ASSUME TypeOK, NEW p \in Players, StayInv(p), InWorld(p), HearsOn(p)
  PROVE  StayInv(p)'
<1> SUFFICES ASSUME session'[p] # NoSession PROVE StayInv(p)'
  BY DEF StayInv, InWorld
<1>1. PICK T \in SUBSET Channels, b \in Nat :
        /\ Grown(log, log', p, On(p), T, b)
        /\ T = {c \in Channels : subs'[p][c] # Off}
        /\ \A c \in Channels :
             \/ subs'[p][c] \in {subs[p][c], Off}
             \/ b \in DOMAIN log' /\ subs'[p][c] = b /\ c \in log'[b].add
        /\ entered'[p] = entered[p] /\ expiring'[p] = expiring[p]
        /\ gone'[p] = gone[p]
  BY DEF HearsOn
<1>2. entered[p] \in Nat
  BY DEF TypeOK
<1>3. Tells(log', p, T, entered[p], Len(log'))
  BY <1>1, <1>2, GrownTells DEF StayInv
<1>4. On(p)' = T
  BY <1>1 DEF On
<1>5. Prefix(log, log') /\ (b \in DOMAIN log' => Changes(log', p, b))
  BY <1>1 DEF Grown
<1>6. ASSUME NEW c \in Channels \ {p}, subs'[p][c] > entered[p]
      PROVE  /\ subs'[p][c] \in DOMAIN log'
             /\ Changes(log', p, subs'[p][c])
             /\ c \in log'[subs'[p][c]].add
  <2>1. CASE subs'[p][c] = subs[p][c]
    <3>1. /\ subs[p][c] \in DOMAIN log /\ Changes(log, p, subs[p][c])
          /\ c \in log[subs[p][c]].add
      BY <1>6, <2>1 DEF StayInv
    <3> QED BY <1>5, <2>1, <3>1 DEF Prefix, Changes
  <2>2. CASE subs'[p][c] = Off
    BY <1>2, <1>6, <2>2 DEF Off
  <2> QED BY <1>1, <1>5, <2>1, <2>2
<1> QED BY <1>1, <1>3, <1>4, <1>6 DEF StayInv, InWorld
\* A subscription to a chat is kept, dropped, or made by an event of this call.
LEMMA ChatsKept ==
  ASSUME TypeOK, Uncut, Remains, ChatsJoined, [Next]_vars,
         NEW p \in Players, NEW c \in Chats
  PROVE  subs'[p][c] \in {subs[p][c], Off} \/ subs'[p][c] <= Len(log')
<1>1. c \in Channels
  BY DEF Channels
<1>2. ASSUME NEW t \in Tabs, ClientStep(t)
      PROVE  subs'[p][c] \in {subs[p][c], Off} \/ subs'[p][c] <= Len(log')
  <2>1. CASE Enter(t) /\ p = Who[t]
    BY <2>1, StayEnters
  <2>2. CASE Enter(t) /\ p # Who[t]
    <3> DEFINE there == IF room[Who[t]] \in Waypoints THEN standing \cup {Who[t]} ELSE standing
               add == PlaceChannels(Who[t], room[Who[t]], there)
                        \cup (IF greeted[Who[t]] THEN {} ELSE DefaultChats)
               now == Len(log) + Len(<<Here(room[Who[t]])>>)
    <3>1. subs' = Resubscribed(Who[t], add, Channels \ Chats, now + 1)
      BY <2>2 DEF Enter
    <3> HIDE DEF add, now
    <3>2. Who[t] # p /\ subs \in [Players -> [Channels -> Nat \cup {Off}]]
      BY <2>2 DEF TypeOK
    <3>3. subs'[p] = subs[p]
      BY <3>1, <3>2 DEF Resubscribed
    <3> QED BY <3>3
  <2>3. CASE Quit(t)
    <3>1. Who[t] \in Players
      BY DeliveryAssumption DEF DeliveryAssumption
    <3>2. LeaveWorld(Who[t]) \/ subs' = subs
      BY <2>3 DEF Quit, worldVars
    <3>3. LeaveWorld(Who[t]) => subs'[p][c] = subs[p][c]
      BY <1>1, <3>1 DEF LeaveWorld, TypeOK
    <3> QED BY <3>2, <3>3
  <2>4. CASE TakeOver(t) \/ Open(t) \/ Read(t) \/ BreakOff(t) \/ Drop(t)
    BY <2>4 DEF TakeOver, Open, Read, BreakOff, Drop, worldVars
  <2> QED BY <1>2, <2>1, <2>2, <2>3, <2>4 DEF ClientStep
<1>3. ASSUME NEW q \in Players, PlayerStep(q)
      PROVE  subs'[p][c] \in {subs[p][c], Off} \/ subs'[p][c] <= Len(log')
  <2>1. CASE Reap(q)
    BY <1>1, <2>1 DEF Reap, LeaveWorld, TypeOK
  <2>2. CASE Expire(q)
    BY <2>2 DEF Expire
  <2>3. CASE \E d \in Rooms : Relocate(q, d)
    <3>1. PICK d \in Rooms : Relocate(q, d)
      BY <2>3
    <3> DEFINE old == PlaceChannels(q, room[q], standing)
               new == PlaceChannels(q, d, standing \ {q})
    <3>2. c \notin new /\ c \notin old
      BY PlaceIsNotChat DEF TypeOK
    <3>3. \E n : subs' = Resubscribed(q, new \ old, old \ new, n)
      BY <3>1 DEF Relocate
    <3> HIDE DEF old, new
    <3> QED BY <1>1, <3>2, <3>3 DEF Resubscribed, TypeOK
  <2>4. CASE \E ch \in Chats : Join(q, ch)
    <3>1. PICK ch \in Chats : Join(q, ch)
      BY <2>4
    <3>2. \E es \in Seq(Sparing) : Emit(es)
      BY <3>1, EmitsTalk
    <3>3. Len(log') = Len(log) + 2
      BY <3>1 DEF Join, Emit, TypeOK
    <3>4. subs'[p][c] \in {subs[p][c], Len(log) + 1}
      BY <1>1, <3>1 DEF Join, Resubscribed, TypeOK
    <3> QED BY <3>3, <3>4 DEF TypeOK
  <2>5. CASE \E ch \in Chats : Leave(q, ch) \/ Chat(q, ch)
    <3>1. ASSUME NEW ch \in Chats, Leave(q, ch) PROVE subs'[p][c] \in {subs[p][c], Off}
      <4>1. \E n : subs' = Resubscribed(q, {}, {ch}, n)
        BY <3>1 DEF Leave
      <4> QED BY <1>1, <4>1 DEF Resubscribed, TypeOK
    <3>2. ASSUME NEW ch \in Chats, Chat(q, ch) PROVE subs'[p][c] = subs[p][c]
      BY <3>2 DEF Chat, quiet
    <3> QED BY <2>5, <3>1, <3>2
  <2>6. CASE \E r \in Players : Tell(q, r)
    BY <2>6 DEF Tell, quiet
  <2> QED BY <1>3, <2>1, <2>2, <2>3, <2>4, <2>5, <2>6 DEF PlayerStep
<1>4. ASSUME NEW d \in Ambient, Happen(d) PROVE subs' = subs
  BY <1>4 DEF Happen, quiet
<1>5. CASE UNCHANGED vars
  BY <1>5 DEF vars, worldVars
<1> QED BY <1>2, <1>3, <1>4, <1>5 DEF Next

LEMMA ChatsJoinedNext ==
  Uncut /\ TypeOK /\ Remains /\ ChatsJoined /\ [Next]_vars => ChatsJoined'
<1> SUFFICES ASSUME Uncut, TypeOK, Remains, ChatsJoined, [Next]_vars,
                    NEW p \in Players, NEW c \in Chats
             PROVE  subs'[p][c] <= Len(log')
  BY DEF ChatsJoined
<1>1. subs[p][c] <= Len(log) /\ subs[p][c] \in Nat \cup {Off}
  BY DEF ChatsJoined, TypeOK, Channels
<1>2. Len(log) <= Len(log') /\ Len(log) \in Nat /\ Len(log') \in Nat
  <2>1. TypeOK'
    BY TypeNext
  <2>2. Lasts
    BY EachLasts
  <2>3. Len(log) <= Len(log')
    BY <2>2 DEF Lasts
  <2> QED BY <2>1, <2>3 DEF TypeOK
<1>3. subs'[p][c] \in {subs[p][c], Off} \/ subs'[p][c] <= Len(log')
  BY ChatsKept
<1> QED BY <1>1, <1>2, <1>3 DEF Off

\* Only connecting brings a player into the world.
LEMMA ComesByEntering ==
  ASSUME TypeOK, [Next]_vars, NEW p \in Players, ~InWorld(p), session'[p] # NoSession
  PROVE  \E t \in Tabs : Who[t] = p /\ Enter(t)
<1>1. session'[p] # session[p]
  BY DEF InWorld
<1>2. ASSUME NEW t \in Tabs, ClientStep(t) PROVE Who[t] = p /\ Enter(t)
  <2>1. Who[t] \in Players
    BY DeliveryAssumption DEF DeliveryAssumption
  <2>2. CASE Enter(t)
    BY <1>1, <2>1, <2>2 DEF Enter, TypeOK
  <2>3. CASE TakeOver(t)
    BY <1>1, <2>1, <2>3 DEF TakeOver, InWorld, TypeOK
  <2>4. CASE Quit(t) \/ Open(t) \/ Read(t) \/ BreakOff(t) \/ Drop(t)
    BY <1>1, <2>4 DEF Quit, LeaveWorld, Open, Read, BreakOff, Drop, worldVars, TypeOK
  <2> QED BY <1>2, <2>2, <2>3, <2>4 DEF ClientStep
<1>3. ASSUME NEW q \in Players, PlayerStep(q) PROVE FALSE
  BY <1>1, <1>3 DEF PlayerStep, Reap, LeaveWorld, Expire, Relocate, Join, Leave, Chat, Tell, quiet, TypeOK
<1>4. ASSUME NEW c \in Ambient, Happen(c) PROVE FALSE
  BY <1>1, <1>4 DEF Happen, quiet
<1>5. CASE UNCHANGED vars
  BY <1>1, <1>5 DEF vars, worldVars
<1> QED BY <1>2, <1>3, <1>4, <1>5 DEF Next

StaysInv == Remains /\ SubsMatchPlace /\ ChatsJoined /\ \A p \in Players : StayInv(p)

LEMMA StaysInvNext ==
  Uncut /\ TypeOK /\ StaysInv /\ [Next]_vars => StaysInv'
<1> SUFFICES ASSUME Uncut, TypeOK, StaysInv, [Next]_vars PROVE StaysInv'
  OBVIOUS
<1>1. Remains' /\ SubsMatchPlace' /\ ChatsJoined'
  BY RemainsNext, MatchNext, ChatsJoinedNext DEF StaysInv
<1>2. ASSUME NEW p \in Players PROVE StayInv(p)'
  <2>1. CASE InWorld(p)
    <3>1. HearsOn(p)
      BY <2>1, EachHears DEF StaysInv, StayInv
    <3> QED BY <2>1, <3>1, StayGoesOn DEF StaysInv
  <2>2. CASE ~InWorld(p) /\ session'[p] # NoSession
    <3>1. PICK t \in Tabs : Who[t] = p /\ Enter(t)
      BY <2>2, ComesByEntering
    <3>2. StayInv(Who[t])'
      BY <3>1, StayEnters DEF StaysInv
    <3> QED BY <3>1, <3>2 DEF StayInv, InWorld, On
  <2>3. CASE session'[p] = NoSession
    BY <2>3 DEF StayInv, InWorld
  <2> QED BY <2>1, <2>2, <2>3
<1> QED BY <1>1, <1>2 DEF StaysInv
-----------------------------------------------------------------------------
(* A feed reads where its player was *)

\* What a feed acts on is for no one to see, in a player's own stream, and
\* joins no other's.
OwnControl ==
  \A n \in DOMAIN log : /\ \/ log[n].kind = "event"
                           \/ log[n].ch \in Players /\ log[n].to = {}
                        /\ log[n].add \cap Players \subseteq {log[n].ch}

LEMMA ControlNext == WorldStep /\ OwnControl => OwnControl'
BY DEF WorldStep, Keep, OwnControl

\* A feed reads the channels its player was in at its cursor, and as far as
\* it will get the stream tells where that was: up to now, or to its end.
Reads(t, S, e) ==
  LET p == Who[t]
  IN /\ Tells(log, p, S, cursor[t], e)
     /\ \A c \in Channels \ {p} : feed[t][c] # Off <=> In(log, p, S, e, c, cursor[t])
     /\ Current(t) => S = On(p) /\ e = Len(log)
     /\ ~Current(t) => \E k \in DOMAIN log : /\ cursor[t] < k /\ k <= e
                                            /\ log[k].ch = p /\ KickFor(sid[t], k)

FeedInv(t) ==
  phase[t] = "open" /\ whole[t] =>
    /\ gone[Who[t]] <= cursor[t]
    /\ \A c \in Channels : feed[t][c] <= cursor[t]
    /\ \A q \in Players \ {Who[t]} : feed[t][q] = Off
    /\ \E S \in SUBSET Channels : \E e \in 0 .. Len(log) : Reads(t, S, e)

\* Nothing happens to the client.
Idle(t) ==
  /\ phase'[t] = phase[t] /\ sid'[t] = sid[t] /\ cursor'[t] = cursor[t]
  /\ feed'[t] = feed[t] /\ seen'[t] = seen[t] /\ view'[t] = view[t]
  /\ start'[t] = start[t] /\ whole'[t] = whole[t]

LEMMA EachView ==
  ASSUME TypeOK, [Next]_vars, NEW u \in Tabs
  PROVE  \/ Idle(u) \/ Open(u) \/ Read(u) \/ BreakOff(u) \/ Drop(u)
         \/ Enter(u) \/ TakeOver(u)
<1>1. CASE UNCHANGED clientVars
  BY <1>1 DEF clientVars, Idle
<1>2. ASSUME NEW t \in Tabs, ClientStep(t), u # t PROVE Idle(u)
  <2>1. CASE Enter(t)
    BY <1>2, <2>1 DEF Enter, Attach, Idle, TypeOK
  <2>2. CASE TakeOver(t)
    <3>1. PICK n, b : Attach(t, issued + 1, n, b)
      BY <2>2, TakeOverAttaches
    <3> QED BY <1>2, <3>1 DEF Attach, Idle, TypeOK
  <2>3. CASE Open(t) \/ Drop(t)
    BY <1>2, <2>3 DEF Open, Drop, Idle, TypeOK
  <2>4. CASE Read(t) \/ BreakOff(t)
    BY <1>2, <2>4 DEF Read, BreakOff, Show, Idle, TypeOK
  <2>5. CASE Quit(t)
    BY <1>1, <2>5 DEF Quit, LeaveWorld, clientVars, Idle
  <2> QED BY <1>2, <2>1, <2>2, <2>3, <2>4, <2>5 DEF ClientStep
<1>3. ASSUME NEW p \in Players, PlayerStep(p) PROVE UNCHANGED clientVars
  BY <1>3 DEF PlayerStep, Reap, LeaveWorld, Expire, Relocate, Join, Leave, Chat, Tell, quiet
<1>4. ASSUME NEW c \in Ambient, Happen(c) PROVE UNCHANGED clientVars
  BY <1>4 DEF Happen, quiet
<1>5. ASSUME NEW t \in Tabs, Quit(t) PROVE UNCHANGED clientVars
  BY <1>5 DEF Quit, LeaveWorld
<1> QED BY <1>1, <1>2, <1>3, <1>4, <1>5 DEF Next, vars, ClientStep

\* A connection that lost its player does not get them back.
LEMMA LostForGood ==
  ASSUME TypeOK, SessionInv, [Next]_vars, NEW u \in Tabs, Idle(u),
         phase[u] # "away", ~Current(u)
  PROVE  session'[Who[u]] # sid'[u]
<1>1. /\ Who[u] \in Players /\ sid[u] \in Nat /\ sid[u] <= issued /\ sid[u] # NoSession
      /\ sid'[u] = sid[u] /\ session[Who[u]] # sid[u] /\ issued \in Nat
  BY DeliveryAssumption DEF DeliveryAssumption, SessionInv, Idle, Current, TypeOK
<1>2. ASSUME NEW t \in Tabs, Takes(t) PROVE session'[Who[u]] \in {session[Who[u]], issued + 1}
  BY <1>1, <1>2 DEF Takes, TypeOK
<1>3. ASSUME NEW p \in Players, Gives(p) PROVE session'[Who[u]] \in {session[Who[u]], NoSession}
  BY <1>1, <1>3 DEF Gives, TypeOK
<1>4. session'[Who[u]] \in {session[Who[u]], issued + 1, NoSession}
  BY <1>2, <1>3, EachStep DEF Keeps
<1> QED BY <1>1, <1>4

\* What a client knew stays so while it stands by: the stream only grows, and
\* a connection that loses its player gets its end.
LEMMA FeedIdles ==
  ASSUME TypeOK, Uncut, SessionInv, EndInv, StaysInv, [Next]_vars,
         NEW u \in Tabs, Idle(u), FeedInv(u)
  PROVE  FeedInv(u)'
<1> DEFINE p == Who[u]
<1> SUFFICES ASSUME phase[u] = "open", whole[u] PROVE FeedInv(u)'
  BY DEF FeedInv, Idle
<1>1. p \in Players /\ p \in Channels
  BY DeliveryAssumption DEF DeliveryAssumption, Channels
<1>2. /\ gone[p] <= cursor[u]
      /\ \A c \in Channels : feed[u][c] <= cursor[u]
      /\ \A q \in Players \ {p} : feed[u][q] = Off
  BY DEF FeedInv
<1>3. PICK S \in SUBSET Channels, e \in 0 .. Len(log) : Reads(u, S, e)
  BY DEF FeedInv
<1>4. WorldStep /\ Lasts
  BY WorldStepSpares, EachLasts DEF StaysInv
<1>5. gone'[p] = gone[p]
  BY <1>1, <1>4 DEF WorldStep, Idle
<1>6. cursor[u] \in 0 .. Len(log) /\ cursor[u] \in Nat
  BY DEF EndInv, TypeOK
<1>7. Prefix(log, log')
  <2>1. TypeOK'
    BY TypeNext
  <2> QED BY <1>4, <2>1 DEF Lasts, Prefix, TypeOK
<1>8. \E T \in SUBSET Channels : \E g \in 0 .. Len(log') :
        /\ Tells(log', p, T, cursor[u], g)
        /\ \A c \in Channels \ {p} : feed[u][c] # Off <=> In(log', p, T, g, c, cursor[u])
        /\ session'[p] = sid[u] => T = On(p)' /\ g = Len(log')
        /\ session'[p] # sid[u] => \E k \in DOMAIN log' : /\ cursor[u] < k /\ k <= g
                                                         /\ log'[k].ch = p
                                                         /\ log'[k].kind = "kick"
                                                         /\ log'[k].session = sid[u]
  <2>1. CASE Current(u)
    <3>1. InWorld(p) /\ sid[u] # NoSession
      BY <2>1 DEF Current, InWorld, SessionInv
    <3>2. HearsOn(p)
      BY <1>1, <3>1, EachHears DEF StaysInv, StayInv
    <3>3. PICK T \in SUBSET Channels, b \in Nat :
            /\ Grown(log, log', p, On(p), T, b)
            /\ session'[p] # NoSession => T = {c \in Channels : subs'[p][c] # Off}
      BY <3>2 DEF HearsOn
    <3>4. S = On(p) /\ e = Len(log)
      BY <1>3, <2>1 DEF Reads
    <3>5. Tells(log', p, T, cursor[u], Len(log'))
      BY <1>3, <1>6, <3>3, <3>4, GrownTells DEF Reads
    <3>6. \A c \in Channels \ {p} :
            feed[u][c] # Off <=> In(log', p, T, Len(log'), c, cursor[u])
      BY <1>3, <1>6, <3>3, <3>4, GrownIn DEF Reads
    <3>7. session'[p] = sid[u] => T = On(p)'
      BY <3>1, <3>3 DEF On
    <3>8. ASSUME session'[p] # sid[u]
          PROVE  \E k \in DOMAIN log' : /\ cursor[u] < k /\ k <= Len(log')
                                        /\ log'[k].ch = p
                                        /\ log'[k].kind = "kick"
                                        /\ log'[k].session = sid[u]
      <4>1. Ending(p)
        BY <1>1, <1>4, <2>1, <3>1, <3>8 DEF WorldStep, Current
      <4>2. PICK k \in DOMAIN log' : /\ k > Len(log) /\ log'[k].ch = p
                                     /\ log'[k].kind = "kick"
                                     /\ log'[k].session = session[p]
        BY <4>1 DEF Ending
      <4>3. cursor[u] < k /\ k <= Len(log')
        BY <1>6, <1>7, <4>2 DEF Prefix
      <4> QED BY <2>1, <4>2, <4>3 DEF Current
    <3>9. Len(log') \in 0 .. Len(log')
      BY <1>7 DEF Prefix
    <3> QED BY <3>5, <3>6, <3>7, <3>8, <3>9
  <2>2. CASE ~Current(u)
    <3>1. session'[p] # sid[u]
      BY <2>2, LostForGood DEF Idle
    <3>2. Tells(log', p, S, cursor[u], e)
      BY <1>3, <1>6, <1>7, TellsSettled DEF Reads
    <3>3. \A c \in Channels \ {p} : feed[u][c] # Off <=> In(log', p, S, e, c, cursor[u])
      BY <1>3, <1>7, InSettled DEF Reads
    <3>4. PICK k \in DOMAIN log : /\ cursor[u] < k /\ k <= e
                                  /\ log[k].ch = p /\ KickFor(sid[u], k)
      BY <1>3, <2>2 DEF Reads
    <3>5. k \in DOMAIN log' /\ log'[k] = log[k]
      BY <1>7, <3>4 DEF Prefix
    <3>6. e \in 0 .. Len(log')
      BY <1>7 DEF Prefix
    <3> QED BY <3>1, <3>2, <3>3, <3>4, <3>5, <3>6 DEF KickFor
  <2> QED BY <2>1, <2>2
<1>9. PICK T \in SUBSET Channels, g \in 0 .. Len(log') :
        /\ Tells(log', p, T, cursor[u], g)
        /\ \A c \in Channels \ {p} : feed[u][c] # Off <=> In(log', p, T, g, c, cursor[u])
        /\ session'[p] = sid[u] => T = On(p)' /\ g = Len(log')
        /\ session'[p] # sid[u] => \E k \in DOMAIN log' : /\ cursor[u] < k /\ k <= g
                                                         /\ log'[k].ch = p
                                                         /\ log'[k].kind = "kick"
                                                         /\ log'[k].session = sid[u]
  BY <1>8
<1>10. Reads(u, T, g)'
  BY <1>9 DEF Reads, Idle, Current, KickFor
<1> QED BY <1>2, <1>5, <1>10 DEF FeedInv, Idle

\* What FeedAt works out from the stream is where the player was then.
LEMMA FeedAtIn ==
  ASSUME TypeOK, NEW p \in Players, NEW n \in Nat, gone[p] <= n, NEW c \in Channels \ {p}
  PROVE  FeedAt(p, n)[c] # Off <=> In(log, p, On(p), Len(log), c, n)
<1> DEFINE later == Later(log, p, Len(log), c, n)
           changes == {m \in Entries(log, p, gone[p]) : m > n /\ log[m].kind = "subs"}
           of == {m \in changes : c \in log[m].add \cup log[m].remove}
           restored == \E m \in of : c \in log[m].remove /\ \A k \in of : m <= k
<1>1. DOMAIN log = 1 .. Len(log) /\ Len(log) \in Nat /\ gone[p] \in Nat
  BY DEF TypeOK, Channels
<1>2. of = later
  BY <1>1 DEF Entries, Later, Changes
<1>3. FeedAt(p, n)[c] = CASE of = {} -> subs[p][c]
                          [] of # {} /\ restored -> 0
                          [] OTHER -> Off
  BY DEF FeedAt
<1>4. In(log, p, On(p), Len(log), c, n) <=>
        \/ later = {} /\ c \in On(p)
        \/ \E m \in later : c \in log[m].remove /\ \A k \in later : m <= k
  BY DEF In
<1> HIDE DEF of, later
<1>5. CASE of = {}
  BY <1>2, <1>3, <1>4, <1>5 DEF On
<1>6. CASE of # {}
  BY <1>2, <1>3, <1>4, <1>6 DEF Off
<1> QED BY <1>5, <1>6

\* And no channel is read from later than that.
LEMMA FeedAtBehind ==
  ASSUME TypeOK, NEW p \in Players, NEW n \in Nat, InWorld(p), StayInv(p), entered[p] <= n,
         NEW c \in Channels
  PROVE  FeedAt(p, n)[c] <= n
<1> DEFINE changes == {m \in Entries(log, p, gone[p]) : m > n /\ log[m].kind = "subs"}
           of == {m \in changes : c \in log[m].add \cup log[m].remove}
           restored == \E m \in of : c \in log[m].remove /\ \A k \in of : m <= k
<1>1. /\ subs[p][c] \in Nat \cup {Off} /\ entered[p] \in Nat /\ gone[p] \in Nat
      /\ gone[p] <= entered[p]
  BY DEF TypeOK, StayInv, Channels
<1>2. FeedAt(p, n)[c] = CASE c = p -> 0
                          [] c # p /\ of = {} -> subs[p][c]
                          [] c # p /\ of # {} /\ restored -> 0
                          [] OTHER -> Off
  BY DEF FeedAt
<1>3. CASE c # p /\ of = {}
  <2>1. ASSUME subs[p][c] > n PROVE FALSE
    <3>1. /\ subs[p][c] \in DOMAIN log /\ Changes(log, p, subs[p][c])
          /\ c \in log[subs[p][c]].add /\ subs[p][c] > gone[p]
      <4>1. subs[p][c] > entered[p] /\ subs[p][c] > gone[p]
        BY <1>1, <2>1 DEF Off
      <4> QED BY <1>3, <4>1 DEF StayInv
    <3>2. subs[p][c] \in of
      BY <2>1, <3>1 DEF Entries, Changes
    <3> QED BY <1>3, <3>2
  <2>2. subs[p][c] <= n
    BY <1>1, <2>1 DEF Off
  <2>3. FeedAt(p, n)[c] = subs[p][c]
    BY <1>2, <1>3
  <2> QED BY <2>2, <2>3
<1>4. CASE ~(c # p /\ of = {})
  <2>1. FeedAt(p, n)[c] \in {0, Off}
    <3> HIDE DEF of
    <3> QED BY <1>2, <1>4
  <2> QED BY <2>1 DEF Off
<1> QED BY <1>3, <1>4

\* A feed that is opened within the stay reads where its player was.
LEMMA FeedOpens ==
  ASSUME TypeOK, EndInv, StaysInv, OwnControl, NEW u \in Tabs, Open(u)
  PROVE  FeedInv(u)'
<1> DEFINE p == Who[u]
           n == cursor[u]
<1> SUFFICES ASSUME whole'[u] PROVE FeedInv(u)'
  BY DEF FeedInv
<1>1. p \in Players /\ p \in Channels /\ n \in Nat
  BY DeliveryAssumption DEF DeliveryAssumption, Channels, TypeOK
<1>2. /\ InWorld(p) /\ entered[p] <= n /\ phase[u] = "opening"
      /\ feed'[u] = FeedAt(p, n)
  BY DEF Open, TypeOK
<1>3. UNCHANGED <<log, gone, subs, session, sid, cursor>>
  BY DEF Open, worldVars
<1>4. /\ Tells(log, p, On(p), entered[p], Len(log)) /\ gone[p] <= entered[p]
      /\ entered[p] \in Nat /\ gone[p] \in Nat
  BY <1>1, <1>2 DEF StaysInv, StayInv, TypeOK
<1>5. gone[p] <= n
  BY <1>1, <1>2, <1>4
<1>6. \A c \in Channels : feed'[u][c] <= n
  BY <1>1, <1>2, FeedAtBehind DEF StaysInv
<1>7. Tells(log, p, On(p), n, Len(log))
  <2>1. \A m \in DOMAIN log : n < m => entered[p] < m
    BY <1>1, <1>2, <1>4 DEF TypeOK
  <2> QED BY <1>4, <2>1 DEF Tells
<1>8. \A c \in Channels \ {p} : feed'[u][c] # Off <=> In(log, p, On(p), Len(log), c, n)
  BY <1>1, <1>2, <1>5, FeedAtIn
<1>9. ASSUME NEW q \in Players \ {p} PROVE feed'[u][q] = Off
  <2>1. q \in Channels \ {p} /\ q \notin On(p)
    BY <1>1, <1>2, NoOthersStream DEF StaysInv, On, Channels
  <2>2. \A m \in DOMAIN log : q \notin log[m].remove
    BY DEF EndInv
  <2>3. ~In(log, p, On(p), Len(log), q, n)
    BY <2>1, <2>2 DEF In, Later
  <2> QED BY <1>8, <2>1, <2>3
<1>10. ASSUME ~Current(u)
       PROVE  \E k \in DOMAIN log : /\ n < k /\ k <= Len(log)
                                    /\ log[k].ch = p /\ KickFor(sid[u], k)
  <2>1. PICK k \in Entries(log, p, gone[p]) : k > n /\ KickFor(sid[u], k)
    BY <1>2, <1>10 DEF EndInv, EndIsComing
  <2>2. k \in DOMAIN log /\ log[k].ch = p /\ k <= Len(log)
    BY <2>1 DEF Entries, TypeOK
  <2> QED BY <1>1, <2>1, <2>2
<1>11. Reads(u, On(p), Len(log))'
  BY <1>3, <1>7, <1>8, <1>10 DEF Reads, Current, On, KickFor
<1>12. On(p)' \in SUBSET Channels /\ Len(log)' \in 0 .. Len(log)'
  BY <1>3 DEF On, TypeOK
<1>13. On(p) = On(p)'
  BY <1>3 DEF On
<1> QED BY <1>3, <1>5, <1>6, <1>9, <1>11, <1>12, <1>13 DEF FeedInv

\* A batch ends at the first change of places and at the connection's end.
LEMMA NoneWithin ==
  ASSUME TypeOK, EndInv, NEW t \in Tabs, phase[t] = "open", gone[Who[t]] <= cursor[t],
         NEW n \in DOMAIN log, LastOfBatch(t, n),
         NEW m \in DOMAIN log, cursor[t] < m, log[m].ch = Who[t],
         log[m].kind = "subs" \/ Ends(t, m)
  PROVE  n <= m
<1>1. /\ Who[t] \in Channels /\ cursor[t] \in Nat /\ gone[Who[t]] \in Nat /\ m \in Nat
      /\ feed[t][Who[t]] \in 0 .. cursor[t]
  BY DeliveryAssumption, SMTT(30) DEF DeliveryAssumption, Channels, TypeOK, EndInv
<1>2. m \in Waiting(t)
  BY <1>1 DEF Waiting, Off
<1>3. m \in Stops(t)
  BY <1>2 DEF Stops
<1> QED BY <1>3 DEF LastOfBatch

\* All of a batch is told of.
LEMMA BatchTold ==
  ASSUME TypeOK, EndInv, NEW t \in Tabs, phase[t] = "open", whole[t], FeedInv(t),
         NEW n \in DOMAIN log, LastOfBatch(t, n)
  PROVE  \E S \in SUBSET Channels : \E e \in 0 .. Len(log) : Reads(t, S, e) /\ n <= e
<1>1. PICK S \in SUBSET Channels, e \in 0 .. Len(log) : Reads(t, S, e)
  BY DEF FeedInv
<1>2. n <= Len(log) /\ n \in Nat
  BY DEF TypeOK
<1>3. CASE Current(t)
  BY <1>1, <1>2, <1>3 DEF Reads
<1>4. CASE ~Current(t)
  <2>1. PICK k \in DOMAIN log : /\ cursor[t] < k /\ k <= e
                                /\ log[k].ch = Who[t] /\ KickFor(sid[t], k)
    BY <1>1, <1>4 DEF Reads
  <2>2. gone[Who[t]] <= cursor[t] /\ Ends(t, k)
    BY <2>1 DEF FeedInv, Ends, KickFor
  <2>3. n <= k
    BY <2>1, <2>2, NoneWithin
  <2>4. k \in Nat
    BY DEF TypeOK
  <2>5. n <= e
    BY <1>2, <2>1, <2>3, <2>4
  <2> QED BY <1>1, <2>5
<1> QED BY <1>3, <1>4

\* A feed that is read on reads where its player was by then.
LEMMA FeedReads ==
  ASSUME TypeOK, EndInv, OwnControl, NEW u \in Tabs, Read(u), FeedInv(u)
  PROVE  FeedInv(u)'
<1> DEFINE p == Who[u]
<1> SUFFICES ASSUME phase'[u] = "open", whole'[u] PROVE FeedInv(u)'
  BY DEF FeedInv
<1>1. p \in Players /\ p \in Channels /\ cursor[u] \in Nat
  BY DeliveryAssumption DEF DeliveryAssumption, Channels, TypeOK
<1>2. /\ UNCHANGED <<log, gone, subs, session, sid, whole>>
      /\ phase[u] = "open" /\ whole[u]
  BY DEF Read, worldVars
<1>3. PICK n \in DOMAIN log :
        /\ LastOfBatch(u, n)
        /\ cursor' = [cursor EXCEPT ![u] = n]
        /\ feed' = [feed EXCEPT ![u] = FeedAfter(u, n)]
  <2>1. PICK n \in DOMAIN log :
          /\ LastOfBatch(u, n)
          /\ cursor' = [cursor EXCEPT ![u] = n]
          /\ Ends(u, n) => phase' = [phase EXCEPT ![u] = "away"]
          /\ ~Ends(u, n) => feed' = [feed EXCEPT ![u] = FeedAfter(u, n)]
    BY DEF Read
  <2>2. ~Ends(u, n)
    BY <2>1 DEF TypeOK
  <2> QED BY <2>1, <2>2
<1>4. /\ cursor'[u] = n /\ feed'[u] = FeedAfter(u, n) /\ n \in Nat /\ cursor[u] < n
      /\ feed[u][log[n].ch] # Off
  BY <1>3 DEF LastOfBatch, Waiting, TypeOK
<1>5. /\ gone[p] <= cursor[u] /\ gone[p] \in Nat
      /\ \A c \in Channels : feed[u][c] <= cursor[u] /\ feed[u][c] \in Nat \cup {Off}
      /\ \A q \in Players \ {p} : feed[u][q] = Off
  BY <1>1, <1>2 DEF FeedInv, TypeOK
<1>6. PICK S \in SUBSET Channels, e \in 0 .. Len(log) : Reads(u, S, e) /\ n <= e
  BY <1>2, <1>3, BatchTold
<1>7. \A m \in DOMAIN log : cursor[u] < m /\ m < n => ~Changes(log, p, m)
  <2>1. ASSUME NEW m \in DOMAIN log, cursor[u] < m, m < n, Changes(log, p, m) PROVE FALSE
    <3>1. n <= m
      BY <1>2, <1>3, <1>5, <2>1, NoneWithin DEF Changes
    <3>2. m \in Nat
      BY DEF TypeOK
    <3> QED BY <1>4, <2>1, <3>1, <3>2
  <2> QED BY <2>1
<1>8. log[n].kind = "subs" => log[n].ch = p
  <2>1. log[n].kind = "subs" => log[n].ch \in Players
    BY DEF OwnControl
  <2> QED BY <1>4, <1>5, <2>1
<1>9. Tells(log, p, S, n, e)
  <2>1. \A m \in DOMAIN log : n < m => cursor[u] < m
    BY <1>1, <1>4 DEF TypeOK
  <2> QED BY <1>6, <2>1 DEF Reads, Tells
<1>10. ASSUME NEW c \in Channels
       PROVE  /\ FeedAfter(u, n)[c] <= n
              /\ c \in Players \ {p} => FeedAfter(u, n)[c] = Off
  <2>1. log[n].kind = "subs" => log[n].add \cap Players \subseteq {p}
    BY <1>8 DEF OwnControl
  <2>2. feed[u][c] <= n /\ Off <= n
    BY <1>1, <1>4, <1>5 DEF Off
  <2>3. \/ FeedAfter(u, n)[c] = n /\ log[n].kind = "subs" /\ c \in log[n].add
        \/ FeedAfter(u, n)[c] = Off
        \/ FeedAfter(u, n)[c] = feed[u][c]
    BY DEF FeedAfter
  <2> QED BY <1>4, <1>5, <2>1, <2>2, <2>3
<1>11. ASSUME NEW c \in Channels \ {p}
       PROVE  FeedAfter(u, n)[c] # Off <=> In(log, p, S, e, c, n)
  <2>1. feed[u][c] # Off <=> In(log, p, S, e, c, cursor[u])
    BY <1>6 DEF Reads
  <2>2. CASE Changes(log, p, n) /\ c \in log[n].add \cup log[n].remove
    <3>1. c \in log[n].add <=> In(log, p, S, e, c, n)
      BY <1>4, <1>6, <2>2 DEF Reads, Tells
    <3>2. FeedAfter(u, n)[c] = IF c \in log[n].add THEN n ELSE Off
      BY <2>2 DEF FeedAfter, Changes
    <3> QED BY <1>4, <3>1, <3>2 DEF Off
  <2>3. CASE ~(Changes(log, p, n) /\ c \in log[n].add \cup log[n].remove)
    <3>1. FeedAfter(u, n)[c] = feed[u][c]
      BY <1>8, <2>3 DEF FeedAfter, Changes
    <3>2. ASSUME NEW m \in Later(log, p, e, c, cursor[u]) PROVE n < m
      <4>1. /\ m \in DOMAIN log /\ cursor[u] < m /\ Changes(log, p, m)
            /\ c \in log[m].add \cup log[m].remove
        BY <3>2 DEF Later
      <4>2. m \in Nat /\ ~(m < n) /\ m # n
        BY <1>7, <2>3, <4>1 DEF TypeOK
      <4> QED BY <1>4, <4>2
    <3>3. Later(log, p, e, c, n) = Later(log, p, e, c, cursor[u])
      <4>1. \A m \in DOMAIN log : n < m => cursor[u] < m
        BY <1>1, <1>4 DEF TypeOK
      <4> QED BY <3>2, <4>1 DEF Later
    <3> QED BY <2>1, <3>1, <3>3 DEF In
  <2> QED BY <2>2, <2>3
<1>12. ASSUME ~Current(u)
       PROVE  \E k \in DOMAIN log : /\ n < k /\ k <= e
                                    /\ log[k].ch = p /\ KickFor(sid[u], k)
  <2>1. PICK k \in DOMAIN log : /\ cursor[u] < k /\ k <= e
                                /\ log[k].ch = p /\ KickFor(sid[u], k)
    BY <1>6, <1>12 DEF Reads
  <2>2. k \in Entries(log, p, gone[p])
    BY <1>1, <1>5, <2>1 DEF Entries, TypeOK
  <2>3. k > n
    BY <1>4, <2>1, <2>2, ReadUpToEnd
  <2> QED BY <1>4, <2>1, <2>3 DEF TypeOK
<1>13. Current(u) => S = On(p) /\ e = Len(log)
  BY <1>6 DEF Reads
<1>14. Reads(u, S, e)'
  <2> USE DEF Reads, Current, On, KickFor
  <2>1. Tells(log', p, S, cursor'[u], e)
    BY <1>2, <1>4, <1>9
  <2>2. \A c \in Channels \ {p} : feed'[u][c] # Off <=> In(log', p, S, e, c, cursor'[u])
    BY <1>2, <1>4, <1>11
  <2>3. (Current(u) => S = On(p) /\ e = Len(log))'
    BY <1>2, <1>13
  <2>4. (~Current(u) => \E k \in DOMAIN log : /\ cursor[u] < k /\ k <= e
                                    /\ log[k].ch = p /\ KickFor(sid[u], k))'
    BY <1>2, <1>4, <1>12
  <2> QED BY <2>1, <2>2, <2>3, <2>4
<1>15. gone'[p] <= cursor'[u]
  BY <1>1, <1>2, <1>4, <1>5
<1>16. e \in 0 .. Len(log')
  BY <1>2
<1>17. \A q \in Players \ {p} : q \in Channels
  BY DEF Channels
<1> QED BY <1>4, <1>10, <1>14, <1>15, <1>16, <1>17 DEF FeedInv

LEMMA FeedNext ==
  ASSUME TypeOK, Uncut, SessionInv, EndInv, StaysInv, OwnControl, [Next]_vars,
         NEW u \in Tabs, FeedInv(u)
  PROVE  FeedInv(u)'
<1>1. CASE BreakOff(u) \/ Drop(u)
  BY <1>1 DEF BreakOff, Drop, FeedInv, TypeOK
<1>2. CASE Enter(u)
  BY <1>2 DEF Enter, Attach, FeedInv, TypeOK
<1>3. CASE TakeOver(u)
  <2>1. phase'[u] = "opening"
    BY <1>3, TakeOverAttaches, SMTT(30) DEF Attach, TypeOK
  <2> QED BY <2>1 DEF FeedInv
<1> QED BY <1>1, <1>2, <1>3, EachView, FeedIdles, FeedOpens, FeedReads
-----------------------------------------------------------------------------
(* What is shown is what one was there for *)

\* A view does not reach past the events, nor a connection start before it.
InStep(t) ==
  /\ seen[t] <= Len(log)
  /\ phase[t] # "away" => seen[t] <= cursor[t] /\ start[t] <= cursor[t]

\* ViewExact for one client.
Exact(t) ==
  whole[t] => LET due == Addressed(Who[t], start[t], ShownUpTo(t))
              IN view[t] \subseteq due /\ \A n \in due \ view[t] : n <= gone[log[n].ch]

LEMMA ChannelType ==
  ASSUME TypeOK, NEW m \in DOMAIN log
  PROVE  log[m].ch \in Channels /\ gone[log[m].ch] \in Nat
<1>1. log[m] \in Events
  BY DEF TypeOK
<1>2. log[m].ch \in Channels
  BY <1>1 DEF Events
<1> QED BY <1>2 DEF TypeOK

\* A batch is the events the player was there for, less those that are gone.
LEMMA BatchExact ==
  ASSUME TypeOK, EndInv, NEW t \in Tabs, phase[t] = "open", whole[t], FeedInv(t),
         NEW n \in DOMAIN log, LastOfBatch(t, n),
         NEW m \in DOMAIN log, cursor[t] < m, m <= n
  PROVE  /\ m \in Batch(t, n) <=> /\ log[m].kind = "event"
                                  /\ Who[t] \in log[m].to
                                  /\ m > gone[log[m].ch]
         /\ log[m].kind = "event" /\ Who[t] \in log[m].to => feed[t][log[m].ch] # Off
<1> DEFINE p == Who[t]
           c == log[m].ch
<1>1. /\ p \in Channels /\ cursor[t] \in Nat /\ n \in Nat /\ m \in Nat
      /\ feed[t][p] \in 0 .. cursor[t]
      /\ DOMAIN log \subseteq Nat
  BY DeliveryAssumption, SMTT(30) DEF DeliveryAssumption, Channels, TypeOK, EndInv
<1>2. /\ c \in Channels /\ feed[t][c] <= cursor[t] /\ feed[t][c] \in Nat \cup {Off}
      /\ gone[p] <= cursor[t]
  <2>1. c \in Channels
    BY ChannelType
  <2> QED BY <2>1 DEF FeedInv, TypeOK
<1>3. PICK S \in SUBSET Channels, e \in 0 .. Len(log) : Reads(t, S, e) /\ n <= e
  BY BatchTold
<1> SUFFICES ASSUME log[m].kind = "event" PROVE feed[t][c] # Off <=> p \in log[m].to
  <2>1. m > feed[t][c]
    BY <1>1, <1>2 DEF Off
  <2> QED BY <2>1 DEF Batch, Waiting
<1>4. p \in log[m].to <=> (c = p \/ In(log, p, S, e, c, m))
  BY <1>1, <1>3 DEF Reads, Tells
<1>5. CASE c = p
  BY <1>1, <1>4, <1>5 DEF Off
<1>6. CASE c # p
  <2>1. ASSUME NEW i \in DOMAIN log, cursor[t] < i, i <= m, Changes(log, p, i) PROVE FALSE
    <3>1. n <= i
      BY <1>2, <2>1, NoneWithin DEF Changes
    <3>2. i \in Nat /\ i = m
      BY <1>1, <2>1, <3>1
    <3> QED BY <2>1, <3>2 DEF Changes
  <2>2. In(log, p, S, e, c, m) <=> In(log, p, S, e, c, cursor[t])
    BY <1>1, <2>1, InBetween
  <2>3. feed[t][c] # Off <=> In(log, p, S, e, c, cursor[t])
    BY <1>2, <1>3, <1>6 DEF Reads
  <2> QED BY <1>4, <1>6, <2>2, <2>3
<1> QED BY <1>5, <1>6

\* Of a batch that is shown up to some event, nothing before it is left out.
LEMMA ExactShows ==
  ASSUME TypeOK, EndInv, ViewBehind, NEW t \in Tabs, phase[t] = "open", whole[t],
         FeedInv(t), InStep(t), Exact(t),
         NEW n \in DOMAIN log, LastOfBatch(t, n), NEW k \in Nat,
         Show(t, {m \in Batch(t, n) : m < k})
  PROVE  LET due == Addressed(Who[t], start[t], seen'[t])
         IN view'[t] \subseteq due /\ \A m \in due \ view'[t] : m <= gone[log[m].ch]
<1> DEFINE p == Who[t]
           shown == {m \in Batch(t, n) : m < k}
           old == Addressed(p, start[t], cursor[t])
<1>1. /\ cursor[t] \in Nat /\ start[t] \in Nat /\ seen[t] \in Nat /\ n \in Nat
      /\ seen[t] <= cursor[t] /\ start[t] <= cursor[t]
      /\ DOMAIN log \subseteq Nat
      /\ \A m \in DOMAIN log : gone[log[m].ch] \in Nat
  BY ChannelType, SMTT(30) DEF TypeOK, InStep
<1>2. /\ view[t] \subseteq old /\ \A m \in old \ view[t] : m <= gone[log[m].ch]
      /\ \A m \in view[t] : m <= seen[t]
  BY DEF Exact, ShownUpTo, ViewBehind
<1>3. view'[t] = view[t] \cup shown
  BY DEF Show, TypeOK
<1>4. \A m \in shown : m \in DOMAIN log /\ cursor[t] < m /\ m <= n
  BY BatchAhead DEF Batch, Waiting
<1>5. ASSUME NEW m \in DOMAIN log, cursor[t] < m, m <= n
      PROVE  m \in Batch(t, n) <=> /\ log[m].kind = "event" /\ p \in log[m].to
                                   /\ m > gone[log[m].ch]
  BY <1>5, BatchExact
<1>6. CASE shown = {} /\ seen' = seen
  <2>1. view'[t] = view[t] /\ seen'[t] = seen[t]
    BY <1>3, <1>6
  <2>2. view[t] \subseteq Addressed(p, start[t], seen[t])
    BY <1>2 DEF Addressed
  <2>3. Addressed(p, start[t], seen[t]) \subseteq old
    BY <1>1 DEF Addressed
  <2> DEFINE due == Addressed(p, start[t], seen'[t])
  <2>4. view'[t] \subseteq due /\ due \subseteq old
    BY <2>1, <2>2, <2>3
  <2> HIDE DEF old, due
  <2>5. \A m \in due \ view'[t] : m <= gone[log[m].ch]
    BY <1>2, <2>1, <2>4
  <2> QED BY <2>4, <2>5 DEF due
<1>7. CASE \E j \in shown : (\A m \in shown : m <= j) /\ seen' = [seen EXCEPT ![t] = j]
  <2>1. PICK j \in shown : (\A m \in shown : m <= j) /\ seen' = [seen EXCEPT ![t] = j]
    BY <1>7
  <2>2. seen'[t] = j /\ j \in Nat /\ cursor[t] < j /\ j <= n /\ j < k
    BY <1>1, <1>4, <2>1 DEF TypeOK
  <2>3. ASSUME NEW m \in view[t] PROVE m \in Addressed(p, start[t], j)
    <3>1. m \in old
      BY <1>2
    <3>2. m <= j
      BY <1>1, <2>2, <3>1 DEF Addressed
    <3> QED BY <3>1, <3>2 DEF Addressed
  <2>4. ASSUME NEW m \in shown PROVE m \in Addressed(p, start[t], j)
    <3>1. m \in DOMAIN log /\ cursor[t] < m /\ m <= n /\ m \in Batch(t, n) /\ m <= j
      BY <1>4, <2>1
    <3>2. log[m].kind = "event" /\ p \in log[m].to
      BY <1>5, <3>1
    <3>3. start[t] < m
      BY <1>1, <3>1
    <3> QED BY <3>1, <3>2, <3>3 DEF Addressed
  <2>5. ASSUME NEW m \in Addressed(p, start[t], j), m \notin view[t], m \notin shown
        PROVE  m <= gone[log[m].ch]
    <3>1. m \in DOMAIN log /\ start[t] < m /\ m <= j /\ log[m].kind = "event" /\ p \in log[m].to
      BY DEF Addressed
    <3>2. CASE m <= cursor[t]
      <4>1. m \in old
        BY <3>1, <3>2 DEF Addressed
      <4> QED BY <1>2, <2>5, <4>1
    <3>3. CASE cursor[t] < m
      <4>1. m <= n /\ m < k
        BY <1>1, <2>2, <3>1
      <4>2. m \notin Batch(t, n)
        BY <2>5, <4>1
      <4>3. ~(m > gone[log[m].ch])
        BY <1>5, <3>1, <3>3, <4>1, <4>2
      <4> QED BY <1>1, <3>1, <4>3
    <3> QED BY <1>1, <3>1, <3>2, <3>3
  <2> HIDE DEF shown
  <2> QED BY <1>3, <2>2, <2>3, <2>4, <2>5
<1>8. Show(t, shown)
  OBVIOUS
<1> HIDE DEF shown
<1>9. \/ shown = {} /\ seen' = seen
      \/ \E j \in shown : (\A m \in shown : m <= j) /\ seen' = [seen EXCEPT ![t] = j]
  BY <1>8 DEF Show
<1> QED BY <1>6, <1>7, <1>9

\* What was due stays due, and no more of the past becomes due.
LEMMA DueKept ==
  ASSUME TypeOK, Remains, [Next]_vars, NEW p, NEW a, NEW b \in Nat, b <= Len(log)
  PROVE  /\ {n \in DOMAIN log' : a < n /\ n <= b /\ log'[n].kind = "event" /\ p \in log'[n].to}
              = Addressed(p, a, b)
         /\ \A n \in DOMAIN log : gone[log[n].ch] <= gone'[log'[n].ch]
<1>1. Lasts /\ TypeOK'
  BY EachLasts, TypeNext
<1>2. /\ Len(log) \in Nat /\ DOMAIN log = 1 .. Len(log) /\ DOMAIN log' = 1 .. Len(log')
      /\ Len(log) <= Len(log') /\ Len(log') \in Nat
      /\ \A n \in DOMAIN log : log'[n] = log[n]
  BY <1>1 DEF Lasts, TypeOK
<1>3. \A n \in DOMAIN log : gone[log[n].ch] <= gone'[log'[n].ch]
  BY <1>1, <1>2, ChannelType DEF Lasts
<1>4. \A n \in DOMAIN log' : n <= b => n \in DOMAIN log
  BY <1>2
<1>5. \A n \in DOMAIN log : n \in DOMAIN log'
  BY <1>2
<1> QED BY <1>2, <1>3, <1>4, <1>5 DEF Addressed

\* A view that does not change stays exact, whatever else happens.
LEMMA ExactStays ==
  ASSUME TypeOK, Remains, [Next]_vars, NEW t \in Tabs, Exact(t), whole[t],
         view'[t] = view[t], start'[t] = start[t],
         ShownUpTo(t) <= Len(log), ShownUpTo(t)' = ShownUpTo(t)
  PROVE  Exact(t)'
<1> DEFINE p == Who[t]
           a == start[t]
           b == ShownUpTo(t)
           due == Addressed(p, a, b)
           later == {n \in DOMAIN log' : /\ a < n /\ n <= b
                                         /\ log'[n].kind = "event" /\ p \in log'[n].to}
<1>1. b \in Nat
  BY DEF ShownUpTo, TypeOK
<1>2. later = due /\ \A n \in DOMAIN log : gone[log[n].ch] <= gone'[log'[n].ch]
  <2> HIDE DEF a, b
  <2> QED BY <1>1, DueKept DEF b
<1>3. due \subseteq DOMAIN log
  BY DEF Addressed
<1>4. view[t] \subseteq due /\ \A n \in due \ view[t] : n <= gone[log[n].ch]
  BY DEF Exact
<1>5. \A n \in DOMAIN log : n \in Nat /\ gone[log[n].ch] \in Nat /\ gone'[log'[n].ch] \in Nat
  <2>1. TypeOK' /\ Lasts
    BY TypeNext, EachLasts
  <2>2. ASSUME NEW n \in DOMAIN log PROVE gone'[log'[n].ch] \in Nat
    <3>1. log'[n] = log[n] /\ log[n].ch \in Channels
      BY <2>1, ChannelType DEF Lasts
    <3> QED BY <2>1, <3>1 DEF TypeOK
  <2>3. DOMAIN log \subseteq Nat
    BY DEF TypeOK
  <2> QED BY <2>2, <2>3, ChannelType
<1>6. (Addressed(p, start[t], ShownUpTo(t)))' = later
  BY DEF Addressed
<1> HIDE DEF due, later
<1>7. \A n \in due \ view[t] : n <= gone'[log'[n].ch]
  BY <1>2, <1>3, <1>4, <1>5
<1> QED BY <1>2, <1>4, <1>6, <1>7 DEF Exact

LEMMA Attaches ==
  ASSUME TypeOK, NEW t \in Tabs, Enter(t) \/ TakeOver(t), seen[t] <= Len(log)
  PROVE  \E n, b : n \in Nat /\ Attach(t, issued + 1, n, b) /\ seen[t] <= n
<1>1. CASE Enter(t)
  <2> DEFINE now == Len(log) + Len(<<Here(room[Who[t]])>>)
  <2>1. now \in Nat /\ seen[t] <= now
    <3> DEFINE k == Len(<<Here(room[Who[t]])>>)
    <3>1. k \in Nat /\ Len(log) \in Nat /\ seen[t] \in Nat
      BY DEF TypeOK
    <3> HIDE DEF k
    <3> QED BY <3>1 DEF k
  <2>2. Attach(t, issued + 1, now, TRUE)
    BY <1>1 DEF Enter
  <2> HIDE DEF now
  <2> QED BY <2>1, <2>2
<1>2. CASE TakeOver(t)
  <2> DEFINE kicked == Append(log, Kick(Who[t], session[Who[t]]))
             now == Len(kicked)
             since == IF 0 < seen[t] /\ seen[t] < now THEN seen[t] ELSE now
             from(g) == IF since < now /\ Lost(kicked, g, Who[t], since) THEN now ELSE since
  <2>1. PICK g : Attach(t, issued + 1, from(g), from(g) >= entered[Who[t]])
    BY <1>2 DEF TakeOver
  <2>2. now = Len(log) + 1
    <3>1. Kick(Who[t], session[Who[t]]) \in Events
      <4>1. Who[t] \in Players
        BY DeliveryAssumption DEF DeliveryAssumption
      <4> QED BY <4>1, EventTypes DEF TypeOK, Channels
    <3> QED BY <3>1 DEF TypeOK
  <2>3. seen[t] \in Nat /\ Len(log) \in Nat
    BY DEF TypeOK
  <2>4. since \in {seen[t], now}
    OBVIOUS
  <2> DEFINE n == from(g)
             b == n >= entered[Who[t]]
  <2>5. n \in {seen[t], now}
    BY <2>4
  <2>6. Attach(t, issued + 1, n, b)
    BY <2>1
  <2> HIDE DEF n, b, now
  <2>7. n \in Nat /\ seen[t] <= n
    BY <2>2, <2>3, <2>5
  <2> QED BY <2>6, <2>7
<1> QED BY <1>1, <1>2

\* A connection carries a view on, or begins one that is empty.
LEMMA ExactAttaches ==
  ASSUME TypeOK, Remains, [Next]_vars, NEW t \in Tabs, Enter(t) \/ TakeOver(t),
         InStep(t), Exact(t)
  PROVE  InStep(t)' /\ Exact(t)'
<1>1. phase[t] = "away"
  BY DEF Enter, TakeOver
<1>2. PICK n, b : n \in Nat /\ Attach(t, issued + 1, n, b) /\ seen[t] <= n
  BY Attaches DEF InStep
<1>3. /\ phase'[t] = "opening" /\ cursor'[t] = n /\ seen'[t] = seen[t]
      /\ \/ /\ n = seen[t] /\ start[t] <= n /\ start'[t] = start[t] /\ view'[t] = view[t]
            /\ whole'[t] => whole[t]
         \/ start'[t] = n /\ view'[t] = {}
  BY <1>2 DEF Attach, TypeOK
<1>4. Lasts /\ TypeOK'
  BY EachLasts, TypeNext
<1>5. /\ seen[t] \in Nat /\ start[t] \in Nat /\ Len(log) \in Nat
      /\ Len(log') \in Nat /\ DOMAIN log' \subseteq Nat
  BY <1>4 DEF TypeOK
<1>6. InStep(t)'
  <2>1. seen'[t] <= Len(log')
    BY <1>3, <1>4, <1>5 DEF Lasts, InStep
  <2>2. seen'[t] <= cursor'[t] /\ start'[t] <= cursor'[t]
    BY <1>2, <1>3, <1>5
  <2> QED BY <2>1, <2>2 DEF InStep
<1>7. ShownUpTo(t)' = n
  BY <1>3 DEF ShownUpTo
<1>8. CASE start'[t] = n /\ view'[t] = {}
  <2>1. (Addressed(Who[t], start[t], ShownUpTo(t)))' = {}
    BY <1>2, <1>5, <1>7, <1>8 DEF Addressed
  <2> QED BY <1>6, <1>8, <2>1 DEF Exact
<1>9. CASE /\ n = seen[t] /\ start'[t] = start[t] /\ view'[t] = view[t]
           /\ whole'[t] => whole[t]
  <2>1. ShownUpTo(t) = n /\ n <= Len(log)
    BY <1>1, <1>9 DEF ShownUpTo, InStep
  <2>2. CASE whole'[t]
    <3>1. whole[t]
      BY <1>9, <2>2
    <3> QED BY <1>6, <1>7, <1>9, <2>1, <3>1, ExactStays
  <2>3. CASE ~whole'[t]
    BY <1>6, <2>3 DEF Exact
  <2> QED BY <2>2, <2>3
<1> QED BY <1>3, <1>6, <1>8, <1>9

\* A batch that is read, or part of one before the connection goes.
LEMMA ReadsBatch ==
  ASSUME TypeOK, EndInv, NEW t \in Tabs, Read(t) \/ BreakOff(t), InStep(t)
  PROVE  \E n \in DOMAIN log : \E k \in Nat :
           /\ LastOfBatch(t, n)
           /\ Show(t, {m \in Batch(t, n) : m < k})
           /\ \/ phase'[t] = "away"
              \/ /\ phase'[t] = "open" /\ cursor'[t] = n
                 /\ {m \in Batch(t, n) : m < k} = Batch(t, n)
           /\ cursor[t] < n /\ n <= Len(log) /\ n \in Nat
           /\ seen'[t] <= n /\ seen'[t] \in Nat
           /\ \/ {m \in Batch(t, n) : m < k} = {} /\ seen'[t] = seen[t]
              \/ /\ seen'[t] \in {m \in Batch(t, n) : m < k}
                 /\ \A i \in {m \in Batch(t, n) : m < k} : i <= seen'[t]
<1>1. /\ phase[t] = "open"
      /\ cursor[t] \in Nat /\ seen[t] \in Nat /\ Len(log) \in Nat
      /\ DOMAIN log = 1 .. Len(log)
      /\ seen[t] <= cursor[t] /\ cursor[t] <= Len(log)
  BY DEF Read, BreakOff, TypeOK, InStep, EndInv
<1>2. PICK n \in DOMAIN log, k \in Nat :
        /\ LastOfBatch(t, n)
        /\ Show(t, {m \in Batch(t, n) : m < k})
        /\ \/ phase'[t] = "away"
           \/ /\ phase'[t] = "open" /\ cursor'[t] = n
              /\ {m \in Batch(t, n) : m < k} = Batch(t, n)
  <2>1. CASE Read(t)
    <3>1. PICK n \in DOMAIN log :
            /\ LastOfBatch(t, n) /\ Show(t, Batch(t, n))
            /\ cursor' = [cursor EXCEPT ![t] = n]
            /\ phase' = [phase EXCEPT ![t] = "away"] \/ phase' = phase
      BY <2>1 DEF Read
    <3>2. n \in Nat /\ n + 1 \in Nat
      BY BatchType
    <3>3. {m \in Batch(t, n) : m < n + 1} = Batch(t, n)
      <4>1. ASSUME NEW m \in Batch(t, n) PROVE m < n + 1
        BY <3>2, <4>1, BatchAhead
      <4> QED BY <4>1
    <3>4. phase'[t] = "away" \/ phase'[t] = "open"
      BY <1>1, <3>1 DEF TypeOK
    <3>5. cursor'[t] = n
      BY <3>1 DEF TypeOK
    <3> QED BY <3>1, <3>2, <3>3, <3>4, <3>5
  <2>2. CASE BreakOff(t)
    <3>1. PICK n \in DOMAIN log : \E k \in Batch(t, n) :
            LastOfBatch(t, n) /\ Show(t, {m \in Batch(t, n) : m < k})
      BY <2>2 DEF BreakOff
    <3>2. PICK k \in Batch(t, n) : LastOfBatch(t, n) /\ Show(t, {m \in Batch(t, n) : m < k})
      BY <3>1
    <3>3. phase'[t] = "away" /\ k \in Nat
      BY <2>2, <3>2, BatchType DEF BreakOff, TypeOK
    <3> QED BY <3>2, <3>3
  <2> QED BY <2>1, <2>2
<1> DEFINE shown == {m \in Batch(t, n) : m < k}
<1>3. cursor[t] < n /\ n <= Len(log) /\ n \in Nat
  BY <1>1, <1>2 DEF LastOfBatch, Waiting
<1>4. (shown = {} /\ seen'[t] = seen[t]) \/ (seen'[t] \in shown /\ \A m \in shown : m <= seen'[t])
  <2>1. Show(t, shown)
    BY <1>2
  <2> HIDE DEF shown
  <2> QED BY <2>1 DEF Show, TypeOK
<1>5. \A m \in shown : m \in DOMAIN log /\ cursor[t] < m /\ m <= n
  BY BatchAhead DEF Batch, Waiting
<1>6. seen'[t] <= n /\ seen'[t] \in Nat
  <2> HIDE DEF shown
  <2> QED BY <1>1, <1>3, <1>4, <1>5
<1>7. \/ shown = {} /\ seen'[t] = seen[t]
      \/ seen'[t] \in shown /\ \A i \in shown : i <= seen'[t]
  BY <1>4
<1> QED BY <1>2, <1>3, <1>6, <1>7

\* What it shows is exact.
LEMMA ExactReads ==
  ASSUME TypeOK, EndInv, ViewBehind, Remains, [Next]_vars, NEW t \in Tabs,
         Read(t) \/ BreakOff(t), FeedInv(t), InStep(t), Exact(t)
  PROVE  InStep(t)' /\ Exact(t)'
<1> DEFINE p == Who[t]
<1>1. /\ UNCHANGED <<log, gone, start, whole>> /\ phase[t] = "open"
      /\ cursor[t] \in Nat /\ seen[t] \in Nat /\ start[t] \in Nat /\ Len(log) \in Nat
      /\ DOMAIN log = 1 .. Len(log)
      /\ seen[t] <= cursor[t] /\ start[t] <= cursor[t] /\ cursor[t] <= Len(log)
  BY DEF Read, BreakOff, worldVars, TypeOK, InStep, EndInv
<1>2. PICK n \in DOMAIN log, k \in Nat :
        /\ LastOfBatch(t, n)
        /\ Show(t, {m \in Batch(t, n) : m < k})
        /\ \/ phase'[t] = "away"
           \/ /\ phase'[t] = "open" /\ cursor'[t] = n
              /\ {m \in Batch(t, n) : m < k} = Batch(t, n)
        /\ cursor[t] < n /\ n <= Len(log) /\ n \in Nat
        /\ seen'[t] <= n /\ seen'[t] \in Nat
        /\ \/ {m \in Batch(t, n) : m < k} = {} /\ seen'[t] = seen[t]
           \/ /\ seen'[t] \in {m \in Batch(t, n) : m < k}
              /\ \A i \in {m \in Batch(t, n) : m < k} : i <= seen'[t]
  BY ReadsBatch
<1> DEFINE shown == {m \in Batch(t, n) : m < k}
<1>3. cursor[t] < n /\ n <= Len(log) /\ n \in Nat
  BY <1>2
<1>4. (shown = {} /\ seen'[t] = seen[t]) \/ (seen'[t] \in shown /\ \A m \in shown : m <= seen'[t])
  BY <1>2
<1>5. \A m \in shown : m \in DOMAIN log /\ cursor[t] < m /\ m <= n
  BY BatchAhead DEF Batch, Waiting
<1>6. seen'[t] <= n /\ seen'[t] \in Nat
  BY <1>2
<1>7. InStep(t)'
  BY <1>1, <1>2, <1>3, <1>6 DEF InStep
<1>8. CASE ~whole[t]
  BY <1>1, <1>7, <1>8 DEF Exact
<1>9. CASE whole[t]
  <2> DEFINE due == Addressed(p, start[t], seen'[t])
  <2>1. view'[t] \subseteq due /\ \A m \in due \ view'[t] : m <= gone[log[m].ch]
    BY <1>1, <1>2, <1>9, ExactShows
  <2>2. CASE phase'[t] = "away"
    <3>1. (Addressed(p, start[t], ShownUpTo(t)))' = due
      BY <1>1, <2>2 DEF Addressed, ShownUpTo
    <3> HIDE DEF due
    <3> QED BY <1>1, <1>7, <2>1, <3>1 DEF Exact
  <2>3. CASE phase'[t] = "open" /\ cursor'[t] = n /\ shown = Batch(t, n)
    <3> DEFINE all == Addressed(p, start[t], n)
    <3>1. (Addressed(p, start[t], ShownUpTo(t)))' = all
      BY <1>1, <2>3 DEF Addressed, ShownUpTo
    <3>2. due \subseteq all
      BY <1>1, <1>3, <1>6 DEF Addressed
    <3>3. ASSUME NEW m \in all, m \notin view'[t] PROVE m <= gone[log[m].ch]
      <4>1. m \in DOMAIN log /\ start[t] < m /\ m <= n /\ log[m].kind = "event" /\ p \in log[m].to
        BY DEF Addressed
      <4>2. CASE m <= seen'[t]
        <5>1. m \in due
          BY <4>1, <4>2 DEF Addressed
        <5> QED BY <2>1, <3>3, <5>1
      <4>3. CASE seen'[t] < m /\ cursor[t] < m
        <5>1. m \notin shown
          <6> HIDE DEF shown
          <6> QED BY <1>1, <1>4, <1>5, <1>6, <4>1, <4>3
        <5>2. m \notin Batch(t, n)
          BY <2>3, <5>1
        <5>3. ~(m > gone[log[m].ch])
          BY <1>1, <1>2, <1>9, <4>1, <4>3, <5>2, BatchExact
        <5> QED BY <1>1, <4>1, <5>3, ChannelType
      <4>4. CASE seen'[t] < m /\ m <= cursor[t]
        <5>1. m \in Addressed(p, start[t], ShownUpTo(t))
          BY <1>1, <4>1, <4>4 DEF Addressed, ShownUpTo
        <5>2. m \notin view[t]
          BY <3>3, <1>2 DEF Show, TypeOK
        <5> QED BY <1>9, <5>1, <5>2 DEF Exact
      <4> QED BY <1>1, <1>6, <4>1, <4>2, <4>3, <4>4
    <3> HIDE DEF due, all
    <3> QED BY <1>1, <1>7, <2>1, <3>1, <3>2, <3>3 DEF Exact
  <2> QED BY <1>2, <2>2, <2>3
<1> QED BY <1>7, <1>8, <1>9

LEMMA ExactNext ==
  ASSUME TypeOK, EndInv, ViewBehind, Remains, [Next]_vars, NEW t \in Tabs,
         FeedInv(t), InStep(t), Exact(t)
  PROVE  InStep(t)' /\ Exact(t)'
<1>1. /\ cursor[t] <= Len(log) /\ seen[t] <= Len(log)
      /\ phase[t] # "away" => seen[t] <= cursor[t] /\ start[t] <= cursor[t]
      /\ cursor[t] \in Nat /\ seen[t] \in Nat /\ Len(log) \in Nat
  BY DEF EndInv, InStep, TypeOK
<1>2. Len(log) <= Len(log') /\ Len(log') \in Nat
  <2>1. Lasts /\ TypeOK'
    BY EachLasts, TypeNext
  <2> QED BY <2>1 DEF Lasts, TypeOK
<1>3. ShownUpTo(t) <= Len(log)
  BY <1>1 DEF ShownUpTo
<1>4. CASE Idle(t) \/ Open(t)
  <2>1. /\ seen'[t] = seen[t] /\ cursor'[t] = cursor[t] /\ start'[t] = start[t]
        /\ view'[t] = view[t]
        /\ whole'[t] => whole[t]
        /\ phase'[t] # "away" <=> phase[t] # "away"
    BY <1>4 DEF Idle, Open, TypeOK
  <2>2. InStep(t)'
    BY <1>1, <1>2, <2>1 DEF InStep
  <2>3. ShownUpTo(t)' = ShownUpTo(t)
    BY <2>1 DEF ShownUpTo
  <2>4. CASE whole'[t]
    BY <1>3, <2>1, <2>2, <2>3, <2>4, ExactStays
  <2>5. CASE ~whole'[t]
    BY <2>2, <2>5 DEF Exact
  <2> QED BY <2>4, <2>5
<1>5. CASE Drop(t)
  <2>1. /\ UNCHANGED <<log, gone, seen, start, view, whole>>
        /\ phase[t] # "away" /\ phase'[t] = "away"
    BY <1>5 DEF Drop, worldVars, TypeOK
  <2>2. InStep(t)'
    BY <1>1, <2>1 DEF InStep
  <2> DEFINE old == Addressed(Who[t], start[t], cursor[t])
             due == Addressed(Who[t], start[t], seen[t])
  <2>3. (Addressed(Who[t], start[t], ShownUpTo(t)))' = due
    BY <2>1 DEF Addressed, ShownUpTo
  <2>4. due \subseteq old
    BY <1>1, <2>1 DEF Addressed, TypeOK
  <2>5. ASSUME whole[t] PROVE view[t] \subseteq due /\ \A n \in due \ view[t] : n <= gone[log[n].ch]
    <3>1. view[t] \subseteq old /\ \A n \in old \ view[t] : n <= gone[log[n].ch]
      BY <2>1, <2>5 DEF Exact, ShownUpTo
    <3>2. \A n \in view[t] : n <= seen[t]
      BY DEF ViewBehind
    <3>3. view[t] \subseteq due
      BY <3>1, <3>2 DEF Addressed
    <3> HIDE DEF old, due
    <3> QED BY <2>4, <3>1, <3>3
  <2> HIDE DEF due
  <2> QED BY <2>1, <2>2, <2>3, <2>5 DEF Exact
<1>6. CASE Read(t) \/ BreakOff(t)
  BY <1>6, ExactReads
<1>7. CASE Enter(t) \/ TakeOver(t)
  BY <1>7, ExactAttaches
<1> QED BY <1>4, <1>5, <1>6, <1>7, EachView

-----------------------------------------------------------------------------
(* All of it together *)

HeardInv ==
  /\ SessionInv /\ EndInv /\ ViewBehind /\ StaysInv /\ OwnControl
  /\ \A t \in Tabs : FeedInv(t) /\ InStep(t) /\ Exact(t)

LEMMA HeardInit == Init => HeardInv
<1> SUFFICES ASSUME Init PROVE HeardInv
  OBVIOUS
<1>1. TypeOK
  BY TypeInit
<1>2. SessionInv
  BY DEF Init, SessionInv, InWorld, Kicked, NoSession
<1>3. ViewBehind /\ EndInv
  BY DeliveryAssumption
     DEF DeliveryAssumption, Init, EndInv, EndIsComing, Channels, ViewBehind, NoRepeats
<1>4. Remains /\ OwnControl
  BY DEF Init, Remains, OwnControl
<1>5. \A p \in Players : ~InWorld(p)
  BY DEF Init, InWorld
<1>6. ChatsJoined
  BY DEF Init, ChatsJoined, NoFeed, Channels, Off
<1>7. StaysInv
  BY <1>4, <1>5, <1>6 DEF StaysInv, SubsMatchPlace, StayInv
<1>8. ASSUME NEW t \in Tabs PROVE FeedInv(t) /\ InStep(t) /\ Exact(t)
  BY DEF Init, FeedInv, InStep, Exact, Addressed
<1> QED BY <1>2, <1>3, <1>4, <1>7, <1>8 DEF HeardInv

LEMMA HeardNext == Uncut /\ TypeOK /\ HeardInv /\ [Next]_vars => HeardInv'
<1> SUFFICES ASSUME Uncut, TypeOK, HeardInv, [Next]_vars PROVE HeardInv'
  OBVIOUS
<1>1. SessionInv' /\ EndInv' /\ ViewBehind' /\ StaysInv'
  BY SessionNext, EndNext, BehindNext, StaysInvNext DEF HeardInv
<1>2. OwnControl'
  BY WorldStepSpares, ControlNext DEF HeardInv
<1>3. ASSUME NEW t \in Tabs PROVE (FeedInv(t) /\ InStep(t) /\ Exact(t))'
  BY FeedNext, ExactNext DEF HeardInv, StaysInv
<1> QED BY <1>1, <1>2, <1>3 DEF HeardInv

LEMMA HeardAlways == ASSUME Uncut PROVE Spec => [](TypeOK /\ HeardInv)
<1>1. Init => TypeOK /\ HeardInv
  BY TypeInit, HeardInit
<1>2. TypeOK /\ HeardInv /\ [Next]_vars => (TypeOK /\ HeardInv)'
  BY TypeNext, HeardNext
<1> QED BY <1>1, <1>2, PTL DEF Spec

\* A client whose view stays within one stay is shown exactly the events its
\* player was there for, in whatever order moves, chats, takeovers, broken
\* connections and resumes come, less what was cut from a shared stream
\* before it was read (relocate, resubscribe, Feed.open, Feed.read).
THEOREM ViewIsExact == ASSUME Uncut PROVE Spec => []ViewExact
<1>1. HeardInv => ViewExact
  BY DEF HeardInv, Exact, ViewExact
<1> QED BY <1>1, HeardAlways, PTL
-----------------------------------------------------------------------------
(* Delivery implements Hearing.  Hearing knows of no streams that are cut,  *)
(* so this is for streams that keep all they are given.                     *)

NoneCut == \A c \in Channels \ Players : gone[c] = 0

\* Then what was due was shown.
Full(t) == whole[t] => view[t] = Addressed(Who[t], start[t], ShownUpTo(t))

LEMMA FullReads ==
  ASSUME TypeOK, HeardInv, NoneCut, [Next]_vars, NEW t \in Tabs,
         Read(t) \/ BreakOff(t), Full(t)
  PROVE  Full(t)'
<1> SUFFICES ASSUME whole'[t] PROVE Full(t)'
  BY DEF Full
<1> DEFINE p == Who[t]
           due == Addressed(p, start[t], ShownUpTo(t)')
<1>1. /\ UNCHANGED <<log, gone, start, whole>> /\ phase[t] = "open" /\ whole[t]
      /\ cursor[t] \in Nat /\ start[t] \in Nat /\ DOMAIN log \subseteq Nat
      /\ \A m \in DOMAIN log : m > 0
  BY DEF Read, BreakOff, worldVars, TypeOK
<1>2. /\ EndInv /\ ViewBehind /\ Remains /\ FeedInv(t) /\ InStep(t) /\ Exact(t)
  BY DEF HeardInv, StaysInv
<1>3. Exact(t)'
  BY <1>2, ExactReads
<1>4. PICK n \in DOMAIN log, k \in Nat :
        /\ LastOfBatch(t, n)
        /\ Show(t, {m \in Batch(t, n) : m < k})
        /\ phase'[t] = "away" \/ (phase'[t] = "open" /\ cursor'[t] = n)
        /\ n \in Nat /\ seen'[t] <= n /\ seen'[t] \in Nat
  BY <1>2, ReadsBatch
<1>5. ShownUpTo(t)' <= n /\ ShownUpTo(t)' \in Nat
  BY <1>4 DEF ShownUpTo
<1>6. (Addressed(Who[t], start[t], ShownUpTo(t)))' = due
  BY <1>1 DEF Addressed
<1>7. view'[t] \subseteq due /\ \A m \in due \ view'[t] : m <= gone[log[m].ch]
  <2> HIDE DEF due
  <2> QED BY <1>1, <1>3, <1>6 DEF Exact
<1>8. ASSUME NEW m \in due, m \notin view'[t] PROVE FALSE
  <2>1. /\ m \in DOMAIN log /\ start[t] < m /\ m <= ShownUpTo(t)'
        /\ log[m].kind = "event" /\ p \in log[m].to /\ m \in Nat
    BY <1>1 DEF Addressed
  <2>2. m <= gone[log[m].ch]
    BY <1>7, <1>8
  <2>3. CASE m <= cursor[t]
    <3>1. m \in view[t]
      BY <1>1, <2>1, <2>3 DEF Full, Addressed, ShownUpTo
    <3> QED BY <1>4, <1>8, <3>1 DEF Show, TypeOK
  <2>4. CASE cursor[t] < m
    <3>1. m <= n
      BY <1>4, <1>5, <2>1
    <3>2. feed[t][log[m].ch] # Off
      BY <1>1, <1>2, <1>4, <2>1, <2>4, <3>1, BatchExact
    <3>3. log[m].ch \notin Players \ {p}
      BY <1>1, <1>2, <3>2 DEF FeedInv
    <3>4. CASE log[m].ch = p
      <4>1. gone[p] <= cursor[t] /\ gone[p] \in Nat
        BY <1>1, <1>2, <2>1, <3>4, ChannelType DEF FeedInv
      <4> QED BY <1>1, <2>1, <2>2, <2>4, <3>4, <4>1
    <3>5. CASE log[m].ch \notin Players
      <4>1. gone[log[m].ch] = 0
        BY <2>1, <3>5, ChannelType DEF NoneCut
      <4> QED BY <1>1, <2>1, <2>2, <4>1
    <3> QED BY <3>3, <3>4, <3>5
  <2> QED BY <1>1, <2>1, <2>3, <2>4
<1>9. view'[t] = due
  <2> HIDE DEF due
  <2> QED BY <1>7, <1>8
<1> HIDE DEF due
<1> QED BY <1>6, <1>9 DEF Full

\* What a step does to a client's view: nothing, or it begins anew, or more
\* is shown.
Unmoved(t) ==
  /\ view'[t] = view[t] /\ start'[t] = start[t] /\ whole'[t] = whole[t]
Anew(t) ==
  /\ view'[t] = {} \/ ~whole'[t]
  /\ start'[t] \in 0 .. Len(log')

LEMMA ViewMoves ==
  ASSUME TypeOK, Uncut, HeardInv, [Next]_vars, NEW t \in Tabs
  PROVE  \/ Unmoved(t) /\ (~(Read(t) \/ BreakOff(t) \/ Drop(t)) => ShownUpTo(t)' = ShownUpTo(t))
         \/ Anew(t) /\ (whole'[t] => view'[t] = {} /\ start'[t] = ShownUpTo(t)')
         \/ Read(t) \/ BreakOff(t)
<1>1. /\ cursor[t] <= Len(log) /\ seen[t] <= Len(log)
      /\ phase[t] # "away" => start[t] <= cursor[t]
      /\ cursor[t] \in Nat /\ seen[t] \in Nat /\ Len(log) \in Nat /\ start[t] \in Nat
  BY DEF HeardInv, EndInv, InStep, TypeOK
<1>2. Len(log) <= Len(log') /\ Len(log') \in Nat
  <2>1. Lasts /\ TypeOK'
    BY EachLasts, TypeNext DEF HeardInv, StaysInv
  <2> QED BY <2>1 DEF Lasts, TypeOK
<1>3. CASE Idle(t)
  BY <1>3 DEF Idle, Unmoved, ShownUpTo
<1>4. CASE Drop(t)
  BY <1>4 DEF Drop, Unmoved
<1>5. CASE Open(t)
  <2>1. /\ UNCHANGED <<view, start, seen, cursor>>
        /\ phase[t] # "away" /\ phase'[t] # "away" /\ whole'[t] \in BOOLEAN
        /\ whole'[t] => whole[t]
    BY <1>5 DEF Open, TypeOK
  <2>2. CASE whole'[t] = whole[t]
    BY <2>1, <2>2 DEF Unmoved, ShownUpTo
  <2>3. CASE whole'[t] # whole[t]
    <3>1. ~whole'[t]
      BY <2>1, <2>3 DEF TypeOK
    <3>2. start'[t] \in 0 .. Len(log')
      BY <1>1, <1>2, <2>1
    <3> QED BY <3>1, <3>2 DEF Anew
  <2> QED BY <2>2, <2>3
<1>6. CASE Enter(t) \/ TakeOver(t)
  <2>1. PICK n, b : n \in Nat /\ Attach(t, issued + 1, n, b) /\ seen[t] <= n
    BY <1>1, <1>6, Attaches, SMTT(30)
  <2>2. /\ phase'[t] = "opening" /\ cursor'[t] = n /\ phase[t] = "away"
        /\ \/ /\ n = seen[t] /\ start[t] <= n /\ start'[t] = start[t] /\ view'[t] = view[t]
              /\ whole'[t] = (b /\ whole[t])
           \/ start'[t] = n /\ view'[t] = {}
    BY <1>6, <2>1 DEF Attach, Enter, TakeOver, TypeOK
  <2>3. n <= Len(log')
    BY <1>6, <2>2, SparesEnter, SparesTakeOver
  <2>4. ShownUpTo(t)' = n
    BY <2>2 DEF ShownUpTo
  <2>5. CASE start'[t] = n /\ view'[t] = {}
    <3>1. start'[t] \in 0 .. Len(log')
      BY <1>2, <2>1, <2>3, <2>5
    <3> QED BY <2>4, <2>5, <3>1 DEF Anew
  <2>6. CASE /\ n = seen[t] /\ start[t] <= n /\ start'[t] = start[t] /\ view'[t] = view[t]
             /\ whole'[t] = (b /\ whole[t])
    <3>1. whole'[t] \in BOOLEAN /\ whole[t] \in BOOLEAN
      BY <1>2, TypeNext DEF TypeOK
    <3>2. CASE whole'[t] = whole[t]
      BY <2>2, <2>4, <2>6, <3>2 DEF Unmoved, ShownUpTo
    <3>3. CASE whole'[t] # whole[t]
      <4>1. ~whole'[t]
        BY <2>6, <3>1, <3>3
      <4>2. start'[t] \in 0 .. Len(log')
        BY <1>1, <1>2, <2>1, <2>3, <2>6
      <4> QED BY <4>1, <4>2 DEF Anew
    <3> QED BY <3>2, <3>3
  <2> QED BY <2>2, <2>5, <2>6
<1> QED BY <1>3, <1>4, <1>5, <1>6, EachView

LEMMA FullNext ==
  ASSUME TypeOK, Uncut, HeardInv, NoneCut, [Next]_vars, NEW t \in Tabs, Full(t)
  PROVE  Full(t)'
<1> SUFFICES ASSUME whole'[t] PROVE Full(t)'
  BY DEF Full
<1>1. TypeOK' /\ Remains
  BY TypeNext DEF HeardInv, StaysInv
<1>2. CASE Unmoved(t) /\ ShownUpTo(t)' = ShownUpTo(t)
  <2> DEFINE a == start[t]
             b == ShownUpTo(t)
             later == {n \in DOMAIN log' : /\ a < n /\ n <= b
                                           /\ log'[n].kind = "event" /\ Who[t] \in log'[n].to}
  <2>1. b \in Nat /\ b <= Len(log)
    BY DEF ShownUpTo, HeardInv, InStep, EndInv, TypeOK
  <2>2. later = Addressed(Who[t], a, b)
    <3> HIDE DEF a, b
    <3> QED BY <1>1, <2>1, DueKept
  <2>3. (Addressed(Who[t], start[t], ShownUpTo(t)))' = later
    BY <1>2 DEF Addressed, Unmoved
  <2>4. view[t] = Addressed(Who[t], a, b) /\ view'[t] = view[t]
    BY <1>2 DEF Full, Unmoved
  <2> HIDE DEF later, b
  <2> QED BY <2>2, <2>3, <2>4 DEF Full
<1>3. CASE Drop(t)
  <2> DEFINE due == Addressed(Who[t], start[t], seen[t])
  <2>1. /\ UNCHANGED <<log, gone, seen, start, view, whole>>
        /\ phase[t] # "away" /\ phase'[t] = "away"
    BY <1>3 DEF Drop, worldVars, TypeOK
  <2>2. view[t] = Addressed(Who[t], start[t], cursor[t])
    BY <2>1 DEF Full, ShownUpTo
  <2>3. \A n \in view[t] : n <= seen[t]
    BY DEF HeardInv, ViewBehind
  <2>4. /\ seen[t] <= cursor[t] /\ seen[t] \in Nat /\ cursor[t] \in Nat
        /\ DOMAIN log \subseteq Nat
    BY <2>1 DEF HeardInv, InStep, TypeOK
  <2>5. view[t] = due
    BY <2>2, <2>3, <2>4 DEF Addressed
  <2>6. (Addressed(Who[t], start[t], ShownUpTo(t)))' = due
    BY <2>1 DEF Addressed, ShownUpTo
  <2> HIDE DEF due
  <2> QED BY <2>1, <2>5, <2>6 DEF Full
<1>4. CASE view'[t] = {} /\ start'[t] = ShownUpTo(t)'
  <2>1. ShownUpTo(t)' \in Nat /\ DOMAIN log' \subseteq Nat
    BY <1>1 DEF ShownUpTo, TypeOK
  <2>2. (Addressed(Who[t], start[t], ShownUpTo(t)))' = {}
    BY <1>4, <2>1 DEF Addressed
  <2> QED BY <1>4, <2>2 DEF Full
<1>5. CASE Read(t) \/ BreakOff(t)
  BY <1>5, FullReads
<1> QED BY <1>2, <1>3, <1>4, <1>5, ViewMoves

FullInv == HeardInv /\ NoneCut /\ \A t \in Tabs : Full(t)

LEMMA FullAlways ==
  ASSUME Uncut, MaxLog <= CapShared PROVE Spec => [](TypeOK /\ FullInv)
<1>1. Init => TypeOK /\ FullInv
  <2>1. Init => NoneCut /\ \A t \in Tabs : Full(t)
    BY DEF Init, NoneCut, Full, Addressed
  <2> QED BY <2>1, TypeInit, HeardInit DEF FullInv
<1>2. TypeOK /\ FullInv /\ [Next]_vars => (TypeOK /\ FullInv)'
  <2> SUFFICES ASSUME TypeOK, FullInv, [Next]_vars PROVE (TypeOK /\ FullInv)'
    OBVIOUS
  <2>1. TypeOK' /\ HeardInv'
    BY TypeNext, HeardNext DEF FullInv
  <2>2. Lasts
    BY EachLasts DEF FullInv, HeardInv, StaysInv
  <2>3. NoneCut'
    BY <2>2 DEF NoneCut, Lasts, FullInv
  <2>4. ASSUME NEW t \in Tabs PROVE Full(t)'
    BY FullNext DEF FullInv
  <2> QED BY <2>1, <2>3, <2>4 DEF FullInv
<1> QED BY <1>1, <1>2, PTL DEF Spec

\* What a step shows of the detail: each client's view stays, grows by the
\* next events with none left out, or begins anew.
LEMMA StepHears ==
  ASSUME TypeOK, Uncut, FullInv, [Next]_vars
  PROVE  [H!Next]_(H!vars)
<1> DEFINE to == [n \in DOMAIN log |-> log[n].to]
           shown == [t \in Tabs |-> IF whole[t] THEN view[t] ELSE {}]
<1>1. TypeOK' /\ Lasts /\ HeardInv
  BY TypeNext, EachLasts DEF FullInv, HeardInv, StaysInv
<1>2. H!Continues
  BY <1>1 DEF H!Continues, Lasts
<1>3. DOMAIN shown' = Tabs /\ DOMAIN start' = Tabs
  BY <1>1 DEF TypeOK
<1>4. ASSUME NEW t \in Tabs
      PROVE  H!Stays(t) \/ H!Grows(t) \/ H!BeginsAnew(t)
  <2>1. /\ shown[t] = IF whole[t] THEN view[t] ELSE {}
        /\ shown'[t] = IF whole'[t] THEN view'[t] ELSE {}
    OBVIOUS
  <2>2. CASE Unmoved(t)
    BY <2>2 DEF Unmoved, H!Stays
  <2>3. CASE Anew(t)
    <3>1. shown'[t] = {}
      BY <2>3 DEF Anew
    <3>2. start'[t] \in {0} \cup DOMAIN log'
      BY <1>1, <2>3 DEF Anew, TypeOK
    <3> QED BY <3>1, <3>2 DEF H!BeginsAnew
  <2>4. CASE Read(t) \/ BreakOff(t)
    <3>1. UNCHANGED <<log, start, whole>>
      BY <2>4 DEF Read, BreakOff, worldVars
    <3>2. CASE ~whole[t]
      BY <2>1, <3>1, <3>2 DEF H!Stays
    <3>3. CASE whole[t]
      <4>1. EndInv /\ InStep(t)
        BY <1>1 DEF HeardInv
      <4>2. PICK n \in DOMAIN log, k \in Nat :
              /\ Show(t, {m \in Batch(t, n) : m < k})
              /\ phase'[t] = "away" \/ (phase'[t] = "open" /\ cursor'[t] = n)
              /\ \/ {m \in Batch(t, n) : m < k} = {} /\ seen'[t] = seen[t]
                 \/ seen'[t] \in {m \in Batch(t, n) : m < k}
        BY <2>4, <4>1, ReadsBatch
      <4>3. view'[t] = view[t] \cup {m \in Batch(t, n) : m < k}
        BY <4>2 DEF Show, TypeOK
      <4>4. CASE {m \in Batch(t, n) : m < k} = {}
        BY <2>1, <3>1, <4>3, <4>4 DEF H!Stays
      <4>5. CASE ShownUpTo(t)' \in DOMAIN log
        <5> DEFINE b == ShownUpTo(t)'
        <5>1. Full(t)'
          BY <1>1, <2>4, FullReads DEF FullInv
        <5>2. (Addressed(Who[t], start[t], ShownUpTo(t)))' = Addressed(Who[t], start[t], b)
          BY <3>1 DEF Addressed
        <5>3. view'[t] = Addressed(Who[t], start[t], b)
          BY <3>1, <3>3, <5>1, <5>2 DEF Full
        <5>4. Addressed(Who[t], start[t], b) = H!For(Who[t], start[t], b)
          BY <1>1 DEF Addressed, H!For, HeardInv, OwnControl
        <5> HIDE DEF b
        <5>5. shown'[t] = H!For(Who[t], start[t], b) /\ shown[t] \subseteq shown'[t]
          BY <2>1, <3>1, <3>3, <4>3, <5>3, <5>4
        <5> QED BY <3>1, <4>5, <5>5 DEF H!Grows, b
      <4>6. {m \in Batch(t, n) : m < k} # {} => ShownUpTo(t)' \in DOMAIN log
        <5>1. Batch(t, n) \subseteq DOMAIN log
          BY DEF Batch, Waiting
        <5> QED BY <4>2, <5>1 DEF ShownUpTo
      <4> QED BY <4>4, <4>5, <4>6
    <3> QED BY <3>2, <3>3
  <2> QED BY <1>1, <2>2, <2>3, <2>4, ViewMoves
<1> QED BY <1>2, <1>3, <1>4 DEF H!Next

\* To a player, channels, streams, feeds and connections come to this: what
\* happens where they are is shown to them in order with nothing left out, or
\* their view begins anew.
THEOREM HearsAsPromised ==
  ASSUME Uncut, MaxLog <= CapShared PROVE Spec => ImplementsHearing
<1>1. Init => H!Init
  BY DEF Init, H!Init
<1>2. TypeOK /\ FullInv /\ [Next]_vars => [H!Next]_(H!vars)
  BY StepHears
<1> QED BY <1>1, <1>2, FullAlways, PTL DEF Spec, ImplementsHearing, H!Spec
=============================================================================
