------------------------------ MODULE Delivery ------------------------------
(***************************************************************************)
(* How a player's view of the world reaches them.  Every event gets the    *)
(* next number of one global counter and is kept in the stream of its      *)
(* channel; a player in the world is subscribed to their own stream, to    *)
(* the channels of the place they are in, and to chat channels.  A server  *)
(* puts a connection into the world with one atomic call (connect), opens  *)
(* a feed at the cursor it was given in a second round trip (Feed.open),   *)
(* and then reads batch after batch (Feed.read).                           *)
(*                                                                         *)
(* One entry of `log` is one XADD: log[n] is the event numbered n, and the *)
(* stream of a channel is the entries of that channel which are not gone.  *)
(* A player's own stream is named by the player.  What an event says is    *)
(* left out, except for the two control events a feed acts on; the burst   *)
(* of state a call sends its player (map, kit, room...) is one event.      *)
(* `to` is history: the players who were there for the event.              *)
(***************************************************************************)
EXTENDS Integers, Sequences, FiniteSets

CONSTANTS Players,      \* player ids
          Tabs,         \* clients; each plays one character
          Who,          \* Who[t]: the player a client plays
          Rooms,
          Waypoints,    \* the rooms that are stops of a route, where a rider is alone until they come back there
          Areas,        \* areas, regions and realms
          AreasOf,      \* AreasOf[r]: those a room is in
          Chats,        \* chat channels
          DefaultChats, \* those a new character is put in
          StartRoom,
          Last,         \* Last[p]: the room a player was last in (a new one: the start room)
          Ambient,      \* shared channels with events from others: ambience, NPCs, other players
          CapShared,    \* events kept of a shared stream
          CapPlayer,    \* events kept of a player's own stream
          MaxLog,       \* bound: events in a behaviour
          MaxSessions   \* bound: connections in a behaviour

Channels == Players \cup Rooms \cup Areas \cup Chats

ASSUME DeliveryAssumption ==
  /\ Who \in [Tabs -> Players]
  /\ Waypoints \subseteq Rooms
  /\ StartRoom \in Rooms
  /\ Last \in [Players -> Rooms]
  /\ Ambient \subseteq Rooms \cup Areas \cup Chats
  /\ AreasOf \in [Rooms -> SUBSET Areas]
  /\ DefaultChats \subseteq Chats
  /\ Players \cap (Rooms \cup Areas \cup Chats) = {}
  /\ Chats \cap (Rooms \cup Areas) = {}
  /\ CapShared \in Nat \ {0}
  /\ CapPlayer \in Nat \ {0}
  /\ MaxLog \in Nat
  /\ MaxSessions \in Nat

NoSession == 0
Off == -1   \* not subscribed; a subscription is the number it was joined at

VARIABLES log,      \* alz:seq and every stream
          gone,     \* gone[c]: the stream of c has nothing up to this number
          born,     \* born[c]: the number after which its key was created
          session,  \* PLAYER:<id>:session
          room,     \* PLAYER:<id>:room
          standing, \* the players in their waypoint's ROOM:<id>:players
          subs,     \* PLAYER:<id>:subs
          greeted,  \* ACCOUNT:<id> joined_defaults
          expiring, \* whether the player's own stream has a time to live
          issued    \* session ids handed out so far

worldVars == <<log, gone, born, session, room, standing, subs, greeted, expiring, issued>>

VARIABLES phase,    \* a client's connection: away, opening or open
          sid,      \* the session id of its latest connection
          cursor,   \* Feed.cursor
          feed,     \* Feed.subs
          seen      \* the client's lastSeq

\* History: what the client was shown, and since when.
VARIABLES view,     \* numbers of the events shown since `start`
          start,    \* where the present view began
          entered,  \* entered[p]: where the player's latest stay in the world began
          whole,    \* the view has stayed within one stay (see Open)
          closed    \* sessions that asked to leave, or were reaped

clientVars == <<phase, sid, cursor, feed, seen, view, start, whole>>
vars == <<worldVars, clientVars, entered, closed>>

-----------------------------------------------------------------------------
(* Events and streams *)

Event(c, hearers) == [ch |-> c, kind |-> "event", session |-> NoSession,
                      add |-> {}, remove |-> {}, to |-> hearers]
Events == [ch : Channels, kind : {"event", "kick", "subs"}, session : Nat,
           add : SUBSET Channels, remove : SUBSET Channels, to : SUBSET Players]

Kick(p, s) == [ch |-> p, kind |-> "kick", session |-> s,
               add |-> {}, remove |-> {}, to |-> {}]
Subs(p, add, remove) == [ch |-> p, kind |-> "subs", session |-> NoSession,
                         add |-> add, remove |-> remove, to |-> {}]

Cap(c) == IF c \in Players THEN CapPlayer ELSE CapShared

\* The entries of c after number n.
Entries(l, c, n) == {m \in DOMAIN l : l[m].ch = c /\ m > n}

\* XADD ... MAXLEN ~: a stream over its cap may be cut, never below the cap.
\* Redis drops whole nodes, so when and how far is its own affair.
Cuts(l, g, D) ==
  {k \in [D -> DOMAIN l] :
     \A c \in D : /\ l[k[c]].ch = c
                  /\ k[c] > g[c]
                  /\ Cardinality(Entries(l, c, k[c])) >= Cap(c)}

Trimmed(l, g, written) ==
  UNION {{[c \in Channels |-> IF c \in D THEN k[c] ELSE g[c]] : k \in Cuts(l, g, D)} :
           D \in SUBSET {c \in written : Cardinality(Entries(l, c, g[c])) > Cap(c)}}

\* One call's events, in order.
Emit(es) ==
  /\ Len(log) + Len(es) <= MaxLog
  /\ log' = log \o es
  /\ gone' \in Trimmed(log \o es, gone, {es[i].ch : i \in DOMAIN es})

InWorld(p) == session[p] # NoSession
Listeners(c) == {q \in Players : InWorld(q) /\ subs[q][c] # Off}
Here(c) == Event(c, Listeners(c))
Own(p) == Event(p, {p})

\* For a rider, the room as well if they are among those who stand there.
PlaceChannels(p, r, there) ==
  {p} \cup AreasOf[r] \cup (IF r \in Waypoints /\ p \notin there THEN {} ELSE {r})

\* Bug: what is left is not unsubscribed.
ResubscribedKeeping(p, add, remove, n) ==
  [subs EXCEPT ![p] = [c \in Channels |-> IF c \in add THEN n ELSE subs[p][c]]]

\* The subscriptions once `remove` is dropped and `add` joined at number n.
Resubscribed(p, add, remove, n) ==
  [subs EXCEPT ![p] = [c \in Channels |->
     IF c \in add THEN n ELSE IF c \in remove THEN Off ELSE subs[p][c]]]

-----------------------------------------------------------------------------
(* Connecting *)

\* Bug: the hole is found one event too late.
LostLate(l, g, p, n) ==
  \E c \in Channels :
    /\ subs[p][c] # Off \/ c = p
    /\ g[c] > born[c]
    /\ Entries(l, c, g[c]) # {}
    /\ \A m \in Entries(l, c, g[c]) : m > n + 2 /\ m > subs[p][c] + 2

\* A stream the player reads was trimmed and now starts after what they need:
\* the replay from number n may have a hole in it.
Lost(l, g, p, n) ==
  \E c \in Channels :
    /\ subs[p][c] # Off \/ c = p
    /\ g[c] > born[c]
    /\ Entries(l, c, g[c]) # {}
    /\ \A m \in Entries(l, c, g[c]) :
         /\ m > n + 1
         /\ m > subs[p][c] + 1

\* The server now has a cursor for this client and will open a feed there.
\* A client that gets the cursor it asked for carries its view on.
Attach(t, s, n, stayed) ==
  LET carriesOn == n = seen[t] /\ n >= start[t]
  IN /\ phase' = [phase EXCEPT ![t] = "opening"]
     /\ sid' = [sid EXCEPT ![t] = s]
     /\ cursor' = [cursor EXCEPT ![t] = n]
     /\ start' = [start EXCEPT ![t] = IF carriesOn THEN @ ELSE n]
     /\ view' = [view EXCEPT ![t] = IF carriesOn THEN @ ELSE {}]
     /\ whole' = [whole EXCEPT ![t] = stayed /\ (carriesOn => @)]
     /\ UNCHANGED <<feed, seen>>

\* connect, with the player already in the world: the old connection is ended
\* and the new one reads on from what the client saw, or from now.
TakeOver(t) ==
  LET p == Who[t]
      kicked == Append(log, Kick(p, session[p]))
      now == Len(kicked)
      since == IF 0 < seen[t] /\ seen[t] < now THEN seen[t] ELSE now
      written == Append(kicked, Own(p))
  IN /\ phase[t] = "away"
     /\ InWorld(p)
     /\ issued < MaxSessions
     /\ Len(written) <= MaxLog
     /\ log' = written
     /\ \E g \in Trimmed(kicked, gone, {p}) :
          LET n == IF since < now /\ Lost(kicked, g, p, since) THEN now ELSE since
          IN /\ gone' \in Trimmed(written, g, {p})
             /\ Attach(t, issued + 1, n, n >= entered[p])
     /\ issued' = issued + 1
     /\ session' = [session EXCEPT ![p] = issued + 1]
     /\ expiring' = [expiring EXCEPT ![p] = FALSE]
     /\ UNCHANGED <<born, room, standing, subs, greeted, entered, closed>>

\* connect, with the player out of the world: they come in from now on,
\* whatever the client saw before.  A rider comes in on the waypoint's floor:
\* the test for one aboard compares a missing field with nil, and is false.
Enter(t) ==
  LET p == Who[t]
      r == room[p]
      arrival == <<Here(r)>>
      now == Len(log) + Len(arrival)
      there == IF r \in Waypoints THEN standing \cup {p} ELSE standing
      add == PlaceChannels(p, r, there) \cup (IF greeted[p] THEN {} ELSE DefaultChats)
  IN /\ phase[t] = "away"
     /\ ~InWorld(p)
     /\ issued < MaxSessions
     /\ Emit(arrival \o <<Subs(p, add, {}), Own(p)>>)
     /\ standing' = there
     /\ subs' = Resubscribed(p, add, Channels \ Chats, now + 1)
     /\ greeted' = [greeted EXCEPT ![p] = TRUE]
     /\ issued' = issued + 1
     /\ session' = [session EXCEPT ![p] = issued + 1]
     /\ expiring' = [expiring EXCEPT ![p] = FALSE]
     /\ entered' = [entered EXCEPT ![p] = now]
     /\ Attach(t, issued + 1, now, TRUE)
     /\ UNCHANGED <<born, room, closed>>

\* Bug: the player's own stream is undone with the rest.
FeedAtWithoutOwn(p, n) ==
  LET changes == {m \in Entries(log, p, gone[p]) : m > n /\ log[m].kind = "subs"}
  IN [c \in Channels |-> IF \E m \in changes : c \in log[m].add THEN Off ELSE subs[p][c]]

\* The player's subscriptions as they were at number n: the `subs` changes
\* after n are undone, so for each channel the first of them decides.
FeedAt(p, n) ==
  LET changes == {m \in Entries(log, p, gone[p]) : m > n /\ log[m].kind = "subs"}
      of(c) == {m \in changes : c \in log[m].add \cup log[m].remove}
      restored(c) == \E m \in of(c) : c \in log[m].remove /\ \A k \in of(c) : m <= k
  IN [c \in Channels |-> CASE c = p -> 0
                           [] c # p /\ of(c) = {} -> subs[p][c]
                           [] c # p /\ of(c) # {} /\ restored(c) -> 0
                           [] OTHER -> Off]

\* Feed.open: a round trip of its own, after connect.
Open(t) ==
  LET p == Who[t]
  IN /\ phase[t] = "opening"
     /\ phase' = [phase EXCEPT ![t] = "open"]
     /\ feed' = [feed EXCEPT ![t] = FeedAt(p, cursor[t])]
     /\ whole' = [whole EXCEPT ![t] = @ /\ InWorld(p) /\ cursor[t] >= entered[p]]
     /\ UNCHANGED <<worldVars, sid, cursor, seen, view, start, entered, closed>>

-----------------------------------------------------------------------------
(* Reading *)

\* What an XREAD of the feed's streams returns.
Waiting(t) ==
  {n \in DOMAIN log : LET c == log[n].ch
                      IN /\ feed[t][c] # Off
                         /\ n > feed[t][c]
                         /\ n > cursor[t]
                         /\ n > gone[c]}

Ends(t, n) == log[n].kind = "kick" /\ log[n].session = sid[t]
\* Bug: a batch is not cut where the subscriptions change.
StopsAtEnd(t) == {n \in Waiting(t) : Ends(t, n)}
Stops(t) == {n \in Waiting(t) : log[n].kind = "subs" \/ Ends(t, n)}

\* A batch is cut at the first change of subscriptions, and at this
\* connection's end; what is behind it is fetched again.
LastOfBatch(t, n) ==
  /\ n \in Waiting(t)
  /\ IF Stops(t) = {} THEN \A m \in Waiting(t) : m <= n
     ELSE n \in Stops(t) /\ \A m \in Stops(t) : n <= m

Batch(t, n) == {m \in Waiting(t) : m <= n /\ log[m].kind = "event"}

\* Bug: channels that were left are read on.
FeedAfterKeeping(t, n) ==
  IF log[n].kind # "subs" THEN feed[t]
  ELSE [c \in Channels |-> IF c \in log[n].add THEN n ELSE feed[t][c]]

FeedAfter(t, n) ==
  IF log[n].kind # "subs" THEN feed[t]
  ELSE [c \in Channels |-> IF c \in log[n].add THEN n
                           ELSE IF c \in log[n].remove THEN Off ELSE feed[t][c]]

\* The client is shown these events.
Show(t, shown) ==
  /\ view' = [view EXCEPT ![t] = @ \cup shown]
  /\ \/ shown = {} /\ seen' = seen
     \/ \E n \in shown : /\ \A m \in shown : m <= n
                         /\ seen' = [seen EXCEPT ![t] = n]

NoFeed == [c \in Channels |-> Off]

\* One turn of the pump: a batch is read and sent on.
Read(t) ==
  /\ phase[t] = "open"
  /\ \E n \in DOMAIN log :
       /\ LastOfBatch(t, n)
       /\ Show(t, Batch(t, n))
       /\ cursor' = [cursor EXCEPT ![t] = n]
       /\ IF Ends(t, n)
          THEN /\ phase' = [phase EXCEPT ![t] = "away"]
               /\ feed' = [feed EXCEPT ![t] = NoFeed]
          ELSE /\ phase' = phase
               /\ feed' = [feed EXCEPT ![t] = FeedAfter(t, n)]
  /\ UNCHANGED <<worldVars, sid, start, whole, entered, closed>>

\* The connection goes while a batch is on its way: the client gets only the
\* events before number k.
BreakOff(t) ==
  /\ phase[t] = "open"
  /\ \E n \in DOMAIN log : \E k \in Batch(t, n) :
       /\ LastOfBatch(t, n)
       /\ Show(t, {m \in Batch(t, n) : m < k})
  /\ phase' = [phase EXCEPT ![t] = "away"]
  /\ feed' = [feed EXCEPT ![t] = NoFeed]
  /\ UNCHANGED <<worldVars, sid, cursor, start, whole, entered, closed>>

\* The connection, or its server, goes between batches.
Drop(t) ==
  /\ phase[t] # "away"
  /\ phase' = [phase EXCEPT ![t] = "away"]
  /\ feed' = [feed EXCEPT ![t] = NoFeed]
  /\ UNCHANGED <<worldVars, sid, cursor, seen, view, start, whole, entered, closed>>

-----------------------------------------------------------------------------
(* Leaving the world *)

\* Bug: the connection is not told.
LeaveWorldSilently(p) ==
  /\ Emit(<<Here(room[p])>>)
  /\ subs' = [subs EXCEPT ![p] = [c \in Channels |-> IF c \in Chats THEN subs[p][c] ELSE Off]]
  /\ session' = [session EXCEPT ![p] = NoSession]
  /\ expiring' = [expiring EXCEPT ![p] = TRUE]
  /\ standing' \in {standing, standing \ {p}}
  /\ UNCHANGED <<born, room, greeted, issued, clientVars, entered>>

\* disconnect, once it has decided to go ahead.  In an ambush the body stays
\* lying there; otherwise nobody is left standing.
LeaveWorld(p) ==
  /\ Emit(<<Here(room[p]), Kick(p, session[p])>>)
  /\ subs' = [subs EXCEPT ![p] = [c \in Channels |-> IF c \in Chats THEN subs[p][c] ELSE Off]]
  /\ session' = [session EXCEPT ![p] = NoSession]
  /\ expiring' = [expiring EXCEPT ![p] = TRUE]
  /\ standing' \in {standing, standing \ {p}}
  /\ UNCHANGED <<born, room, greeted, issued, clientVars, entered>>

\* Bug: any connection of the player's will do.
HoldsAny(t) == InWorld(Who[t])

\* disconnect for a connection: only the one that holds the player counts.
Holds(t) == session[Who[t]] = sid[t]

\* QUIT, LOGOUT, or too long idle: by the connection itself.
Quit(t) ==
  /\ phase[t] = "open"
  /\ sid[t] \notin closed
  /\ closed' = closed \cup {sid[t]}
  /\ IF Holds(t) THEN LeaveWorld(Who[t])
     ELSE UNCHANGED <<worldVars, clientVars, entered>>

\* A heartbeat too old: by any server.
Reap(p) ==
  /\ InWorld(p)
  /\ closed' = closed \cup {session[p]}
  /\ LeaveWorld(p)

\* Ten minutes out of the world, the player's own stream expires.  By then
\* every connection of theirs has long read its end.
Expire(p) ==
  /\ expiring[p]
  /\ \A t \in Tabs : Who[t] = p => phase[t] = "away"
  /\ gone' = [gone EXCEPT ![p] = Len(log)]
  /\ born' = [born EXCEPT ![p] = Len(log)]
  /\ expiring' = [expiring EXCEPT ![p] = FALSE]
  /\ UNCHANGED <<log, session, room, standing, subs, greeted, issued, clientVars, entered, closed>>

-----------------------------------------------------------------------------
(* Being in the world *)

\* relocate: a walk, a jump, a ride, or waking at the shrine; also for a player
\* who has just left in a fight, and whose flight or fall is carried out late.
Relocate(p, d) ==
  LET r == room[p]
      there == standing \ {p}
      leave == IF r \in Waypoints /\ p \notin standing THEN <<>> ELSE <<Here(r)>>
      arrive == IF d \in Waypoints THEN <<>> ELSE <<Here(d)>>
      add == PlaceChannels(p, d, there) \ PlaceChannels(p, r, standing)
      remove == PlaceChannels(p, r, standing) \ PlaceChannels(p, d, there)
  IN /\ InWorld(p) \/ expiring[p]
     /\ Emit(leave \o arrive \o <<Subs(p, add, remove), Own(p)>>)
     /\ subs' = Resubscribed(p, add, remove, Len(log) + Len(leave) + Len(arrive) + 1)
     /\ room' = [room EXCEPT ![p] = d]
     /\ standing' = there
     /\ UNCHANGED <<born, session, greeted, expiring, issued, clientVars, entered, closed>>

Join(p, ch) ==
  /\ InWorld(p)
  /\ subs[p][ch] = Off
  /\ Emit(<<Subs(p, {ch}, {}), Event(ch, Listeners(ch) \cup {p})>>)
  /\ subs' = Resubscribed(p, {ch}, {}, Len(log) + 1)
  /\ UNCHANGED <<born, session, room, standing, greeted, expiring, issued, clientVars, entered, closed>>

Leave(p, ch) ==
  /\ InWorld(p)
  /\ subs[p][ch] # Off
  /\ Emit(<<Here(ch), Subs(p, {}, {ch})>>)
  /\ subs' = Resubscribed(p, {}, {ch}, Len(log) + 2)
  /\ UNCHANGED <<born, session, room, standing, greeted, expiring, issued, clientVars, entered, closed>>

quiet == <<born, session, room, standing, subs, greeted, expiring, issued, clientVars, entered, closed>>

\* chat in a channel one is in.
Chat(p, ch) ==
  /\ InWorld(p)
  /\ subs[p][ch] # Off
  /\ Emit(<<Here(ch)>>)
  /\ UNCHANGED quiet

\* tell: the other first, then oneself.
Tell(p, q) ==
  /\ p # q
  /\ InWorld(p)
  /\ InWorld(q)
  /\ Emit(<<Own(q), Own(p)>>)
  /\ UNCHANGED quiet

\* Something from outside: ambient, or anything others say or do there.
Happen(c) ==
  /\ Emit(<<Here(c)>>)
  /\ UNCHANGED quiet

-----------------------------------------------------------------------------

\* Nobody is in the world, and the numbers are counted from here.
Init ==
  /\ log = <<>>
  /\ gone = [c \in Channels |-> 0]
  /\ born = [c \in Channels |-> 0]
  /\ session = [p \in Players |-> NoSession]
  /\ room = Last
  /\ standing = {}
  /\ subs = [p \in Players |-> NoFeed]
  /\ greeted = [p \in Players |-> Last[p] # StartRoom]
  /\ expiring = [p \in Players |-> FALSE]
  /\ issued = 0
  /\ phase = [t \in Tabs |-> "away"]
  /\ sid = [t \in Tabs |-> NoSession]
  /\ cursor = [t \in Tabs |-> 0]
  /\ feed = [t \in Tabs |-> NoFeed]
  /\ seen = [t \in Tabs |-> 0]
  /\ view = [t \in Tabs |-> {}]
  /\ start = [t \in Tabs |-> 0]
  /\ entered = [p \in Players |-> 0]
  /\ whole = [t \in Tabs |-> TRUE]
  /\ closed = {}

ClientStep(t) == \/ Enter(t)
                 \/ TakeOver(t)
                 \/ Open(t)
                 \/ Read(t)
                 \/ BreakOff(t)
                 \/ Drop(t)
                 \/ Quit(t)

PlayerStep(p) == \/ Reap(p)
                 \/ Expire(p)
                 \/ \E d \in Rooms : Relocate(p, d)
                 \/ \E ch \in Chats : Join(p, ch) \/ Leave(p, ch) \/ Chat(p, ch)
                 \/ \E q \in Players : Tell(p, q)

Next == \/ \E t \in Tabs : ClientStep(t)
        \/ \E p \in Players : PlayerStep(p)
        \/ \E c \in Ambient : Happen(c)

Spec == Init /\ [][Next]_vars

\* A server opens the feed of a connection it accepted and keeps reading it.
Fairness == \A t \in Tabs : WF_vars(Open(t)) /\ WF_vars(Read(t))

FairSpec == Spec /\ Fairness
-----------------------------------------------------------------------------
(* What should be true *)

\* The variables keep to their types (connect, disconnect, relocate, Feed).
TypeOK ==
  /\ log \in Seq(Events)
  /\ gone \in [Channels -> Nat]
  /\ born \in [Channels -> Nat]
  /\ session \in [Players -> Nat]
  /\ room \in [Players -> Rooms]
  /\ standing \in SUBSET Players
  /\ subs \in [Players -> [Channels -> Nat \cup {Off}]]
  /\ greeted \in [Players -> BOOLEAN]
  /\ expiring \in [Players -> BOOLEAN]
  /\ issued \in Nat
  /\ phase \in [Tabs -> {"away", "opening", "open"}]
  /\ sid \in [Tabs -> Nat]
  /\ cursor \in [Tabs -> Nat]
  /\ feed \in [Tabs -> [Channels -> Nat \cup {Off}]]
  /\ seen \in [Tabs -> Nat]
  /\ view \in [Tabs -> SUBSET Nat]
  /\ start \in [Tabs -> Nat]
  /\ entered \in [Players -> Nat]
  /\ whole \in [Tabs -> BOOLEAN]
  /\ closed \in SUBSET Nat

\* A player in the world is subscribed to the place they are in and to chat
\* channels, whatever became of their body while they were away: to a waypoint's
\* room just when they stand there (place_channels, resubscribe, connect).
SubsMatchPlace ==
  \A p \in Players : InWorld(p) =>
    \A c \in Channels \ Chats : subs[p][c] # Off <=> c \in PlaceChannels(p, room[p], standing)

\* How far into the sequence a client's view reaches.
ShownUpTo(t) == IF phase[t] = "away" THEN seen[t] ELSE cursor[t]

Addressed(p, from, upTo) ==
  {n \in DOMAIN log : from < n /\ n <= upTo /\ log[n].kind = "event" /\ p \in log[n].to}

\* Nothing missed and nothing extra, across moves, chats, takeovers and
\* resumed connections: a client has been shown exactly the events their
\* player was there for, from where the view began, less what was cut from a
\* stream before it was read.  A view that was resumed from an earlier stay,
\* or opened after the player left, promises nothing.
ViewExact ==
  \A t \in Tabs :
    whole[t] => LET due == Addressed(Who[t], start[t], ShownUpTo(t))
                IN view[t] \subseteq due /\ \A n \in due \ view[t] : n <= gone[log[n].ch]

\* Nothing is shown twice or out of order, through any number of resumes: all
\* that was shown is behind the cursor, and every batch is ahead of it
\* (Feed.read; index.html drops what it has seen, and never needs to).
NoRepeats ==
  \A t \in Tabs : phase[t] # "away" => \A n \in view[t] : n <= cursor[t]

Current(t) == session[Who[t]] = sid[t]
KickFor(s, n) == log[n].kind = "kick" /\ log[n].session = s

\* A connection that no longer holds its player has its end ahead of it in
\* the stream it reads (connect and disconnect emit the kick).
EndIsComing ==
  \A t \in Tabs :
    phase[t] # "away" /\ ~Current(t) =>
      \E n \in Entries(log, Who[t], gone[Who[t]]) : n > cursor[t] /\ KickFor(sid[t], n)

\* Only one connection is left standing: the one that holds the player is
\* never told to end, whatever kicks it passes on its way.
HolderIsNotEnded ==
  \A t \in Tabs : phase[t] # "away" /\ Current(t) => ~\E n \in DOMAIN log : KickFor(sid[t], n)

Newest(t) == sid[t] # NoSession /\ \A u \in Tabs : Who[u] = Who[t] => sid[u] <= sid[t]

\* A player leaves the world only when their newest connection asks for it or
\* is given up: a superseded connection's late QUIT changes nothing.
StaysUntilAsked ==
  \A t \in Tabs : Newest(t) /\ sid[t] \notin closed => Current(t)

\* A resumed connection carries on only if every event it needs from the
\* channels its player is in is still there (connect's check for trimming).
ResumesWithoutHole ==
  [][\A t \in Tabs :
       /\ phase[t] = "away" /\ phase'[t] = "opening"
       /\ cursor'[t] < Len(log)
       => \A n \in DOMAIN log :
            LET c == log[n].ch
            IN n > cursor'[t] /\ subs[Who[t]][c] # Off /\ n > subs[Who[t]][c] /\ c # Who[t]
               => n > gone'[c]]_vars

\* The README's promise: a client that missed more than a stream keeps is told
\* so.  One that carries on silently can still read all it was there for.
ToldOfLoss ==
  [][\A t \in Tabs :
       /\ phase[t] = "away" /\ phase'[t] = "opening"
       /\ cursor'[t] = seen[t] /\ cursor'[t] >= entered[Who[t]]
       => \A n \in DOMAIN log :
            n > cursor'[t] /\ log[n].kind = "event" /\ Who[t] \in log[n].to
            => n > gone'[log[n].ch]]_vars

\* The README's promise: nothing from the time away is shown, whatever the
\* client asks for.
NothingFromTimeAway ==
  \A t \in Tabs : \A n \in view[t] : Who[t] \in log[n].to

\* Every event a player in the world is there for reaches a client that stays
\* connected.
EverythingArrives ==
  \A t \in Tabs : \A n \in 1..MaxLog :
    (phase[t] # "away" /\ n \in Addressed(Who[t], cursor[t], Len(log)))
      ~> (phase[t] = "away" \/ n <= cursor[t])

\* A connection that lost its player to another ends.
SupersededEnds ==
  \A t \in Tabs : (phase[t] # "away" /\ ~Current(t)) ~> (phase[t] = "away")

\* Delivery does what Hearing promises, to every client whose view has stayed
\* within one stay in the world.
H == INSTANCE Hearing WITH
       to <- [n \in DOMAIN log |-> log[n].to],
       shown <- [t \in Tabs |-> IF whole[t] THEN view[t] ELSE {}],
       from <- start

ImplementsHearing == H!Spec
=============================================================================
