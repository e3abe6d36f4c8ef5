------------------------------ MODULE Accounts ------------------------------
(***************************************************************************)
(* Getting into the world (auth.py; session.py: _authenticate,             *)
(* _create_character and _quit; alzendor.lua: create_character).  A        *)
(* connection registers, logs in or resumes with a token, makes its        *)
(* character if there is none, and is in.  Redis and the hashing thread    *)
(* are awaited at every step, so the connections of one name or of one     *)
(* address are anywhere between each other's steps, and a timeout or the   *)
(* end of a server cuts one off at any of them.                            *)
(*                                                                         *)
(* A hash stands for its password, a token for itself.  The allowance of   *)
(* messages, which only slows a connection down, is left out.              *)
(***************************************************************************)
EXTENDS Integers, FiniteSets

CONSTANTS Connections,
          Names,       \* account ids, as they are typed
          Passwords,
          Choices,     \* characters to choose from
          Addresses, AddressOf,  \* AddressOf[c]: where connection c is from
          Tokens,
          SIGNUPS,                     \* signups_per_hour
          LOGIN_FAILURES_PER_ADDRESS, LOGIN_FAILURES_PER_ACCOUNT

ASSUME AccountsAssumption ==
  /\ AddressOf \in [Connections -> Addresses]
  /\ {SIGNUPS, LOGIN_FAILURES_PER_ADDRESS, LOGIN_FAILURES_PER_ACCOUNT} \subseteq Nat \ {0}
  /\ IsFiniteSet(Connections)

VARIABLES
  account,  \* ACCOUNT:<name>: [hash, named, created]
  rate,     \* RATE:<key>: how many, and whether it is set to expire
  token,    \* TOKEN:<token>: whose it is
  conn      \* each connection: where it is, and what it holds

vars == <<account, rate, token, conn>>

None == "none"
NoAccount == [hash |-> None, named |-> FALSE, created |-> None]

\* The keys attempts are counted under.
Register(a) == <<"register", a>>
FromAddress(a) == <<"login:addr", a>>
ForAccount(n) == <<"login:acct", n>>
Keys == {Register(a) : a \in Addresses} \union {FromAddress(a) : a \in Addresses} \union {ForAccount(n) : n \in Names}
Limit(key) == CASE key[1] = "register"   -> SIGNUPS
                [] key[1] = "login:addr" -> LOGIN_FAILURES_PER_ADDRESS
                [] key[1] = "login:acct" -> LOGIN_FAILURES_PER_ACCOUNT

\* Connections at "lobby" wait for a message, at "creating" for choices.
Steps == {"gone", "lobby",
          "register_count", "register_bump", "exists", "hsetnx", "set_name",
          "count_address", "count_account", "hget", "verify", "bump_address", "bump_account", "forgive", "rehash",
          "issue", "created", "creating", "created_meanwhile", "in"}

Stranger(step) == [at |-> step, name |-> None, password |-> None, stored |-> None, token |-> None, choice |-> None]

At(c, step) == conn[c].at = step
Goes(c, step) == conn' = [conn EXCEPT ![c].at = step]
Refused(c) == conn' = [conn EXCEPT ![c] = Stranger("lobby")]

----------------------------------------------------------------------------
(* Attempts are counted, each key for a window from its first. *)

_count(key) == rate[key].n
\* Bug: a count that has passed the limit is let through.
OverExactly(key) == _count(key) = Limit(key)

Over(key) == _count(key) >= Limit(key)

\* Bug: the count is kept without a window.
_bumpOnly(key) == rate' = [rate EXCEPT ![key].n = @ + 1]

_bump(key) == rate' = [rate EXCEPT ![key] = [n |-> @.n + 1, expires |-> TRUE]]

\* A window is over.
Expires(key) ==
  /\ rate[key].expires
  /\ rate' = [rate EXCEPT ![key] = [n |-> 0, expires |-> FALSE]]
  /\ UNCHANGED <<account, token, conn>>

----------------------------------------------------------------------------
(* Connections: a message, then one await at a time. *)

Connect(c) ==
  /\ At(c, "gone")
  /\ conn' = [conn EXCEPT ![c] = Stranger("lobby")]
  /\ UNCHANGED <<account, rate, token>>

\* A register or a login begins.
Asks(c, kind, name, password) ==
  /\ At(c, "lobby")
  /\ conn' = [conn EXCEPT ![c] = [Stranger(kind) EXCEPT !.name = name, !.password = password]]
  /\ UNCHANGED <<account, rate, token>>

Name(c) == conn[c].name

\* Bug: hset for hsetnx: that the name was free is taken from before the hash.
registerAnyway(c) ==
  LET key == Register(AddressOf[c])
      name == Name(c)
  IN \/ /\ At(c, "register_count")
        /\ IF Over(key) THEN Refused(c) ELSE Goes(c, "register_bump")
        /\ UNCHANGED <<account, rate, token>>
     \/ /\ At(c, "register_bump") /\ _bump(key) /\ Goes(c, "exists")
        /\ UNCHANGED <<account, token>>
     \/ /\ At(c, "exists")
        /\ IF account[name] # NoAccount THEN Refused(c) ELSE Goes(c, "hsetnx")
        /\ UNCHANGED <<account, rate, token>>
     \/ /\ At(c, "hsetnx") /\ Goes(c, "set_name")
        /\ account' = [account EXCEPT ![name].hash = conn[c].password]
        /\ UNCHANGED <<rate, token>>
     \/ /\ At(c, "set_name") /\ Goes(c, "issue")
        /\ account' = [account EXCEPT ![name].named = TRUE]
        /\ UNCHANGED <<rate, token>>

register(c) ==
  LET key == Register(AddressOf[c])
      name == Name(c)
  IN \/ /\ At(c, "register_count")
        /\ IF Over(key) THEN Refused(c) ELSE Goes(c, "register_bump")
        /\ UNCHANGED <<account, rate, token>>
     \/ /\ At(c, "register_bump") /\ _bump(key) /\ Goes(c, "exists")
        /\ UNCHANGED <<account, token>>
     \/ /\ At(c, "exists")
        /\ IF account[name] # NoAccount THEN Refused(c) ELSE Goes(c, "hsetnx")
        /\ UNCHANGED <<account, rate, token>>
     \/ /\ At(c, "hsetnx")
        /\ IF account[name].hash # None THEN Refused(c) /\ UNCHANGED account
           ELSE Goes(c, "set_name") /\ account' = [account EXCEPT ![name].hash = conn[c].password]
        /\ UNCHANGED <<rate, token>>
     \/ /\ At(c, "set_name") /\ Goes(c, "issue")
        /\ account' = [account EXCEPT ![name].named = TRUE]
        /\ UNCHANGED <<rate, token>>

\* Wrong or right, the answer is judged by the hash as it was read; a hash
\* made with old parameters is made anew.
_verify(c) == conn[c].stored # None /\ conn[c].stored = conn[c].password
login(c) ==
  LET address == FromAddress(AddressOf[c])
      mine == ForAccount(Name(c))
  IN \/ /\ At(c, "count_address")
        /\ IF Over(address) THEN Refused(c) ELSE Goes(c, "count_account")
        /\ UNCHANGED <<account, rate, token>>
     \/ /\ At(c, "count_account")
        /\ IF Over(mine) THEN Refused(c) ELSE Goes(c, "hget")
        /\ UNCHANGED <<account, rate, token>>
     \/ /\ At(c, "hget")
        /\ conn' = [conn EXCEPT ![c].at = "verify", ![c].stored = account[Name(c)].hash]
        /\ UNCHANGED <<account, rate, token>>
     \/ /\ At(c, "verify")
        /\ Goes(c, IF _verify(c) THEN "forgive" ELSE "bump_address")
        /\ UNCHANGED <<account, rate, token>>
     \/ /\ At(c, "bump_address") /\ _bump(address) /\ Goes(c, "bump_account")
        /\ UNCHANGED <<account, token>>
     \/ /\ At(c, "bump_account") /\ _bump(mine) /\ Refused(c)
        /\ UNCHANGED <<account, token>>
     \/ /\ At(c, "forgive")
        /\ rate' = [rate EXCEPT ![mine] = [n |-> 0, expires |-> FALSE]]
        /\ Goes(c, "issue") \/ Goes(c, "rehash")
        /\ UNCHANGED <<account, token>>
     \/ /\ At(c, "rehash") /\ Goes(c, "issue")
        /\ account' = [account EXCEPT ![Name(c)].hash = conn[c].password]
        /\ UNCHANGED <<rate, token>>

\* A token no one has.  (When all that are modelled are out, it waits for one
\* to expire.)
issue_token(c) ==
  /\ At(c, "issue")
  /\ \E t \in Tokens :
       /\ token[t] = None
       /\ token' = [token EXCEPT ![t] = Name(c)]
       /\ conn' = [conn EXCEPT ![c].at = "created", ![c].token = t]
  /\ UNCHANGED <<account, rate>>

TokenExpires(t) ==
  /\ token[t] # None
  /\ token' = [token EXCEPT ![t] = None]
  /\ UNCHANGED <<account, rate, conn>>

resume(c, t) ==
  /\ At(c, "lobby")
  /\ conn' = IF token[t] = None THEN conn
             ELSE [conn EXCEPT ![c] = [Stranger("created") EXCEPT !.name = token[t], !.token = t]]
  /\ UNCHANGED <<account, rate, token>>

----------------------------------------------------------------------------
(* The character. *)

Enters(c) ==
  /\ At(c, "created")
  /\ Goes(c, IF account[Name(c)].created = None THEN "creating" ELSE "in")
  /\ UNCHANGED <<account, rate, token>>

\* Lua's create_character, and what the session makes of its answer.  (A
\* choice that isn't offered changes nothing.)
create_character(c, choice) ==
  /\ At(c, "creating")
  /\ IF account[Name(c)].created # None
     THEN Goes(c, "created_meanwhile") /\ UNCHANGED account
     ELSE /\ conn' = [conn EXCEPT ![c].at = "in", ![c].choice = choice]
          /\ account' = [account EXCEPT ![Name(c)].created = choice]
  /\ UNCHANGED <<rate, token>>

CreatedMeanwhile(c) ==
  /\ At(c, "created_meanwhile")
  /\ Goes(c, IF account[Name(c)].created # None THEN "in" ELSE "creating")
  /\ UNCHANGED <<account, rate, token>>

----------------------------------------------------------------------------
(* The end of a connection. *)

\* The player quits, and may log out: the token is revoked first.
_quit(c, revoke) ==
  /\ At(c, "in")
  /\ token' = IF revoke /\ conn[c].token # None THEN [token EXCEPT ![conn[c].token] = None] ELSE token
  /\ conn' = [conn EXCEPT ![c] = Stranger("gone")]
  /\ UNCHANGED <<account, rate>>

\* AUTH_TIMEOUT_SECONDS or CREATE_TIMEOUT_SECONDS is over, the client goes
\* away, or the server stops, wherever the connection is.
Cut(c) ==
  /\ conn[c].at # "gone"
  /\ conn' = [conn EXCEPT ![c] = Stranger("gone")]
  /\ UNCHANGED <<account, rate, token>>

Init ==
  /\ account = [n \in Names |-> NoAccount]
  /\ rate = [key \in Keys |-> [n |-> 0, expires |-> FALSE]]
  /\ token = [t \in Tokens |-> None]
  /\ conn = [c \in Connections |-> Stranger("gone")]

Asked(c) == \E kind \in {"register_count", "count_address"}, name \in Names, password \in Passwords :
              Asks(c, kind, name, password)
Chosen(c) == \E choice \in Choices : create_character(c, choice)

Next ==
  \/ \E key \in Keys : Expires(key)
  \/ \E t \in Tokens : TokenExpires(t)
  \/ \E c \in Connections :
       \/ Connect(c) \/ Asked(c) \/ register(c) \/ login(c) \/ issue_token(c) \/ Enters(c) \/ Chosen(c)
       \/ CreatedMeanwhile(c) \/ Cut(c)
       \/ \E t \in Tokens : resume(c, t)
       \/ \E revoke \in BOOLEAN : _quit(c, revoke)

Spec == Init /\ [][Next]_vars

\* Windows end: Redis expires what was set to.
FairSpec == Spec /\ \A key \in Keys : WF_vars(Expires(key))

----------------------------------------------------------------------------

TypeOK ==
  /\ account \in [Names -> [hash : Passwords \union {None}, named : BOOLEAN, created : Choices \union {None}]]
  /\ \A key \in Keys : rate[key].n \in Nat /\ rate[key].expires \in BOOLEAN
  /\ token \in [Tokens -> Names \union {None}]
  /\ \A c \in Connections : conn[c].at \in Steps

\* However many register one name at once, and wherever they are cut off, one
\* password is the account's, and whoever got in by a password got in by it
\* (Auth.register, Auth.login).
PastAuth == {"set_name", "forgive", "rehash", "issue", "created", "creating", "created_meanwhile", "in"}
OnePassword ==
  \A c \in Connections : conn[c].at \in PastAuth /\ conn[c].password # None =>
    account[Name(c)].hash = conn[c].password

\* A connection in the world has a character there, and one that made a
\* character has that one: tabs that are on the creation screen together end
\* up with one character (_create_character, create_character).
OneCharacter ==
  \A c \in Connections : At(c, "in") =>
    account[Name(c)].created \in (IF conn[c].choice = None THEN Choices ELSE {conn[c].choice})

\* Attempts that run together all read the count before any of them is
\* counted; even so it passes the limit by fewer than there are connections
\* (Auth._count, Auth._bump).
CountsBounded == \A key \in Keys : rate[key].n < Limit(key) + Cardinality(Connections)

\* Whoever is locked out by failed attempts, by whomever they are made and
\* wherever they are cut off, is let in again (Auth._bump).
LockoutsEnd == \A key \in Keys : Over(key) ~> ~Over(key)
=============================================================================
