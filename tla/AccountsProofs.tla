--------------------------- MODULE AccountsProofs ---------------------------
(***************************************************************************)
(* Proofs about Accounts, for any connections, names, passwords, choices,  *)
(* addresses, tokens and limits: its types, that a name has one password   *)
(* and one character whoever races for them, and how far a count can pass  *)
(* its limit.                                                              *)
(***************************************************************************)
EXTENDS Accounts, FiniteSetTheorems, TLAPS

-----------------------------------------------------------------------------
(* The inductive invariant. *)

\* What a connection holds.
Held == [at : Steps, name : Names \cup {None}, password : Passwords \cup {None},
         stored : Passwords \cup {None}, token : Tokens \cup {None}, choice : Choices \cup {None}]

Typed ==
  /\ account \in [Names -> [hash : Passwords \cup {None}, named : BOOLEAN, created : Choices \cup {None}]]
  /\ rate \in [Keys -> [n : Nat, expires : BOOLEAN]]
  /\ token \in [Tokens -> Names \cup {None}]
  /\ conn \in [Connections -> Held]

\* Only a connection that has not said who it is has no name; only one that is
\* in has made its choice.
Named == \A c \in Connections : /\ conn[c].at \notin {"gone", "lobby"} => conn[c].name \in Names
                                /\ conn[c].at # "in" => conn[c].choice = None

\* What is true of a connection's password and of its character once another
\* may act between its steps.
OnePasswordFor(c) ==
  /\ conn[c].at = "verify" /\ conn[c].stored # None => account[conn[c].name].hash = conn[c].stored
  /\ conn[c].at \in {"forgive", "rehash"} => conn[c].password # None
  /\ conn[c].at \in PastAuth /\ conn[c].password # None => account[conn[c].name].hash = conn[c].password
OneCharacterFor(c) ==
  conn[c].at = "in" => /\ conn[c].choice = None => account[conn[c].name].created \in Choices
                       /\ conn[c].choice # None => account[conn[c].name].created = conn[c].choice

\* Who has found a count below its limit, and has yet to add to it.
Pending(key) ==
  {c \in Connections :
     \/ key = Register(AddressOf[c]) /\ conn[c].at = "register_bump"
     \/ key = FromAddress(AddressOf[c]) /\ conn[c].at \in {"count_account", "hget", "verify", "bump_address"}
     \/ key = ForAccount(conn[c].name) /\ conn[c].at \in {"hget", "verify", "bump_address", "bump_account"}}
Bounded(key) == rate[key].n + Cardinality(Pending(key)) < Limit(key) + Cardinality(Connections)

IInv ==
  /\ Typed /\ Named
  /\ \A c \in Connections : OnePasswordFor(c) /\ OneCharacterFor(c)
  /\ \A key \in Keys : Bounded(key)

-----------------------------------------------------------------------------
(* Types. *)

LEMMA StrangerType == ASSUME NEW step \in Steps PROVE Stranger(step) \in Held
BY DEF Stranger, Held

LEMMA KeysAre ==
  ASSUME NEW c \in Connections
  PROVE  /\ Register(AddressOf[c]) \in Keys /\ FromAddress(AddressOf[c]) \in Keys
         /\ \A n \in Names : ForAccount(n) \in Keys
BY AccountsAssumption DEF AccountsAssumption, Keys

LEMMA LimitType == ASSUME NEW key \in Keys PROVE Limit(key) \in Nat \ {0}
BY AccountsAssumption DEF AccountsAssumption, Keys, Limit, Register, FromAddress, ForAccount

\* What a connection goes on holding when it moves from step to step.
LEMMA GoesType ==
  ASSUME Typed, Named, NEW c \in Connections, NEW step \in Steps, Goes(c, step)
  PROVE  /\ conn' \in [Connections -> Held]
         /\ conn'[c] = [conn[c] EXCEPT !.at = step] /\ conn'[c].at = step
         /\ conn'[c].name = conn[c].name /\ conn'[c].password = conn[c].password
         /\ conn'[c].stored = conn[c].stored /\ conn'[c].choice = conn[c].choice
         /\ \A d \in Connections \ {c} : conn'[d] = conn[d]
BY DEF Goes, Typed, Held

\* A connection that starts afresh has no name, no password and no choice.
LEMMA StrangerIs ==
  ASSUME Typed, NEW c \in Connections, NEW step \in Steps,
         conn' = [conn EXCEPT ![c] = Stranger(step)]
  PROVE  /\ conn' \in [Connections -> Held]
         /\ conn'[c].at = step /\ conn'[c].name = None /\ conn'[c].password = None
         /\ conn'[c].stored = None /\ conn'[c].choice = None
         /\ \A d \in Connections \ {c} : conn'[d] = conn[d]
BY StrangerType DEF Typed, Stranger

-----------------------------------------------------------------------------
(* A step of one connection. *)

\* Every other connection holds what it held.
OnlyMoves(c) ==
  /\ conn' \in [Connections -> Held]
  /\ \A d \in Connections \ {c} : conn'[d] = conn[d]

\* Accounts keep the password and the character they have.
AccountsKept ==
  /\ account' \in [Names -> [hash : Passwords \cup {None}, named : BOOLEAN, created : Choices \cup {None}]]
  /\ \A n \in Names : /\ account[n].hash # None => account'[n].hash = account[n].hash
                      /\ account[n].created # None => account'[n].created = account[n].created
                      /\ account[n].created \in Choices => account'[n].created \in Choices

LEMMA Carries ==
  ASSUME IInv, NEW c \in Connections, OnlyMoves(c), AccountsKept,
         rate' \in [Keys -> [n : Nat, expires : BOOLEAN]],
         token' \in [Tokens -> Names \cup {None}],
         conn'[c].at \notin {"gone", "lobby"} => conn'[c].name \in Names,
         conn'[c].at # "in" => conn'[c].choice = None,
         OnePasswordFor(c)', OneCharacterFor(c)', \A key \in Keys : Bounded(key)'
  PROVE  IInv'
<1>1. Typed'
  BY DEF Typed, OnlyMoves, AccountsKept
<1>2. Named'
  BY DEF IInv, Named, OnlyMoves
<1>3. ASSUME NEW d \in Connections PROVE OnePasswordFor(d)' /\ OneCharacterFor(d)'
  <2>1. CASE d = c
    BY <2>1
  <2>2. CASE d # c
    <3>1. conn'[d] = conn[d] /\ OnePasswordFor(d) /\ OneCharacterFor(d)
      BY <2>2 DEF OnlyMoves, IInv
    <3>2. conn[d].at \notin {"gone", "lobby"} => conn[d].name \in Names
      BY DEF IInv, Named
    <3>3. OnePasswordFor(d)'
      BY <3>1, <3>2 DEF OnePasswordFor, AccountsKept, PastAuth
    <3>4. OneCharacterFor(d)'
      BY <3>1, <3>2 DEF OneCharacterFor, AccountsKept
    <3> QED BY <3>3, <3>4
  <2> QED BY <2>1, <2>2
<1> QED BY <1>1, <1>2, <1>3 DEF IInv

-----------------------------------------------------------------------------
(* Counting. *)

LEMMA PendingFinite ==
  ASSUME NEW key
  PROVE  /\ Pending(key) \subseteq Connections /\ IsFiniteSet(Pending(key)) /\ IsFiniteSet(Pending(key)')
         /\ Cardinality(Connections) \in Nat
         /\ Cardinality(Pending(key)) \in 0..Cardinality(Connections)
         /\ Cardinality(Pending(key)') \in 0..Cardinality(Connections)
<1>1. Pending(key) \subseteq Connections /\ Pending(key)' \subseteq Connections
  BY DEF Pending
<1>2. IsFiniteSet(Connections)
  BY AccountsAssumption DEF AccountsAssumption
<1> QED BY <1>1, <1>2, FS_Subset, FS_CardinalityType

\* Who else is pending stays so.
LEMMA PendingOthers ==
  ASSUME NEW c \in Connections, OnlyMoves(c), NEW key
  PROVE  Pending(key)' \ {c} = Pending(key) \ {c}
BY DEF OnlyMoves, Pending

\* A count that does not grow stays bounded, if whoever comes to be pending
\* found it below its limit.
LEMMA BoundedCalm ==
  ASSUME IInv, NEW c \in Connections, OnlyMoves(c), NEW key \in Keys,
         rate'[key].n \in Nat, rate'[key].n <= rate[key].n,
         c \in Pending(key)' => c \in Pending(key) \/ rate'[key].n < Limit(key)
  PROVE  Bounded(key)'
<1>1. rate[key].n \in Nat /\ Bounded(key) /\ Limit(key) \in Nat /\ Limit(key)' = Limit(key)
  BY LimitType DEF IInv, Typed, Limit
<1>2. CASE rate'[key].n < Limit(key)
  BY <1>1, <1>2, PendingFinite DEF Bounded
<1>3. CASE ~(rate'[key].n < Limit(key))
  <2>1. Pending(key)' \subseteq Pending(key)
    BY <1>3, PendingOthers
  <2>2. Cardinality(Pending(key)') <= Cardinality(Pending(key))
    BY <2>1, PendingFinite, FS_Subset
  <2> QED BY <1>1, <2>2, PendingFinite DEF Bounded
<1> QED BY <1>2, <1>3

\* Nor does one grow past it when a pending connection adds to it.
LEMMA BoundedBump ==
  ASSUME IInv, NEW c \in Connections, OnlyMoves(c), NEW key \in Keys,
         rate'[key].n = rate[key].n + 1, c \in Pending(key), c \notin Pending(key)'
  PROVE  Bounded(key)'
<1>1. rate[key].n \in Nat /\ Bounded(key) /\ Limit(key) \in Nat /\ Limit(key)' = Limit(key)
  BY LimitType DEF IInv, Typed, Limit
<1>2. Pending(key)' = Pending(key) \ {c}
  BY PendingOthers
<1>3. Cardinality(Pending(key)') = Cardinality(Pending(key)) - 1
  BY <1>2, PendingFinite, FS_RemoveElement
<1> QED BY <1>1, <1>3, PendingFinite DEF Bounded

\* A step that counts nothing.
LEMMA BoundedSame ==
  ASSUME IInv, NEW c \in Connections, OnlyMoves(c), UNCHANGED rate,
         \A key \in Keys : c \in Pending(key)' => c \in Pending(key) \/ ~Over(key)
  PROVE  \A key \in Keys : Bounded(key)'
<1> TAKE key \in Keys
<1>1. rate[key].n \in Nat /\ rate'[key].n = rate[key].n /\ Limit(key) \in Nat
  BY LimitType DEF IInv, Typed
<1>2. c \in Pending(key)' => c \in Pending(key) \/ rate'[key].n < Limit(key)
  BY <1>1 DEF Over, _count
<1> QED BY <1>1, <1>2, BoundedCalm

\* A step that adds to one count.
LEMMA BoundedCounted ==
  ASSUME IInv, NEW c \in Connections, OnlyMoves(c), NEW mine \in Keys, _bump(mine),
         c \in Pending(mine), c \notin Pending(mine)',
         \A key \in Keys \ {mine} : c \in Pending(key)' => c \in Pending(key)
  PROVE  rate' \in [Keys -> [n : Nat, expires : BOOLEAN]] /\ \A key \in Keys : Bounded(key)'
<1>1. rate \in [Keys -> [n : Nat, expires : BOOLEAN]]
  BY DEF IInv, Typed
<1>2. /\ rate' \in [Keys -> [n : Nat, expires : BOOLEAN]]
      /\ rate'[mine].n = rate[mine].n + 1
      /\ \A key \in Keys \ {mine} : rate'[key] = rate[key]
  BY <1>1 DEF _bump
<1>3. Bounded(mine)'
  BY <1>2, BoundedBump
<1>4. ASSUME NEW key \in Keys \ {mine} PROVE Bounded(key)'
  <2>1. rate'[key].n \in Nat /\ rate'[key].n <= rate[key].n
    BY <1>1, <1>2
  <2> QED BY <2>1, BoundedCalm
<1> QED BY <1>2, <1>3, <1>4

\* A step that takes one count back to nothing.
LEMMA BoundedForgiven ==
  ASSUME IInv, NEW c \in Connections, OnlyMoves(c), NEW mine \in Keys,
         rate' = [rate EXCEPT ![mine] = [n |-> 0, expires |-> FALSE]],
         \A key \in Keys : c \in Pending(key)' => c \in Pending(key)
  PROVE  rate' \in [Keys -> [n : Nat, expires : BOOLEAN]] /\ \A key \in Keys : Bounded(key)'
<1>1. rate \in [Keys -> [n : Nat, expires : BOOLEAN]]
  BY DEF IInv, Typed
<1>2. /\ rate' \in [Keys -> [n : Nat, expires : BOOLEAN]]
      /\ \A key \in Keys : rate'[key].n <= rate[key].n /\ rate'[key].n \in Nat
  BY <1>1
<1> QED BY <1>2, BoundedCalm

-----------------------------------------------------------------------------
(* Steps that are alike. *)

\* A connection is refused, cut off or begins: it holds nothing.
LEMMA EmptyHanded ==
  ASSUME IInv, NEW c \in Connections, NEW step \in {"gone", "lobby"},
         conn' = [conn EXCEPT ![c] = Stranger(step)],
         UNCHANGED account, token' \in [Tokens -> Names \cup {None}]
  PROVE  /\ OnlyMoves(c) /\ \A key \in Keys : c \notin Pending(key)'
         /\ ( /\ rate' \in [Keys -> [n : Nat, expires : BOOLEAN]]
              /\ \A key \in Keys : Bounded(key)' ) => IInv'
         /\ UNCHANGED rate => IInv'
<1>1. step \in Steps /\ Typed
  BY DEF Steps, IInv
<1>2. OnlyMoves(c) /\ conn'[c].at = step /\ conn'[c].name = None /\ conn'[c].choice = None
  BY <1>1, StrangerIs DEF OnlyMoves
<1>3. \A key \in Keys : c \notin Pending(key)'
  BY <1>2 DEF Pending
<1>4. OnePasswordFor(c)' /\ OneCharacterFor(c)'
  BY <1>2 DEF OnePasswordFor, OneCharacterFor, PastAuth
<1>5. AccountsKept
  BY <1>1 DEF AccountsKept, Typed
<1>6. ASSUME rate' \in [Keys -> [n : Nat, expires : BOOLEAN]], \A key \in Keys : Bounded(key)'
      PROVE  IInv'
  BY <1>2, <1>4, <1>5, <1>6, Carries
<1>7. ASSUME UNCHANGED rate PROVE IInv'
  BY <1>1, <1>2, <1>3, <1>6, <1>7, BoundedSame DEF Typed
<1> QED BY <1>2, <1>3, <1>6, <1>7

LEMMA RefusedInv ==
  ASSUME IInv, NEW c \in Connections, Refused(c), UNCHANGED <<account, rate, token>>
  PROVE  IInv'
BY EmptyHanded DEF Refused, IInv, Typed

\* A connection goes on to a step that has no more to it than the last.
Passing == {"register_count", "register_bump", "exists", "hsetnx", "count_address", "count_account", "hget",
            "bump_address", "bump_account"}
LEMMA GoesInv ==
  ASSUME IInv, NEW c \in Connections, NEW step \in Passing, Goes(c, step), conn[c].at \in Passing \cup {"verify"},
         UNCHANGED <<account, token>>,
         rate' \in [Keys -> [n : Nat, expires : BOOLEAN]], \A key \in Keys : Bounded(key)'
  PROVE  IInv'
<1>1. Typed /\ Named /\ step \in Steps
  BY DEF Steps, Passing, IInv
<1>2. /\ OnlyMoves(c) /\ conn'[c].at = step
      /\ conn'[c].name = conn[c].name /\ conn'[c].choice = conn[c].choice
  BY <1>1, GoesType DEF OnlyMoves
<1>3. conn[c].name \in Names /\ conn[c].choice = None
  BY <1>1 DEF Named, Passing
<1>4. OnePasswordFor(c)' /\ OneCharacterFor(c)'
  BY <1>2 DEF OnePasswordFor, OneCharacterFor, PastAuth, Passing
<1>5. AccountsKept
  BY <1>1 DEF AccountsKept, Typed
<1> QED BY <1>1, <1>2, <1>3, <1>4, <1>5, Carries DEF Typed

-----------------------------------------------------------------------------
(* Registering. *)

LEMMA RegisterInv ==
  ASSUME IInv, NEW c \in Connections, register(c)
  PROVE  IInv'
<1> DEFINE key == Register(AddressOf[c])
<1>0. /\ Typed /\ Named /\ key \in Keys
      /\ account \in [Names -> [hash : Passwords \cup {None}, named : BOOLEAN, created : Choices \cup {None}]]
      /\ rate \in [Keys -> [n : Nat, expires : BOOLEAN]] /\ token \in [Tokens -> Names \cup {None}]
      /\ conn[c] \in Held
  BY KeysAre DEF IInv, Typed
<1> HIDE DEF key
<1>1. CASE At(c, "register_count") /\ (IF Over(key) THEN Refused(c) ELSE Goes(c, "register_bump"))
           /\ UNCHANGED <<account, rate, token>>
  <2>1. CASE Refused(c)
    BY <1>1, <2>1, RefusedInv
  <2>2. CASE ~Over(key) /\ Goes(c, "register_bump")
    <3>1. OnlyMoves(c) /\ conn'[c].at = "register_bump"
      BY <1>0, <2>2, GoesType DEF OnlyMoves, Steps
    <3>2. \A k \in Keys : c \in Pending(k)' => ~Over(k)
      BY <2>2, <3>1 DEF Pending, key
    <3>3. \A k \in Keys : Bounded(k)'
      BY <1>1, <3>1, <3>2, BoundedSame
    <3> QED BY <1>0, <1>1, <2>2, <3>3, GoesInv DEF At, Passing
  <2> QED BY <1>1, <2>1, <2>2
<1>2. CASE At(c, "register_bump") /\ _bump(key) /\ Goes(c, "exists") /\ UNCHANGED <<account, token>>
  <2>1. OnlyMoves(c) /\ conn'[c].at = "exists"
    BY <1>0, <1>2, GoesType DEF OnlyMoves, Steps
  <2>2. c \in Pending(key) /\ \A k \in Keys : c \notin Pending(k)'
    BY <1>2, <2>1 DEF Pending, At, key
  <2>3. rate' \in [Keys -> [n : Nat, expires : BOOLEAN]] /\ \A k \in Keys : Bounded(k)'
    BY <1>0, <1>2, <2>1, <2>2, BoundedCounted
  <2> QED BY <1>2, <2>3, GoesInv DEF At, Passing
<1>3. CASE At(c, "exists") /\ (IF account[Name(c)] # NoAccount THEN Refused(c) ELSE Goes(c, "hsetnx"))
           /\ UNCHANGED <<account, rate, token>>
  <2>1. CASE Refused(c)
    BY <1>3, <2>1, RefusedInv
  <2>2. CASE Goes(c, "hsetnx")
    <3>1. OnlyMoves(c) /\ conn'[c].at = "hsetnx"
      BY <1>0, <2>2, GoesType DEF OnlyMoves, Steps
    <3>2. \A k \in Keys : c \notin Pending(k)'
      BY <3>1 DEF Pending
    <3>3. \A k \in Keys : Bounded(k)'
      BY <1>3, <3>1, <3>2, BoundedSame
    <3> QED BY <1>0, <1>3, <2>2, <3>3, GoesInv DEF At, Passing
  <2> QED BY <1>3, <2>1, <2>2
<1>4. CASE At(c, "hsetnx") /\ account[Name(c)].hash # None /\ Refused(c) /\ UNCHANGED <<account, rate, token>>
  BY <1>4, RefusedInv
<1>5. CASE At(c, "hsetnx") /\ account[Name(c)].hash = None /\ Goes(c, "set_name")
           /\ account' = [account EXCEPT ![Name(c)].hash = conn[c].password] /\ UNCHANGED <<rate, token>>
  <2>1. /\ OnlyMoves(c) /\ conn'[c].at = "set_name" /\ conn'[c].name = conn[c].name
        /\ conn'[c].password = conn[c].password /\ conn'[c].choice = conn[c].choice
    BY <1>0, <1>5, GoesType DEF OnlyMoves, Steps
  <2>2. conn[c].name \in Names /\ conn[c].choice = None
    BY <1>0, <1>5 DEF Named, At
  <2>3. AccountsKept /\ account'[conn[c].name].hash = conn[c].password
    BY <1>0, <1>5, <2>2 DEF AccountsKept, Held, Name
  <2>4. OnePasswordFor(c)' /\ OneCharacterFor(c)'
    BY <2>1, <2>3 DEF OnePasswordFor, OneCharacterFor
  <2>5. \A k \in Keys : Bounded(k)'
    BY <1>5, <2>1, BoundedSame DEF Pending
  <2> QED BY <1>0, <1>5, <2>1, <2>2, <2>3, <2>4, <2>5, Carries
<1>6. CASE At(c, "set_name") /\ Goes(c, "issue") /\ account' = [account EXCEPT ![Name(c)].named = TRUE]
           /\ UNCHANGED <<rate, token>>
  <2>1. /\ OnlyMoves(c) /\ conn'[c].at = "issue" /\ conn'[c].name = conn[c].name
        /\ conn'[c].password = conn[c].password /\ conn'[c].choice = conn[c].choice
    BY <1>0, <1>6, GoesType DEF OnlyMoves, Steps
  <2>2. conn[c].name \in Names /\ conn[c].choice = None
    BY <1>0, <1>6 DEF Named, At
  <2>3. AccountsKept /\ account'[conn[c].name].hash = account[conn[c].name].hash
    BY <1>0, <1>6, <2>2, ZenonT(60) DEF AccountsKept, Name
  <2>4. OnePasswordFor(c)
    BY DEF IInv
  <2>5. OnePasswordFor(c)' /\ OneCharacterFor(c)'
    BY <1>6, <2>1, <2>3, <2>4 DEF OnePasswordFor, OneCharacterFor, At, PastAuth
  <2>6. \A k \in Keys : Bounded(k)'
    BY <1>6, <2>1, BoundedSame DEF Pending
  <2> QED BY <1>0, <1>6, <2>1, <2>2, <2>3, <2>5, <2>6, Carries
<1> QED BY <1>1, <1>2, <1>3, <1>4, <1>5, <1>6 DEF register, key

-----------------------------------------------------------------------------
(* Logging in. *)

LEMMA LoginInv ==
  ASSUME IInv, NEW c \in Connections, login(c)
  PROVE  IInv'
<1> DEFINE address == FromAddress(AddressOf[c])
           mine == ForAccount(Name(c))
<1>0. /\ Typed /\ Named /\ address \in Keys /\ OnePasswordFor(c)
      /\ conn[c].at \notin {"gone", "lobby"} => mine \in Keys /\ conn[c].name \in Names
      /\ conn[c].at # "in" => conn[c].choice = None
      /\ account \in [Names -> [hash : Passwords \cup {None}, named : BOOLEAN, created : Choices \cup {None}]]
      /\ rate \in [Keys -> [n : Nat, expires : BOOLEAN]] /\ token \in [Tokens -> Names \cup {None}]
      /\ conn \in [Connections -> Held] /\ conn[c] \in Held
  BY KeysAre DEF IInv, Typed, Named, Name
<1> HIDE DEF address, mine
<1>1. CASE At(c, "count_address") /\ (IF Over(address) THEN Refused(c) ELSE Goes(c, "count_account"))
           /\ UNCHANGED <<account, rate, token>>
  <2>1. CASE Refused(c)
    BY <1>1, <2>1, RefusedInv
  <2>2. CASE ~Over(address) /\ Goes(c, "count_account")
    <3>1. OnlyMoves(c) /\ conn'[c].at = "count_account"
      BY <1>0, <2>2, GoesType DEF OnlyMoves, Steps
    <3>2. \A k \in Keys : c \in Pending(k)' => ~Over(k)
      BY <2>2, <3>1 DEF Pending, address
    <3>3. \A k \in Keys : Bounded(k)'
      BY <1>1, <3>1, <3>2, BoundedSame
    <3> QED BY <1>0, <1>1, <2>2, <3>3, GoesInv DEF At, Passing
  <2> QED BY <1>1, <2>1, <2>2
<1>2. CASE At(c, "count_account") /\ (IF Over(mine) THEN Refused(c) ELSE Goes(c, "hget"))
           /\ UNCHANGED <<account, rate, token>>
  <2>1. CASE Refused(c)
    BY <1>2, <2>1, RefusedInv
  <2>2. CASE ~Over(mine) /\ Goes(c, "hget")
    <3>1. OnlyMoves(c) /\ conn'[c].at = "hget" /\ conn'[c].name = conn[c].name
      BY <1>0, <2>2, GoesType DEF OnlyMoves, Steps
    <3>2. \A k \in Keys : c \in Pending(k)' => c \in Pending(k) \/ ~Over(k)
      BY <1>2, <2>2, <3>1 DEF Pending, mine, At, Name
    <3>3. \A k \in Keys : Bounded(k)'
      BY <1>2, <3>1, <3>2, BoundedSame
    <3> QED BY <1>0, <1>2, <2>2, <3>3, GoesInv DEF At, Passing
  <2> QED BY <1>2, <2>1, <2>2
<1>3. CASE At(c, "hget") /\ conn' = [conn EXCEPT ![c].at = "verify", ![c].stored = account[Name(c)].hash]
           /\ UNCHANGED <<account, rate, token>>
  <2>1. conn[c].name \in Names /\ account[conn[c].name].hash \in Passwords \cup {None}
    BY <1>0, <1>3 DEF At
  <2>2. /\ OnlyMoves(c) /\ conn'[c].at = "verify" /\ conn'[c].name = conn[c].name
        /\ conn'[c].choice = conn[c].choice /\ conn'[c].stored = account[conn[c].name].hash
    BY <1>0, <1>3, <2>1 DEF OnlyMoves, Held, Steps, Name
  <2>3. OnePasswordFor(c)' /\ OneCharacterFor(c)'
    BY <1>3, <2>2 DEF OnePasswordFor, OneCharacterFor, PastAuth
  <2>4. \A k \in Keys : Bounded(k)'
    BY <1>3, <2>2, BoundedSame DEF Pending, At
  <2>5. AccountsKept
    BY <1>0, <1>3 DEF AccountsKept
  <2> QED BY <1>0, <1>3, <2>1, <2>2, <2>3, <2>4, <2>5, Carries DEF At
<1>4. CASE At(c, "verify") /\ Goes(c, IF _verify(c) THEN "forgive" ELSE "bump_address")
           /\ UNCHANGED <<account, rate, token>>
  <2>1. CASE _verify(c)
    <3>1. /\ OnlyMoves(c) /\ conn'[c].at = "forgive" /\ conn'[c].name = conn[c].name
          /\ conn'[c].password = conn[c].password /\ conn'[c].choice = conn[c].choice
      BY <1>0, <1>4, <2>1, GoesType DEF OnlyMoves, Steps
    <3>2. OnePasswordFor(c)' /\ OneCharacterFor(c)'
      BY <1>0, <1>4, <2>1, <3>1 DEF OnePasswordFor, OneCharacterFor, PastAuth, _verify, At
    <3>3. \A k \in Keys : Bounded(k)'
      BY <1>4, <3>1, BoundedSame DEF Pending, At
    <3>4. AccountsKept
      BY <1>0, <1>4 DEF AccountsKept
    <3> QED BY <1>0, <1>4, <3>1, <3>2, <3>3, <3>4, Carries DEF At
  <2>2. CASE ~_verify(c)
    <3>1. OnlyMoves(c) /\ conn'[c].at = "bump_address" /\ conn'[c].name = conn[c].name /\ Goes(c, "bump_address")
      BY <1>0, <1>4, <2>2, GoesType DEF OnlyMoves, Steps
    <3>2. \A k \in Keys : Bounded(k)'
      BY <1>4, <3>1, BoundedSame DEF Pending, At
    <3> QED BY <1>0, <1>4, <3>1, <3>2, GoesInv DEF At, Passing
  <2> QED BY <2>1, <2>2
<1>5. CASE At(c, "bump_address") /\ _bump(address) /\ Goes(c, "bump_account") /\ UNCHANGED <<account, token>>
  <2>1. OnlyMoves(c) /\ conn'[c].at = "bump_account" /\ conn'[c].name = conn[c].name
    BY <1>0, <1>5, GoesType DEF OnlyMoves, Steps
  <2>2. /\ c \in Pending(address) /\ c \notin Pending(address)'
        /\ \A k \in Keys : c \in Pending(k)' => c \in Pending(k)
    BY <1>5, <2>1 DEF Pending, At, address, FromAddress, ForAccount
  <2>3. rate' \in [Keys -> [n : Nat, expires : BOOLEAN]] /\ \A k \in Keys : Bounded(k)'
    BY <1>0, <1>5, <2>1, <2>2, BoundedCounted
  <2> QED BY <1>5, <2>3, GoesInv DEF At, Passing
<1>6. CASE At(c, "bump_account") /\ _bump(mine) /\ Refused(c) /\ UNCHANGED <<account, token>>
  <2>1. OnlyMoves(c) /\ \A k \in Keys : c \notin Pending(k)'
    BY <1>0, <1>6, EmptyHanded DEF Refused
  <2>2. c \in Pending(mine) /\ mine \in Keys
    BY <1>0, <1>6 DEF Pending, At, mine, Name
  <2>3. rate' \in [Keys -> [n : Nat, expires : BOOLEAN]] /\ \A k \in Keys : Bounded(k)'
    BY <1>0, <1>6, <2>1, <2>2, BoundedCounted
  <2> QED BY <1>0, <1>6, <2>3, EmptyHanded DEF Refused
<1>7. CASE At(c, "forgive") /\ rate' = [rate EXCEPT ![mine] = [n |-> 0, expires |-> FALSE]]
           /\ (Goes(c, "issue") \/ Goes(c, "rehash")) /\ UNCHANGED <<account, token>>
  <2>1. /\ OnlyMoves(c) /\ conn'[c].at \in {"issue", "rehash"} /\ conn'[c].name = conn[c].name
        /\ conn'[c].password = conn[c].password /\ conn'[c].choice = conn[c].choice
    BY <1>0, <1>7, GoesType DEF OnlyMoves, Steps
  <2>2. OnePasswordFor(c)' /\ OneCharacterFor(c)'
    BY <1>0, <1>7, <2>1 DEF OnePasswordFor, OneCharacterFor, PastAuth, At
  <2>3. mine \in Keys /\ \A k \in Keys : c \notin Pending(k)'
    BY <1>0, <1>7, <2>1 DEF Pending, At
  <2>4. rate' \in [Keys -> [n : Nat, expires : BOOLEAN]] /\ \A k \in Keys : Bounded(k)'
    BY <1>7, <2>1, <2>3, BoundedForgiven
  <2>5. AccountsKept
    BY <1>0, <1>7 DEF AccountsKept
  <2> QED BY <1>0, <1>7, <2>1, <2>2, <2>4, <2>5, Carries DEF At
<1>8. CASE At(c, "rehash") /\ Goes(c, "issue") /\ account' = [account EXCEPT ![Name(c)].hash = conn[c].password]
           /\ UNCHANGED <<rate, token>>
  <2>1. /\ OnlyMoves(c) /\ conn'[c].at = "issue" /\ conn'[c].name = conn[c].name
        /\ conn'[c].password = conn[c].password /\ conn'[c].choice = conn[c].choice
    BY <1>0, <1>8, GoesType DEF OnlyMoves, Steps
  <2>2. conn[c].name \in Names /\ account[conn[c].name].hash = conn[c].password
    BY <1>0, <1>8 DEF OnePasswordFor, PastAuth, At
  <2>3. account' = account
    BY <1>0, <1>8, <2>2 DEF Name
  <2>4. OnePasswordFor(c)' /\ OneCharacterFor(c)'
    BY <2>1, <2>2, <2>3 DEF OnePasswordFor, OneCharacterFor
  <2>5. \A k \in Keys : Bounded(k)'
    BY <1>8, <2>1, BoundedSame DEF Pending
  <2>6. AccountsKept
    BY <1>0, <2>3 DEF AccountsKept
  <2> QED BY <1>0, <1>8, <2>1, <2>2, <2>4, <2>5, <2>6, Carries DEF At
<1> QED BY <1>1, <1>2, <1>3, <1>4, <1>5, <1>6, <1>7, <1>8 DEF login, address, mine

-----------------------------------------------------------------------------
(* The other steps. *)

LEMMA ExpiresInv ==
  ASSUME IInv, NEW key \in Keys, Expires(key)
  PROVE  IInv'
<1>1. /\ rate' \in [Keys -> [n : Nat, expires : BOOLEAN]]
      /\ \A k \in Keys : rate[k].n \in Nat /\ rate'[k].n \in Nat /\ rate'[k].n <= rate[k].n
  BY DEF IInv, Typed, Expires
<1>2. Typed' /\ Named'
  BY <1>1 DEF IInv, Typed, Named, Expires
<1>3. \A c \in Connections : OnePasswordFor(c)' /\ OneCharacterFor(c)'
  BY DEF IInv, Expires, OnePasswordFor, OneCharacterFor
<1>4. ASSUME NEW k \in Keys PROVE Bounded(k)'
  <2>1. Pending(k)' = Pending(k) /\ Limit(k)' = Limit(k)
    BY DEF Expires, Pending, Limit
  <2>2. Bounded(k) /\ Limit(k) \in Nat
    BY LimitType DEF IInv
  <2> HIDE DEF Pending, Limit
  <2> QED BY <1>1, <2>1, <2>2, PendingFinite DEF Bounded
<1> QED BY <1>2, <1>3, <1>4 DEF IInv

LEMMA TokenExpiresInv ==
  ASSUME IInv, NEW t \in Tokens, TokenExpires(t)
  PROVE  IInv'
<1>1. Typed' /\ Named'
  BY DEF IInv, Typed, Named, TokenExpires
<1>2. \A c \in Connections : OnePasswordFor(c)' /\ OneCharacterFor(c)'
  BY DEF IInv, TokenExpires, OnePasswordFor, OneCharacterFor
<1>3. \A k \in Keys : Bounded(k)'
  BY DEF IInv, TokenExpires, Bounded, Pending, Limit
<1> QED BY <1>1, <1>2, <1>3 DEF IInv

LEMMA AskedInv ==
  ASSUME IInv, NEW c \in Connections, Asked(c)
  PROVE  IInv'
<1>1. PICK kind \in {"register_count", "count_address"}, name \in Names, password \in Passwords :
        Asks(c, kind, name, password)
  BY DEF Asked
<1> DEFINE fresh == [Stranger(kind) EXCEPT !.name = name, !.password = password]
<1>2. /\ fresh \in Held /\ fresh.at = kind /\ fresh.name = name /\ fresh.choice = None
  BY DEF Stranger, Held, Steps
<1> HIDE DEF fresh
<1>3. /\ OnlyMoves(c) /\ conn'[c] = fresh /\ UNCHANGED <<account, rate, token>>
  BY <1>1, <1>2 DEF Asks, IInv, Typed, OnlyMoves, fresh
<1>4. OnePasswordFor(c)' /\ OneCharacterFor(c)'
  BY <1>2, <1>3 DEF OnePasswordFor, OneCharacterFor, PastAuth
<1>5. \A k \in Keys : Bounded(k)'
  BY <1>2, <1>3, BoundedSame DEF Pending
<1>6. AccountsKept
  BY <1>3 DEF AccountsKept, IInv, Typed
<1> QED BY <1>2, <1>3, <1>4, <1>5, <1>6, Carries DEF IInv, Typed

LEMMA ResumeInv ==
  ASSUME IInv, NEW c \in Connections, NEW t \in Tokens, resume(c, t)
  PROVE  IInv'
<1> DEFINE fresh == [Stranger("created") EXCEPT !.name = token[t], !.token = t]
<1>1. CASE token[t] # None
  <2>1. token[t] \in Names
    BY <1>1 DEF IInv, Typed
  <2>2. /\ fresh \in Held /\ fresh.at = "created" /\ fresh.name = token[t]
        /\ fresh.password = None /\ fresh.choice = None
    BY <2>1 DEF Stranger, Held, Steps
  <2> HIDE DEF fresh
  <2>3. OnlyMoves(c) /\ conn'[c] = fresh /\ UNCHANGED <<account, rate, token>>
    BY <1>1, <2>2 DEF resume, IInv, Typed, OnlyMoves, fresh
  <2>4. OnePasswordFor(c)' /\ OneCharacterFor(c)'
    BY <2>2, <2>3 DEF OnePasswordFor, OneCharacterFor
  <2>5. \A k \in Keys : Bounded(k)'
    BY <2>2, <2>3, BoundedSame DEF Pending
  <2>6. AccountsKept
    BY <2>3 DEF AccountsKept, IInv, Typed
  <2> QED BY <2>1, <2>2, <2>3, <2>4, <2>5, <2>6, Carries DEF IInv, Typed
<1>2. CASE token[t] = None
  <2>1. UNCHANGED vars
    BY <1>2 DEF resume, vars
  <2> QED BY <2>1 DEF IInv, Typed, Named, OnePasswordFor, OneCharacterFor, Bounded, Pending, Limit, vars
<1> QED BY <1>1, <1>2

\* A connection that has proved who it is goes on with the same name.
Known == {"issue", "created", "creating", "created_meanwhile"}
LEMMA KnownInv ==
  ASSUME IInv, NEW c \in Connections, OnlyMoves(c), conn[c].at \in Known,
         conn'[c].at \in Known \cup {"in"}, conn'[c].name = conn[c].name, conn'[c].password = conn[c].password,
         conn'[c].at # "in" => conn'[c].choice = None,
         AccountsKept, OneCharacterFor(c)', UNCHANGED rate, token' \in [Tokens -> Names \cup {None}]
  PROVE  IInv'
<1>1. conn[c].name \in Names /\ OnePasswordFor(c)
  BY DEF IInv, Named, Known
<1>2. OnePasswordFor(c)'
  BY <1>1 DEF OnePasswordFor, Known, PastAuth, AccountsKept
<1>3. \A k \in Keys : Bounded(k)'
  BY BoundedSame DEF Pending, Known
<1> QED BY <1>1, <1>2, <1>3, Carries DEF IInv, Typed

LEMMA IssueInv ==
  ASSUME IInv, NEW c \in Connections, issue_token(c)
  PROVE  IInv'
<1>1. PICK t \in Tokens : /\ token' = [token EXCEPT ![t] = Name(c)]
                          /\ conn' = [conn EXCEPT ![c].at = "created", ![c].token = t]
  BY DEF issue_token
<1>2. /\ conn[c].at = "issue" /\ conn[c].name \in Names /\ conn[c].choice = None
      /\ conn \in [Connections -> Held] /\ conn[c] \in Held /\ AccountsKept /\ UNCHANGED <<account, rate>>
  BY DEF issue_token, At, IInv, Named, Typed, AccountsKept
<1>3. /\ OnlyMoves(c) /\ conn'[c].at = "created" /\ conn'[c].name = conn[c].name
      /\ conn'[c].password = conn[c].password /\ conn'[c].choice = conn[c].choice
  BY <1>1, <1>2, ZenonT(60) DEF OnlyMoves, Held, Steps
<1>4. token' \in [Tokens -> Names \cup {None}]
  BY <1>1, <1>2 DEF IInv, Typed, Name
<1> QED BY <1>2, <1>3, <1>4, KnownInv DEF Known, OneCharacterFor

LEMMA EntersInv ==
  ASSUME IInv, NEW c \in Connections,
         Enters(c) \/ CreatedMeanwhile(c)
  PROVE  IInv'
<1>1. PICK step \in {"creating", "in"} : /\ Goes(c, step) /\ UNCHANGED <<account, rate, token>>
                                         /\ step = "in" => account[conn[c].name].created # None
  BY DEF Enters, CreatedMeanwhile, Name
<1>2. conn[c].at \in Known /\ Typed /\ Named /\ AccountsKept /\ token' \in [Tokens -> Names \cup {None}]
  BY <1>1 DEF Enters, CreatedMeanwhile, At, Known, IInv, Typed, AccountsKept
<1>3. conn[c].name \in Names /\ conn[c].choice = None
  BY <1>2 DEF Named, Known
<1>4. /\ OnlyMoves(c) /\ conn'[c].at = step /\ conn'[c].name = conn[c].name
      /\ conn'[c].password = conn[c].password /\ conn'[c].choice = conn[c].choice
  BY <1>1, <1>2, GoesType DEF OnlyMoves, Steps
<1>5. OneCharacterFor(c)'
  BY <1>1, <1>2, <1>3, <1>4 DEF OneCharacterFor, Typed
<1> QED BY <1>1, <1>2, <1>3, <1>4, <1>5, KnownInv DEF Known

LEMMA ChosenInv ==
  ASSUME IInv, NEW c \in Connections, Chosen(c)
  PROVE  IInv'
<1>1. PICK choice \in Choices : create_character(c, choice)
  BY DEF Chosen
<1>2. /\ conn[c].at = "creating" /\ Typed /\ Named /\ conn[c].name \in Names /\ conn[c].choice = None
      /\ account \in [Names -> [hash : Passwords \cup {None}, named : BOOLEAN, created : Choices \cup {None}]]
      /\ conn \in [Connections -> Held] /\ conn[c] \in Held
      /\ UNCHANGED rate /\ token' \in [Tokens -> Names \cup {None}]
  BY <1>1 DEF create_character, At, IInv, Named, Typed
<1>3. CASE account[Name(c)].created # None
  <2>1. Goes(c, "created_meanwhile") /\ UNCHANGED account
    BY <1>1, <1>3 DEF create_character
  <2>2. /\ OnlyMoves(c) /\ conn'[c].at = "created_meanwhile" /\ conn'[c].name = conn[c].name
        /\ conn'[c].password = conn[c].password /\ conn'[c].choice = conn[c].choice
    BY <1>2, <2>1, GoesType DEF OnlyMoves, Steps
  <2>3. AccountsKept
    BY <1>2, <2>1 DEF AccountsKept
  <2> QED BY <1>2, <2>2, <2>3, KnownInv DEF Known, OneCharacterFor
<1>4. CASE account[Name(c)].created = None
  <2>1. /\ conn' = [conn EXCEPT ![c].at = "in", ![c].choice = choice]
        /\ account' = [account EXCEPT ![Name(c)].created = choice]
    BY <1>1, <1>4 DEF create_character
  <2>2. /\ OnlyMoves(c) /\ conn'[c].at = "in" /\ conn'[c].name = conn[c].name
        /\ conn'[c].password = conn[c].password /\ conn'[c].choice = choice
    BY <1>2, <2>1, ZenonT(60) DEF OnlyMoves, Held, Steps
  <2>3. AccountsKept /\ account'[conn[c].name].created = choice
    BY <1>2, <1>4, <2>1 DEF AccountsKept, Name
  <2> QED BY <1>2, <2>2, <2>3, KnownInv DEF Known, OneCharacterFor
<1> QED BY <1>3, <1>4

LEMMA GoneInv ==
  ASSUME IInv, NEW c \in Connections,
         Connect(c) \/ Cut(c) \/ \E revoke \in BOOLEAN : _quit(c, revoke)
  PROVE  IInv'
<1>1. PICK step \in {"gone", "lobby"} : conn' = [conn EXCEPT ![c] = Stranger(step)]
  BY DEF Connect, Cut, _quit
<1>2. UNCHANGED <<account, rate>>
  BY DEF Connect, Cut, _quit
<1>3. token' \in [Tokens -> Names \cup {None}]
  BY DEF IInv, Typed, Connect, Cut, _quit
<1> QED BY <1>1, <1>2, <1>3, EmptyHanded

-----------------------------------------------------------------------------
(* Theorems. *)

LEMMA InitInv == Init => IInv
<1> SUFFICES ASSUME Init PROVE IInv
  OBVIOUS
<1>1. Typed
  BY StrangerType DEF Init, Typed, NoAccount, Steps
<1>2. \A c \in Connections : conn[c].at = "gone" /\ conn[c].choice = None
  BY DEF Init, Stranger
<1>3. Named /\ \A c \in Connections : OnePasswordFor(c) /\ OneCharacterFor(c)
  BY <1>2 DEF Named, OnePasswordFor, OneCharacterFor, PastAuth
<1>4. ASSUME NEW key \in Keys PROVE Bounded(key)
  <2>1. Pending(key) = {} /\ rate[key].n = 0
    BY <1>2 DEF Pending, Init
  <2>2. Cardinality(Pending(key)) = 0
    BY <2>1, FS_EmptySet
  <2> QED BY <2>1, <2>2, LimitType, PendingFinite DEF Bounded
<1> QED BY <1>1, <1>3, <1>4 DEF IInv

LEMMA StepInv == IInv /\ [Next]_vars => IInv'
<1> SUFFICES ASSUME IInv, [Next]_vars PROVE IInv'
  OBVIOUS
<1>1. CASE UNCHANGED vars
  BY <1>1 DEF IInv, Typed, Named, OnePasswordFor, OneCharacterFor, Bounded, Pending, Limit, vars
<1>2. ASSUME NEW key \in Keys, Expires(key) PROVE IInv'
  BY <1>2, ExpiresInv
<1>3. ASSUME NEW t \in Tokens, TokenExpires(t) PROVE IInv'
  BY <1>3, TokenExpiresInv
<1>4. ASSUME NEW c \in Connections,
             Connect(c) \/ Cut(c) \/ \E revoke \in BOOLEAN : _quit(c, revoke) PROVE IInv'
  BY <1>4, GoneInv
<1>5. ASSUME NEW c \in Connections,
             Asked(c) \/ register(c) \/ login(c) \/ issue_token(c) \/ Enters(c) \/ Chosen(c) \/ CreatedMeanwhile(c)
      PROVE  IInv'
  BY <1>5, AskedInv, RegisterInv, LoginInv, IssueInv, EntersInv, ChosenInv
<1>6. ASSUME NEW c \in Connections, NEW t \in Tokens, resume(c, t) PROVE IInv'
  BY <1>6, ResumeInv
<1> QED BY <1>1, <1>2, <1>3, <1>4, <1>5, <1>6 DEF Next

LEMMA AlwaysInv == Spec => []IInv
BY InitInv, StepInv, PTL DEF Spec

\* The types of Accounts (auth.py, session.py).
THEOREM TypeCorrect == Spec => []TypeOK
<1>1. IInv => TypeOK
  BY DEF IInv, Typed, TypeOK, Held
<1> QED BY <1>1, AlwaysInv, PTL

\* However many connections register, log in, rehash and are cut off at once,
\* a name keeps the password it was registered with, and whoever got in by a
\* password got in by that one (Auth.register, Auth.login).
THEOREM OnePasswordHolds == Spec => []OnePassword
<1>1. IInv => OnePassword
  BY DEF IInv, OnePasswordFor, OnePassword, Name
<1> QED BY <1>1, AlwaysInv, PTL

\* However many tabs are on the creation screen at once, they end up with one
\* character (_create_character, create_character).
THEOREM OneCharacterHolds == Spec => []OneCharacter
<1>1. IInv => OneCharacter
  BY DEF IInv, OneCharacterFor, OneCharacter, Name, At
<1> QED BY <1>1, AlwaysInv, PTL

\* Attempts that all read a count before any of them is counted take it past
\* its limit by fewer than there are connections (Auth._count, Auth._bump).
THEOREM CountsBoundedHolds == Spec => []CountsBounded
<1>1. IInv => CountsBounded
  <2> SUFFICES ASSUME IInv, NEW key \in Keys
               PROVE  rate[key].n < Limit(key) + Cardinality(Connections)
    BY DEF CountsBounded
  <2>1. Bounded(key) /\ rate[key].n \in Nat
    BY DEF IInv, Typed
  <2> QED BY <2>1, PendingFinite, LimitType DEF Bounded
<1> QED BY <1>1, AlwaysInv, PTL

\* A count over its limit is always set to expire, wherever whoever added to
\* it was cut off: adding and setting the window are one call (Auth._bump).
THEOREM LockoutsCanEnd == Spec => [](\A key \in Keys : Over(key) => rate[key].expires)
<1> DEFINE Windowed == \A key \in Keys : rate[key].n # 0 => rate[key].expires
<1>1. Init => Windowed
  BY DEF Init
<1>2. IInv /\ Windowed /\ [Next]_vars => Windowed'
  <2> SUFFICES ASSUME IInv, Windowed, [Next]_vars, NEW key \in Keys
               PROVE  rate'[key].n # 0 => rate'[key].expires
    OBVIOUS
  <2>1. rate[key].n # 0 => rate[key].expires
    OBVIOUS
  <2>2. rate \in [Keys -> [n : Nat, expires : BOOLEAN]]
    BY DEF IInv, Typed
  <2>3. CASE UNCHANGED rate
    BY <2>1, <2>3
  <2>4. ASSUME NEW k \in Keys, _bump(k) PROVE rate'[key].n # 0 => rate'[key].expires
    BY <2>1, <2>2, <2>4 DEF _bump
  <2>5. ASSUME NEW k \in Keys, rate' = [rate EXCEPT ![k] = [n |-> 0, expires |-> FALSE]]
        PROVE  rate'[key].n # 0 => rate'[key].expires
    BY <2>1, <2>2, <2>5
  <2>6. ASSUME NEW c \in Connections, register(c) PROVE UNCHANGED rate \/ \E k \in Keys : _bump(k)
    BY <2>6, KeysAre DEF register
  <2>7. ASSUME NEW c \in Connections, login(c)
        PROVE  UNCHANGED rate \/ (\E k \in Keys : _bump(k))
               \/ \E k \in Keys : rate' = [rate EXCEPT ![k] = [n |-> 0, expires |-> FALSE]]
    <3>1. At(c, "bump_account") \/ At(c, "forgive") => ForAccount(Name(c)) \in Keys
      BY KeysAre DEF IInv, Named, At, Name
    <3>2. FromAddress(AddressOf[c]) \in Keys
      BY KeysAre
    <3> QED BY <2>7, <3>1, <3>2 DEF login
  <2>8. ASSUME NEW c \in Connections,
               Connect(c) \/ Asked(c) \/ issue_token(c) \/ Enters(c) \/ Chosen(c) \/ CreatedMeanwhile(c) \/ Cut(c)
               \/ (\E t \in Tokens : resume(c, t)) \/ \E revoke \in BOOLEAN : _quit(c, revoke)
        PROVE  UNCHANGED rate
    BY <2>8 DEF Connect, Asked, Asks, issue_token, Enters, Chosen, create_character, CreatedMeanwhile, Cut,
                resume, _quit
  <2> QED BY <2>3, <2>4, <2>5, <2>6, <2>7, <2>8 DEF Next, Expires, TokenExpires, vars
<1>3. IInv /\ Windowed => \A key \in Keys : Over(key) => rate[key].expires
  BY LimitType DEF Over, _count
<1> HIDE DEF Windowed
<1>4. Spec => []Windowed
  BY <1>1, <1>2, AlwaysInv, PTL DEF Spec
<1> QED BY <1>3, <1>4, AlwaysInv, PTL

=============================================================================
