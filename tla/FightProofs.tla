---------------------------- MODULE FightProofs ----------------------------
(***************************************************************************)
(* Proofs about fights, in two parts.                                      *)
(*                                                                         *)
(* About Balance, for any gear, timers, passives, inputs and trajectories: *)
(* its types, that cooldowns and immunities are kept, that volleys land    *)
(* when they are due, and that a copy follows its dot.  What a step makes  *)
(* of a dot is folded over its acts, its volleys and its blows, and the    *)
(* first lemmas say what a fold comes to, one step at a time.              *)
(*                                                                         *)
(* About Owner, for any players, foes, openings and bounds: its types, who *)
(* is a member, that an attack's blows keep their distance, that no act is *)
(* taken twice, that a step once left is fixed, and that a boss that reels *)
(* waits.  A step of a fight maps over its members and folds over what it  *)
(* drains, so the lemmas come in the order the step calls its parts.       *)
(***************************************************************************)
EXTENDS Balance, Owner, SequenceTheorems, FiniteSetTheorems, WellFoundedInduction, TLAPS

-----------------------------------------------------------------------------
(* Induction, and folds. *)

\* Numbers have a least one: what holds of 0 and of the next holds of all.
LEMMA NatSet ==
  ASSUME NEW S \in SUBSET Nat, 0 \in S, \A k \in S : k + 1 \in S
  PROVE  S = Nat
<1> SUFFICES ASSUME Nat \ S # {} PROVE FALSE
  OBVIOUS
<1> DEFINE R == {ss \in Nat \X Nat : ss[1] < ss[2]}
           T == Nat \ S
<1>1. IsWellFoundedOn(R, Nat)
  <2>1. R = OpToRel(<, Nat)
    BY Zenon DEF OpToRel
  <2> QED BY <2>1, NatLessThanWellFounded, Zenon
<1>2. T \subseteq Nat /\ T # {}
  OBVIOUS
<1>3. PICK x \in T : \A y \in T : ~(<<y, x>> \in R)
  <2> HIDE DEF R, T
  <2> QED BY <1>1, <1>2, WFMin
<1>4. \A y \in T : ~(y < x)
  BY <1>3
<1>5. x # 0 /\ x - 1 \in Nat /\ x - 1 < x
  BY <1>3
<1> QED BY <1>3, <1>4, <1>5

\* What holds at first, and at each place if at the one before, holds at all.
LEMMA AtEachPlace ==
  ASSUME NEW m \in Nat, NEW H \in SUBSET (0..m), 0 \in H,
         \A i \in 1..m : i - 1 \in H => i \in H
  PROVE  H = 0..m
<1> DEFINE S == {k \in Nat : k <= m => k \in H}
<1>1. 0 \in S
  OBVIOUS
<1>2. \A k \in S : k + 1 \in S
  <2> SUFFICES ASSUME NEW k \in S, k + 1 <= m PROVE k + 1 \in H
    OBVIOUS
  <2>1. k + 1 \in 1..m /\ (k + 1) - 1 = k /\ k \in H
    OBVIOUS
  <2> QED BY <2>1
<1>3. S = Nat
  <2> HIDE DEF S
  <2>1. S \in SUBSET Nat
    BY DEF S
  <2> QED BY <1>1, <1>2, <2>1, NatSet
<1>4. \A k \in 0..m : k \in H
  <2> TAKE k \in 0..m
  <2>1. k \in Nat /\ k <= m
    OBVIOUS
  <2>2. k \in S
    <3> HIDE DEF S
    <3> QED BY <1>3, <2>1
  <2> QED BY <2>1, <2>2
<1> QED BY <1>4

LEMMA MaxOf ==
  ASSUME NEW m \in Nat, NEW s \in SUBSET (1..m), m \in s
  PROVE  Max(s) = m
<1>1. \E x \in s : \A y \in s : x >= y
  <2>1. \A y \in s : m >= y
    OBVIOUS
  <2> QED BY <2>1
<1>2. Max(s) \in s /\ \A y \in s : Max(s) >= y
  BY <1>1 DEF Max
<1>3. Max(s) \in 1..m /\ Max(s) >= m
  BY <1>2
<1> QED BY <1>3

LEMMA MaxIn ==
  ASSUME NEW m \in Nat, NEW s \in SUBSET (1..m), s # {}
  PROVE  Max(s) \in s
<1> DEFINE P(k) == \A t \in SUBSET (1..k) : t # {} => \E x \in t : \A y \in t : x >= y
           H == {k \in 0..m : P(k)}
<1>1. P(0)
  <2>1. 1..0 = {}
    OBVIOUS
  <2> QED BY <2>1
<1>2. ASSUME NEW i \in 1..m, P(i - 1) PROVE P(i)
  <2> SUFFICES ASSUME NEW t \in SUBSET (1..i), t # {}
               PROVE  \E x \in t : \A y \in t : x >= y
    OBVIOUS
  <2>1. CASE i \in t
    <3>1. \A y \in t : i >= y
      OBVIOUS
    <3> QED BY <2>1, <3>1
  <2>2. CASE i \notin t
    <3>1. t \in SUBSET (1..(i - 1))
      BY <2>2
    <3> QED BY <1>2, <3>1
  <2> QED BY <2>1, <2>2
<1>3. P(m)
  <2> HIDE DEF P
  <2>1. 0 \in H /\ \A i \in 1..m : i - 1 \in H => i \in H
    BY <1>1, <1>2
  <2>2. H \in SUBSET (0..m)
    OBVIOUS
  <2>3. H = 0..m
    <3> HIDE DEF H
    <3> QED BY <2>1, <2>2, AtEachPlace
  <2> QED BY <2>3
<1>4. \E x \in s : \A y \in s : x >= y
  BY <1>3
<1> QED BY <1>4 DEF Max

\* What a fold of F from b over the elements of q is defined by: what each set
\* of places comes to.
FoldsBy(it, X, F, b, q) ==
  /\ it \in [SUBSET DOMAIN q -> X]
  /\ \A s \in SUBSET DOMAIN q : it[s] = IF s = {} THEN b ELSE F[<<it[s \ {Max(s)}], q[Max(s)]>>]

\* There is such a thing.
LEMMA FoldExists ==
  ASSUME NEW X, NEW A, NEW F \in [X \X A -> X], NEW b \in X, NEW q \in Seq(A)
  PROVE  \E it : FoldsBy(it, X, F, b, q)
<1> DEFINE Is(it, m) == \A s \in SUBSET (1..m) :
                          it[s] = IF s = {} THEN b ELSE F[<<it[s \ {Max(s)}], q[Max(s)]>>]
           P(k) == \E it \in [SUBSET (1..k) -> X] : Is(it, k)
           H == {k \in 0..Len(q) : P(k)}
<1>1. P(0)
  <2> DEFINE it == [s \in SUBSET (1..0) |-> b]
  <2>1. it \in [SUBSET (1..0) -> X]
    OBVIOUS
  <2>2. Is(it, 0)
    <3>1. \A s \in SUBSET (1..0) : s = {}
      OBVIOUS
    <3> QED BY <3>1
  <2> HIDE DEF it, Is
  <2> QED BY <2>1, <2>2
<1>2. ASSUME NEW i \in 1..Len(q), P(i - 1) PROVE P(i)
  <2>1. PICK it \in [SUBSET (1..(i - 1)) -> X] : Is(it, i - 1)
    BY <1>2
  <2> DEFINE jt == [s \in SUBSET (1..i) |-> IF i \in s THEN F[<<it[s \ {i}], q[i]>>] ELSE it[s]]
  <2>2. \A s \in SUBSET (1..i) : s \ {i} \in SUBSET (1..(i - 1))
    OBVIOUS
  <2>3. jt \in [SUBSET (1..i) -> X]
    <3> SUFFICES ASSUME NEW s \in SUBSET (1..i)
                 PROVE  (IF i \in s THEN F[<<it[s \ {i}], q[i]>>] ELSE it[s]) \in X
      OBVIOUS
    <3>1. it[s \ {i}] \in X /\ q[i] \in A
      BY <2>2
    <3>2. i \notin s => it[s] \in X
      BY <2>2
    <3> QED BY <3>1, <3>2
  <2>4. Is(jt, i)
    <3> SUFFICES ASSUME NEW s \in SUBSET (1..i)
                 PROVE  jt[s] = IF s = {} THEN b ELSE F[<<jt[s \ {Max(s)}], q[Max(s)]>>]
      OBVIOUS
    <3>1. CASE i \in s
      <4>1. Max(s) = i /\ s # {}
        BY <3>1, MaxOf
      <4>2. jt[s \ {i}] = it[s \ {i}]
        BY <2>2
      <4>3. jt[s] = F[<<it[s \ {i}], q[i]>>]
        BY <3>1
      <4> HIDE DEF jt
      <4> QED BY <4>1, <4>2, <4>3
    <3>2. CASE i \notin s
      <4>1. s \in SUBSET (1..(i - 1))
        BY <3>2
      <4>2. jt[s] = it[s] /\ jt[s \ {Max(s)}] = it[s \ {Max(s)}]
        BY <3>2
      <4> HIDE DEF jt
      <4> QED BY <2>1, <4>1, <4>2
    <3> QED BY <3>1, <3>2
  <2> HIDE DEF jt, Is
  <2> QED BY <2>3, <2>4
<1>3. P(Len(q))
  <2> HIDE DEF P
  <2>1. 0 \in H /\ \A i \in 1..Len(q) : i - 1 \in H => i \in H
    BY <1>1, <1>2
  <2>2. H \in SUBSET (0..Len(q)) /\ Len(q) \in Nat
    OBVIOUS
  <2>3. H = 0..Len(q)
    <3> HIDE DEF H
    <3> QED BY <2>1, <2>2, AtEachPlace
  <2> QED BY <2>2, <2>3
<1>4. PICK it \in [SUBSET (1..Len(q)) -> X] : Is(it, Len(q))
  <2> HIDE DEF Is
  <2> QED BY <1>3
<1>5. DOMAIN q = 1..Len(q)
  OBVIOUS
<1> QED BY <1>4, <1>5 DEF FoldsBy

\* A step's acts, one after another.
ActsTrace(g, X, b, q) ==
  /\ g \in [0..Len(q) -> X] /\ g[0] = b
  /\ \A i \in 1..Len(q) : g[i] = Act(g[i - 1], q[i])
  /\ ActsDone(b, q) = g[Len(q)]

LEMMA ActsRun ==
  ASSUME NEW X, NEW A, \A x \in X, a \in A : Act(x, a) \in X, NEW b \in X, NEW q \in Seq(A)
  PROVE  \E g : ActsTrace(g, X, b, q)
<1> DEFINE F == [xa \in X \X A |-> Act(xa[1], xa[2])]
           Is(h) == h = [s \in SUBSET DOMAIN q |-> IF s = {} THEN b ELSE Act(h[s \ {Max(s)}], q[Max(s)])]
<1>0. F \in [X \X A -> X]
  OBVIOUS
<1>1. \A x \in X, a \in A : F[<<x, a>>] = Act(x, a)
  OBVIOUS
<1>2. DOMAIN q = 1..Len(q) /\ Len(q) \in Nat
  OBVIOUS
<1>3. PICK jt : FoldsBy(jt, X, F, b, q)
  <2> HIDE DEF F
  <2> QED BY <1>0, FoldExists
<1>4. Is(jt)
  <2> HIDE DEF F
  <2> SUFFICES ASSUME NEW s \in SUBSET DOMAIN q, s # {} PROVE F[<<jt[s \ {Max(s)}], q[Max(s)]>>] = Act(jt[s \ {Max(s)}], q[Max(s)])
    BY <1>3 DEF FoldsBy
  <2>1. Max(s) \in DOMAIN q
    BY <1>2, MaxIn
  <2>2. q[Max(s)] \in A /\ jt[s \ {Max(s)}] \in X
    BY <1>3, <2>1 DEF FoldsBy
  <2> QED BY <1>1, <2>2
<1>5. \E it : Is(it) /\ ActsDone(b, q) = it[DOMAIN q]
  <2>1. ActsDone(b, q) = (CHOOSE it : Is(it))[DOMAIN q]
    BY DEF ActsDone, FoldLeft, MapThenFoldSet
  <2> HIDE DEF Is
  <2> QED BY <1>4, <2>1
<1>6. PICK it : Is(it) /\ ActsDone(b, q) = it[DOMAIN q]
  BY <1>5
<1> HIDE DEF F
<1>7. it[{}] = b
  BY <1>6
<1>8. ASSUME NEW i \in 1..Len(q) PROVE it[1..i] = Act(it[1..(i - 1)], q[i])
  <2>0. i \in Nat /\ i >= 1 /\ i <= Len(q)
    BY <1>2
  <2>1. 1..i \in SUBSET DOMAIN q /\ i \in 1..i /\ (1..i) \ {i} = 1..(i - 1)
    BY <1>2, <2>0
  <2>2. Max(1..i) = i
    BY <2>0, <2>1, MaxOf
  <2>3. it[1..i] = Act(it[(1..i) \ {Max(1..i)}], q[Max(1..i)])
    BY <1>6, <2>1
  <2> QED BY <2>1, <2>2, <2>3
<1> HIDE DEF Is
<1> DEFINE g == [i \in 0..Len(q) |-> it[1..i]]
           H == {i \in 0..Len(q) : g[i] \in X}
<1>9. g[0] = b
  <2>1. 1..0 = {}
    OBVIOUS
  <2> QED BY <1>2, <1>7, <2>1
<1>10. \A i \in 1..Len(q) : g[i] = Act(g[i - 1], q[i])
  BY <1>8
<1>11. ActsDone(b, q) = g[Len(q)]
  BY <1>2, <1>6
<1>12. g \in [0..Len(q) -> X]
  <2>1. H \in SUBSET (0..Len(q)) /\ 0 \in H
    BY <1>2, <1>9
  <2>2. \A i \in 1..Len(q) : i - 1 \in H => i \in H
    <3> HIDE DEF g
    <3> QED BY <1>2, <1>10
  <2>3. H = 0..Len(q)
    <3> HIDE DEF H
    <3> QED BY <1>2, <2>1, <2>2, AtEachPlace
  <2> QED BY <2>3
<1> HIDE DEF g
<1> QED BY <1>9, <1>10, <1>11, <1>12 DEF ActsTrace

\* A step's volleys, one after another.
VolleyTrace(g, X, b, q) ==
  /\ g \in [0..Len(q) -> X] /\ g[0] = b
  /\ \A i \in 1..Len(q) : g[i] = VolleyStep(g[i - 1], q[i])
  /\ FoldLeft(VolleyStep, b, q) = g[Len(q)]

LEMMA VolleyRun ==
  ASSUME NEW X, NEW A, \A x \in X, a \in A : VolleyStep(x, a) \in X, NEW b \in X, NEW q \in Seq(A)
  PROVE  \E g : VolleyTrace(g, X, b, q)
<1> DEFINE F == [xa \in X \X A |-> VolleyStep(xa[1], xa[2])]
           Is(h) == h = [s \in SUBSET DOMAIN q |-> IF s = {} THEN b ELSE VolleyStep(h[s \ {Max(s)}], q[Max(s)])]
<1>0. F \in [X \X A -> X]
  OBVIOUS
<1>1. \A x \in X, a \in A : F[<<x, a>>] = VolleyStep(x, a)
  OBVIOUS
<1>2. DOMAIN q = 1..Len(q) /\ Len(q) \in Nat
  OBVIOUS
<1>3. PICK jt : FoldsBy(jt, X, F, b, q)
  <2> HIDE DEF F
  <2> QED BY <1>0, FoldExists
<1>4. Is(jt)
  <2> HIDE DEF F
  <2> SUFFICES ASSUME NEW s \in SUBSET DOMAIN q, s # {} PROVE F[<<jt[s \ {Max(s)}], q[Max(s)]>>] = VolleyStep(jt[s \ {Max(s)}], q[Max(s)])
    BY <1>3 DEF FoldsBy
  <2>1. Max(s) \in DOMAIN q
    BY <1>2, MaxIn
  <2>2. q[Max(s)] \in A /\ jt[s \ {Max(s)}] \in X
    BY <1>3, <2>1 DEF FoldsBy
  <2> QED BY <1>1, <2>2
<1>5. \E it : Is(it) /\ FoldLeft(VolleyStep, b, q) = it[DOMAIN q]
  <2>1. FoldLeft(VolleyStep, b, q) = (CHOOSE it : Is(it))[DOMAIN q]
    BY DEF FoldLeft, MapThenFoldSet
  <2> HIDE DEF Is
  <2> QED BY <1>4, <2>1
<1>6. PICK it : Is(it) /\ FoldLeft(VolleyStep, b, q) = it[DOMAIN q]
  BY <1>5
<1> HIDE DEF F
<1>7. it[{}] = b
  BY <1>6
<1>8. ASSUME NEW i \in 1..Len(q) PROVE it[1..i] = VolleyStep(it[1..(i - 1)], q[i])
  <2>0. i \in Nat /\ i >= 1 /\ i <= Len(q)
    BY <1>2
  <2>1. 1..i \in SUBSET DOMAIN q /\ i \in 1..i /\ (1..i) \ {i} = 1..(i - 1)
    BY <1>2, <2>0
  <2>2. Max(1..i) = i
    BY <2>0, <2>1, MaxOf
  <2>3. it[1..i] = VolleyStep(it[(1..i) \ {Max(1..i)}], q[Max(1..i)])
    BY <1>6, <2>1
  <2> QED BY <2>1, <2>2, <2>3
<1> HIDE DEF Is
<1> DEFINE g == [i \in 0..Len(q) |-> it[1..i]]
           H == {i \in 0..Len(q) : g[i] \in X}
<1>9. g[0] = b
  <2>1. 1..0 = {}
    OBVIOUS
  <2> QED BY <1>2, <1>7, <2>1
<1>10. \A i \in 1..Len(q) : g[i] = VolleyStep(g[i - 1], q[i])
  BY <1>8
<1>11. FoldLeft(VolleyStep, b, q) = g[Len(q)]
  BY <1>2, <1>6
<1>12. g \in [0..Len(q) -> X]
  <2>1. H \in SUBSET (0..Len(q)) /\ 0 \in H
    BY <1>2, <1>9
  <2>2. \A i \in 1..Len(q) : i - 1 \in H => i \in H
    <3> HIDE DEF g
    <3> QED BY <1>2, <1>10
  <2>3. H = 0..Len(q)
    <3> HIDE DEF H
    <3> QED BY <1>2, <2>1, <2>2, AtEachPlace
  <2> QED BY <2>3
<1> HIDE DEF g
<1> QED BY <1>9, <1>10, <1>11, <1>12 DEF VolleyTrace

\* A step's blows, one after another.
BlowTrace(g, X, b, q) ==
  /\ g \in [0..Len(q) -> X] /\ g[0] = b
  /\ \A i \in 1..Len(q) : g[i] = Blow(g[i - 1], q[i])
  /\ BlowsMet(b, q) = g[Len(q)]

LEMMA BlowRun ==
  ASSUME NEW X, NEW A, \A x \in X, a \in A : Blow(x, a) \in X, NEW b \in X, NEW q \in Seq(A)
  PROVE  \E g : BlowTrace(g, X, b, q)
<1> DEFINE F == [xa \in X \X A |-> Blow(xa[1], xa[2])]
           Is(h) == h = [s \in SUBSET DOMAIN q |-> IF s = {} THEN b ELSE Blow(h[s \ {Max(s)}], q[Max(s)])]
<1>0. F \in [X \X A -> X]
  OBVIOUS
<1>1. \A x \in X, a \in A : F[<<x, a>>] = Blow(x, a)
  OBVIOUS
<1>2. DOMAIN q = 1..Len(q) /\ Len(q) \in Nat
  OBVIOUS
<1>3. PICK jt : FoldsBy(jt, X, F, b, q)
  <2> HIDE DEF F
  <2> QED BY <1>0, FoldExists
<1>4. Is(jt)
  <2> HIDE DEF F
  <2> SUFFICES ASSUME NEW s \in SUBSET DOMAIN q, s # {} PROVE F[<<jt[s \ {Max(s)}], q[Max(s)]>>] = Blow(jt[s \ {Max(s)}], q[Max(s)])
    BY <1>3 DEF FoldsBy
  <2>1. Max(s) \in DOMAIN q
    BY <1>2, MaxIn
  <2>2. q[Max(s)] \in A /\ jt[s \ {Max(s)}] \in X
    BY <1>3, <2>1 DEF FoldsBy
  <2> QED BY <1>1, <2>2
<1>5. \E it : Is(it) /\ BlowsMet(b, q) = it[DOMAIN q]
  <2>1. BlowsMet(b, q) = (CHOOSE it : Is(it))[DOMAIN q]
    BY DEF BlowsMet, FoldLeft, MapThenFoldSet
  <2> HIDE DEF Is
  <2> QED BY <1>4, <2>1
<1>6. PICK it : Is(it) /\ BlowsMet(b, q) = it[DOMAIN q]
  BY <1>5
<1> HIDE DEF F
<1>7. it[{}] = b
  BY <1>6
<1>8. ASSUME NEW i \in 1..Len(q) PROVE it[1..i] = Blow(it[1..(i - 1)], q[i])
  <2>0. i \in Nat /\ i >= 1 /\ i <= Len(q)
    BY <1>2
  <2>1. 1..i \in SUBSET DOMAIN q /\ i \in 1..i /\ (1..i) \ {i} = 1..(i - 1)
    BY <1>2, <2>0
  <2>2. Max(1..i) = i
    BY <2>0, <2>1, MaxOf
  <2>3. it[1..i] = Blow(it[(1..i) \ {Max(1..i)}], q[Max(1..i)])
    BY <1>6, <2>1
  <2> QED BY <2>1, <2>2, <2>3
<1> HIDE DEF Is
<1> DEFINE g == [i \in 0..Len(q) |-> it[1..i]]
           H == {i \in 0..Len(q) : g[i] \in X}
<1>9. g[0] = b
  <2>1. 1..0 = {}
    OBVIOUS
  <2> QED BY <1>2, <1>7, <2>1
<1>10. \A i \in 1..Len(q) : g[i] = Blow(g[i - 1], q[i])
  BY <1>8
<1>11. BlowsMet(b, q) = g[Len(q)]
  BY <1>2, <1>6
<1>12. g \in [0..Len(q) -> X]
  <2>1. H \in SUBSET (0..Len(q)) /\ 0 \in H
    BY <1>2, <1>9
  <2>2. \A i \in 1..Len(q) : i - 1 \in H => i \in H
    <3> HIDE DEF g
    <3> QED BY <1>2, <1>10
  <2>3. H = 0..Len(q)
    <3> HIDE DEF H
    <3> QED BY <1>2, <2>1, <2>2, AtEachPlace
  <2> QED BY <2>3
<1> HIDE DEF g
<1> QED BY <1>9, <1>10, <1>11, <1>12 DEF BlowTrace

LEMMA AppendSet ==
  ASSUME NEW A, NEW q \in Seq(A), NEW e \in A
  PROVE  Append(q, e) \in Seq(A) /\ ToSet(Append(q, e)) = ToSet(q) \union {e}
<1> DEFINE r == Append(q, e)
<1>1. r \in Seq(A) /\ DOMAIN q = 1..Len(q) /\ DOMAIN r = 1..(Len(q) + 1) /\ Len(q) \in Nat
  OBVIOUS
<1>2. r[Len(q) + 1] = e /\ \A i \in 1..Len(q) : r[i] = q[i]
  OBVIOUS
<1>3. DOMAIN r = DOMAIN q \union {Len(q) + 1}
  BY <1>1
<1> HIDE DEF r
<1>4. \A x : x \in ToSet(r) <=> x \in ToSet(q) \union {e}
  BY <1>1, <1>2, <1>3 DEF ToSet
<1>5. ToSet(r) = ToSet(q) \union {e}
  BY <1>4
<1> QED BY <1>1, <1>5 DEF r

\* The elements of a sequence, kept or dropped one after another.
WithoutTrace(g, X, q, drop) ==
  /\ g \in [0..Len(q) -> X] /\ g[0] = <<>>
  /\ \A i \in 1..Len(q) : g[i] = (IF q[i] \in drop THEN g[i - 1] ELSE Append(g[i - 1], q[i]))
  /\ LeftOver(q, drop) = g[Len(q)]

LEMMA WithoutRun ==
  ASSUME NEW X, NEW A, NEW drop, \A x \in X, a \in A : (IF a \in drop THEN x ELSE Append(x, a)) \in X, <<>> \in X, NEW q \in Seq(A)
  PROVE  \E g : WithoutTrace(g, X, q, drop)
<1> DEFINE F == [xa \in X \X A |-> (IF xa[2] \in drop THEN xa[1] ELSE Append(xa[1], xa[2]))]
           Is(h) == h = [s \in SUBSET DOMAIN q |-> IF s = {} THEN <<>> ELSE (IF q[Max(s)] \in drop THEN h[s \ {Max(s)}] ELSE Append(h[s \ {Max(s)}], q[Max(s)]))]
<1>0. F \in [X \X A -> X]
  OBVIOUS
<1>1. \A x \in X, a \in A : F[<<x, a>>] = (IF a \in drop THEN x ELSE Append(x, a))
  OBVIOUS
<1>2. DOMAIN q = 1..Len(q) /\ Len(q) \in Nat
  OBVIOUS
<1>3. PICK jt : FoldsBy(jt, X, F, <<>>, q)
  <2> HIDE DEF F
  <2> QED BY <1>0, FoldExists
<1>4. Is(jt)
  <2> HIDE DEF F
  <2> SUFFICES ASSUME NEW s \in SUBSET DOMAIN q, s # {} PROVE F[<<jt[s \ {Max(s)}], q[Max(s)]>>] = (IF q[Max(s)] \in drop THEN jt[s \ {Max(s)}] ELSE Append(jt[s \ {Max(s)}], q[Max(s)]))
    BY <1>3 DEF FoldsBy
  <2>1. Max(s) \in DOMAIN q
    BY <1>2, MaxIn
  <2>2. q[Max(s)] \in A /\ jt[s \ {Max(s)}] \in X
    BY <1>3, <2>1 DEF FoldsBy
  <2> QED BY <1>1, <2>2
<1>5. \E it : Is(it) /\ LeftOver(q, drop) = it[DOMAIN q]
  <2>1. LeftOver(q, drop) = (CHOOSE it : Is(it))[DOMAIN q]
    BY DEF LeftOver, FoldLeft, MapThenFoldSet
  <2> HIDE DEF Is
  <2> QED BY <1>4, <2>1
<1>6. PICK it : Is(it) /\ LeftOver(q, drop) = it[DOMAIN q]
  BY <1>5
<1> HIDE DEF F
<1>7. it[{}] = <<>>
  BY <1>6
<1>8. ASSUME NEW i \in 1..Len(q) PROVE it[1..i] = (IF q[i] \in drop THEN it[1..(i - 1)] ELSE Append(it[1..(i - 1)], q[i]))
  <2>0. i \in Nat /\ i >= 1 /\ i <= Len(q)
    BY <1>2
  <2>1. 1..i \in SUBSET DOMAIN q /\ i \in 1..i /\ (1..i) \ {i} = 1..(i - 1)
    BY <1>2, <2>0
  <2>2. Max(1..i) = i
    BY <2>0, <2>1, MaxOf
  <2>3. it[1..i] = (IF q[Max(1..i)] \in drop THEN it[(1..i) \ {Max(1..i)}] ELSE Append(it[(1..i) \ {Max(1..i)}], q[Max(1..i)]))
    BY <1>6, <2>1
  <2> QED BY <2>1, <2>2, <2>3
<1> HIDE DEF Is
<1> DEFINE g == [i \in 0..Len(q) |-> it[1..i]]
           H == {i \in 0..Len(q) : g[i] \in X}
<1>9. g[0] = <<>>
  <2>1. 1..0 = {}
    OBVIOUS
  <2> QED BY <1>2, <1>7, <2>1
<1>10. \A i \in 1..Len(q) : g[i] = (IF q[i] \in drop THEN g[i - 1] ELSE Append(g[i - 1], q[i]))
  BY <1>8
<1>11. LeftOver(q, drop) = g[Len(q)]
  BY <1>2, <1>6
<1>12. g \in [0..Len(q) -> X]
  <2>1. H \in SUBSET (0..Len(q)) /\ 0 \in H
    BY <1>2, <1>9
  <2>2. \A i \in 1..Len(q) : i - 1 \in H => i \in H
    <3> HIDE DEF g
    <3> QED BY <1>2, <1>10
  <2>3. H = 0..Len(q)
    <3> HIDE DEF H
    <3> QED BY <1>2, <2>1, <2>2, AtEachPlace
  <2> QED BY <2>3
<1> HIDE DEF g
<1> QED BY <1>9, <1>10, <1>11, <1>12 DEF WithoutTrace

\* What is left of a sequence when the elements of a set are dropped.
LEMMA WithoutIs ==
  ASSUME NEW A, NEW q \in Seq(A), NEW drop
  PROVE  LeftOver(q, drop) \in Seq(A) /\ ToSet(LeftOver(q, drop)) = ToSet(q) \ drop
<1> DEFINE X == Seq(A)
<1>1. \A x \in X, a \in A : (IF a \in drop THEN x ELSE Append(x, a)) \in X
  OBVIOUS
<1>2. <<>> \in X /\ Len(q) \in Nat /\ DOMAIN q = 1..Len(q)
  OBVIOUS
<1>3. PICK g : WithoutTrace(g, X, q, drop)
  <2> HIDE DEF X
  <2> QED BY <1>1, <1>2, WithoutRun
<1>4. /\ g \in [0..Len(q) -> X] /\ g[0] = <<>>
      /\ \A i \in 1..Len(q) : g[i] = (IF q[i] \in drop THEN g[i - 1] ELSE Append(g[i - 1], q[i]))
      /\ LeftOver(q, drop) = g[Len(q)]
  <2> HIDE DEF X
  <2> QED BY <1>3 DEF WithoutTrace
<1> DEFINE H == {i \in 0..Len(q) : ToSet(g[i]) = {q[j] : j \in 1..i} \ drop}
<1>5. 0 \in H
  <2>1. 1..0 = {} /\ ToSet(<<>>) = {}
    BY DEF ToSet
  <2> QED BY <1>2, <1>4, <2>1
<1>6. ASSUME NEW i \in 1..Len(q), i - 1 \in H PROVE i \in H
  <2>0. i \in Nat /\ i - 1 \in 0..Len(q) /\ i \in 0..Len(q) /\ q[i] \in A /\ g[i - 1] \in Seq(A)
    <3>1. i \in Nat /\ i - 1 \in 0..Len(q) /\ i \in 0..Len(q)
      BY <1>2
    <3>2. q[i] \in A
      BY ElementOfSeq
    <3>3. g[i - 1] \in X
      <4> HIDE DEF X
      <4> QED BY <1>4, <3>1
    <3> QED BY <3>1, <3>2, <3>3
  <2>1. {q[j] : j \in 1..i} = {q[j] : j \in 1..(i - 1)} \union {q[i]}
    <3>1. 1..i = (1..(i - 1)) \union {i}
      BY <2>0
    <3> QED BY <3>1
  <2>2. ToSet(g[i - 1]) = {q[j] : j \in 1..(i - 1)} \ drop
    BY <1>6
  <2>3. ToSet(g[i]) = IF q[i] \in drop THEN ToSet(g[i - 1]) ELSE ToSet(g[i - 1]) \union {q[i]}
    BY <1>4, <2>0, AppendSet
  <2>4. ToSet(g[i]) = {q[j] : j \in 1..i} \ drop
    BY <2>1, <2>2, <2>3
  <2> QED BY <2>0, <2>4
<1>7. H = 0..Len(q)
  <2>1. H \in SUBSET (0..Len(q))
    OBVIOUS
  <2> HIDE DEF H
  <2> QED BY <1>2, <1>5, <1>6, <2>1, AtEachPlace
<1>8. ToSet(g[Len(q)]) = {q[j] : j \in 1..Len(q)} \ drop
  <2>1. Len(q) \in H
    <3> HIDE DEF H
    <3> QED BY <1>2, <1>7
  <2> QED BY <2>1
<1>9. LeftOver(q, drop) \in X
  <2> HIDE DEF X
  <2>1. Len(q) \in 0..Len(q)
    BY <1>2
  <2> QED BY <1>4, <2>1
<1>10. ToSet(q) = {q[j] : j \in 1..Len(q)}
  BY <1>2 DEF ToSet
<1> HIDE DEF H
<1> QED BY <1>4, <1>8, <1>9, <1>10


-----------------------------------------------------------------------------
(* What is always so. *)

Step == AtLeast(1, Gap)

BlowResults == {"staggered", "hit", "parting", "dodge", "perfect_block", "block"}
Reasons == {"staggered", "not_steady", "cooldown", "empty", "blocking", "no_shield"}

\* What a step may tell.
StrikeEvents == [type : {"strike"}, slot : Slots, target : Targets, tier : {0, 2}, hit : Nat, press : Nat]
RefusedEvents == [type : {"refused"}, act : {"strike", "dodge", "block"}, reason : Reasons, press : Nat]
OtherEvents ==
  [type : {"blow"}, result : BlowResults] \union [type : {"stagger"}, by : {"blow", "rim"}]
  \union [type : {"recover", "dodge", "steadied", "second_wind"}]
Events == StrikeEvents \union RefusedEvents \union OtherEvents

\* What a dot may be: the strike it holds is one that can be made, and its
\* volleys have hits left and never wait longer than between two of them.
Held == [slot : Slots, target : Targets, left : Nat, press : Nat]
VolleyType == [slot : Slots, target : Targets, tier : {0, 2}, hit : Nat, left : Nat, press : Nat]
Running == {v \in VolleyType : v.hit \in 2..Hits[v.slot] /\ v.left \in 1..Step}
Dots == {d \in DotType : d.pending \in Held \union {NoPress} /\ d.volleys \in Seq(Running)}
Sims == [d : Dots, ev : Seq(Events)]

Types ==
  /\ dot \in Dots
  /\ told \in Seq(Events)
  /\ since \in [Slots -> 0..Horizon]
  /\ calm \in 0..Horizon
  /\ asked \subseteq Nat
  /\ firsts \subseteq [slot : Slots, target : Targets, tier : {0, 2}, ago : 0..Horizon]
  /\ played \in 0..MaxSteps

\* The copy is the dot's, or nothing to go by.
CopyIs == \/ same = TRUE /\ copy = dot /\ copied = told
          \/ same = FALSE /\ copy = Stale

\* How long ago a slot struck, or the dot recovered, seen from after the step
\* last told.
SinceNow(s) == IF \E e \in FirstHits(told) : e.slot = s THEN 0 ELSE since[s]
CalmNow == IF Happened(told, "recover") THEN 0 ELSE calm

\* What is left of a cooldown and what has passed make up the whole.
CooldownsRun ==
  \A s \in Slots : /\ dot.cool[s] + SinceNow(s) >= Cooldown[s]
                   /\ \A k \in Filled : dot.cool[k] + SinceNow(s) >= GlobalCooldown
ImmunityRuns == dot.immune + CalmNow >= ImmuneSteps

\* A volley's next hit is due when it has waited for what is left; a first
\* hit with hits to come has a volley.
Follows(f, v) ==
  f.slot = v.slot /\ f.target = v.target /\ f.tier = v.tier /\ f.ago + 1 + v.left = (v.hit - 1) * Step
VolleysRun ==
  /\ \A v \in ToSet(dot.volleys) : \E f \in firsts : Follows(f, v)
  /\ \A f \in firsts : f.ago + 1 < (Hits[f.slot] - 1) * Step => \E v \in ToSet(dot.volleys) : Follows(f, v)

\* A strike asked for and not answered is held, and has waited for what it
\* lacks of the buffer.
PressHeld == \A k \in asked : dot.pending # NoPress /\ k + 1 + dot.pending.left = Buffer

IInv ==
  /\ Types /\ CopyIs /\ CooldownsRun /\ ImmunityRuns /\ VolleysRun /\ PressHeld
  /\ CooldownKept /\ ImmuneAfterStagger /\ VolleysLand

-----------------------------------------------------------------------------
(* What the handlers of a step leave alone. *)

LEMMA HappensIs ==
  ASSUME NEW s \in Sims, NEW e \in Events
  PROVE  /\ Happens(s, e) \in Sims
         /\ Happens(s, e).d = s.d
         /\ ToSet(Happens(s, e).ev) = ToSet(s.ev) \union {e}
<1>1. s.d \in Dots /\ s.ev \in Seq(Events)
  BY DEF Sims
<1>2. Happens(s, e) = [d |-> s.d, ev |-> Append(s.ev, e)]
  BY DEF Sims, Happens
<1>3. Append(s.ev, e) \in Seq(Events) /\ ToSet(Append(s.ev, e)) = ToSet(s.ev) \union {e}
  BY <1>1, AppendSet
<1> QED BY <1>1, <1>2, <1>3 DEF Sims

\* What is told of strikes, and of recoveries, is what was told before.
Alike(ev, ev0) ==
  /\ Struck(ev) = Struck(ev0)
  /\ Answers(ev) = Answers(ev0)
  /\ Happened(ev, "recover") <=> Happened(ev0, "recover")

\* What an act, a blow or the forces may make of s0: they touch no cooldown,
\* immunity or volley, answer no strike, and stagger no dot that is immune.
Quiet(s0) ==
  {s \in Sims : /\ s.d.cool = s0.d.cool /\ s.d.immune = s0.d.immune /\ s.d.volleys = s0.d.volleys
                /\ Alike(s.ev, s0.ev)
                /\ Happened(s.ev, "stagger") => Happened(s0.ev, "stagger") \/ s0.d.immune = 0}

\* The events that answer no strike and end no stagger.
QuietEvents == [type : {"refused"}, act : {"dodge", "block"}, reason : Reasons, press : Nat] \union OtherEvents

LEMMA QuietTells ==
  ASSUME NEW s0 \in Sims, NEW s \in Quiet(s0), NEW e \in QuietEvents, e.type # "recover",
         e.type = "stagger" => s0.d.immune = 0
  PROVE  Happens(s, e) \in Quiet(s0) /\ Happens(s, e).d = s.d
<1>1. e \in Events /\ e.type # "strike" /\ ~(e.type = "refused" /\ e.act = "strike")
  BY DEF QuietEvents, Events, OtherEvents, RefusedEvents
<1>2. s \in Sims
  BY DEF Quiet
<1>3. /\ Happens(s, e) \in Sims /\ Happens(s, e).d = s.d
      /\ ToSet(Happens(s, e).ev) = ToSet(s.ev) \union {e}
  BY <1>1, <1>2, HappensIs
<1>4. Alike(Happens(s, e).ev, s.ev)
  BY <1>1, <1>3 DEF Alike, Struck, FirstHits, Answers, Happened
<1>5. Happened(Happens(s, e).ev, "stagger") => Happened(s.ev, "stagger") \/ s0.d.immune = 0
  BY <1>3 DEF Happened
<1> HIDE DEF Alike
<1>6. Alike(Happens(s, e).ev, s0.ev)
  BY <1>4 DEF Quiet, Alike
<1> QED BY <1>3, <1>5, <1>6 DEF Quiet

LEMMA QuietMoves ==
  ASSUME NEW s0 \in Sims, NEW s \in Quiet(s0), NEW d \in Dots,
         d.cool = s.d.cool, d.immune = s.d.immune, d.volleys = s.d.volleys
  PROVE  [s EXCEPT !.d = d] \in Quiet(s0) /\ [s EXCEPT !.d = d].d = d
<1>1. s \in Sims
  BY DEF Quiet
<1>2. [s EXCEPT !.d = d] = [d |-> d, ev |-> s.ev] /\ s.ev \in Seq(Events)
  BY <1>1 DEF Sims
<1>3. [d |-> d, ev |-> s.ev] \in Sims
  BY <1>2 DEF Sims
<1> QED BY <1>2, <1>3 DEF Quiet

LEMMA QuietSame ==
  ASSUME NEW s0 \in Sims
  PROVE  s0 \in Quiet(s0)
BY DEF Quiet, Alike

\* An act: only a strike is held, to wait out the buffer.
HeldFor(s, a) == IF a.kind = "strike" THEN [slot |-> a.slot, target |-> a.target, left |-> Buffer, press |-> a.press]
                 ELSE s.d.pending

LEMMA ActQuiet ==
  ASSUME NEW s0 \in Sims, NEW s \in Quiet(s0), NEW a \in ActKinds
  PROVE  Act(s, a) \in Quiet(s0) /\ Act(s, a).d.pending = HeldFor(s, a)
<1>0. /\ a.press \in Nat /\ s \in Sims /\ s.d \in Dots
      /\ a.kind = "strike" => a.slot \in Slots /\ a.target \in Targets
      /\ a.kind \in {"strike", "dodge", "block", "unblock"}
  BY DEF ActKinds, Quiet, Sims
<1>1. CASE a.kind = "strike"
  <2> DEFINE p == [slot |-> a.slot, target |-> a.target, left |-> Buffer, press |-> a.press]
             d == [s.d EXCEPT !.pending = p]
  <2>1. p \in Held /\ p \in HeldPress
    BY <1>0, <1>1, BalanceAssumption, DotAssumption DEF Held, HeldPress
  <2> HIDE DEF p
  <2>2. d \in Dots /\ d.pending = p /\ d.cool = s.d.cool /\ d.immune = s.d.immune /\ d.volleys = s.d.volleys
    BY <1>0, <2>1 DEF Dots, DotType
  <2> HIDE DEF d
  <2>3. [s EXCEPT !.d = d] \in Quiet(s0) /\ [s EXCEPT !.d = d].d = d
    BY <2>2, QuietMoves
  <2>4. Act(s, a) = [s EXCEPT !.d = d]
    BY <1>1 DEF Act, d, p
  <2> QED BY <1>1, <2>2, <2>3, <2>4 DEF HeldFor, p
<1>2. CASE a.kind = "dodge"
  <2> DEFINE why == CASE Staggered(s.d)                  -> "staggered"
                      [] ~Staggered(s.d) /\ s.d.blocking -> "blocking"
                      [] OTHER -> IF s.d.dodge_cd > 0 THEN "cooldown" ELSE "valid"
             d == [s.d EXCEPT !.invuln = DodgeSteps, !.dodge_cd = DodgeCooldown, !.wobble_after = TRUE]
  <2>1. why \in {"staggered", "blocking", "cooldown", "valid"}
    OBVIOUS
  <2> HIDE DEF why
  <2>2. CASE why # "valid"
    <3>1. Refused("dodge", why, a.press) \in QuietEvents /\ Refused("dodge", why, a.press).type = "refused"
      BY <1>0, <2>1, <2>2 DEF Refused, QuietEvents, Reasons
    <3>2. Act(s, a) = Happens(s, Refused("dodge", why, a.press))
      BY <1>2, <2>2 DEF Act, Dodge, why
    <3> QED BY <1>2, <3>1, <3>2, QuietTells DEF HeldFor
  <2>3. CASE why = "valid"
    <3>1. d \in Dots /\ d.pending = s.d.pending
          /\ d.cool = s.d.cool /\ d.immune = s.d.immune /\ d.volleys = s.d.volleys
      BY <1>0, DotAssumption DEF Dots, DotType
    <3> HIDE DEF d
    <3>2. [s EXCEPT !.d = d] \in Quiet(s0) /\ [s EXCEPT !.d = d].d = d
      BY <3>1, QuietMoves
    <3>3. Act(s, a) = Happens([s EXCEPT !.d = d], Plain("dodge"))
      <4>1. [s EXCEPT !.d.invuln = DodgeSteps, !.d.dodge_cd = DodgeCooldown, !.d.wobble_after = TRUE]
            = [s EXCEPT !.d = d]
        BY <1>0 DEF d, Sims, Dots, DotType
      <4> QED BY <1>2, <2>3, <4>1 DEF Act, Dodge, why
    <3>4. Plain("dodge") \in QuietEvents /\ Plain("dodge").type = "dodge"
      BY DEF Plain, QuietEvents, OtherEvents
    <3> QED BY <1>2, <3>1, <3>2, <3>3, <3>4, QuietTells DEF HeldFor
  <2> QED BY <2>2, <2>3
<1>3. CASE a.kind = "block"
  <2> DEFINE d == [s.d EXCEPT !.blocking = TRUE, !.braced = 0]
  <2>1. CASE ~Shield
    <3>1. Refused("block", "no_shield", a.press) \in QuietEvents
          /\ Refused("block", "no_shield", a.press).type = "refused"
      BY <1>0 DEF Refused, QuietEvents, Reasons
    <3>2. Act(s, a) = Happens(s, Refused("block", "no_shield", a.press))
      BY <1>3, <2>1 DEF Act, Block
    <3> QED BY <1>3, <3>1, <3>2, QuietTells DEF HeldFor
  <2>2. CASE Shield /\ s.d.blocking
    BY <1>3, <2>2 DEF Act, Block, HeldFor
  <2>3. CASE Shield /\ ~s.d.blocking
    <3>0. 0 \in 0..(PerfectSteps + 1)
      BY DotAssumption
    <3>1. d \in Dots /\ d.pending = s.d.pending
          /\ d.cool = s.d.cool /\ d.immune = s.d.immune /\ d.volleys = s.d.volleys
      BY <1>0, <3>0 DEF Dots, DotType
    <3> HIDE DEF d
    <3>2. [s EXCEPT !.d = d] \in Quiet(s0) /\ [s EXCEPT !.d = d].d = d
      BY <3>1, QuietMoves
    <3>3. [s EXCEPT !.d.blocking = TRUE, !.d.braced = 0] = [s EXCEPT !.d = d]
      BY <1>0 DEF d, Sims, Dots, DotType
    <3> QED BY <1>3, <2>3, <3>1, <3>2, <3>3 DEF Act, Block, HeldFor
  <2> QED BY <2>1, <2>2, <2>3
<1>4. CASE a.kind = "unblock"
  <2> DEFINE d == [s.d EXCEPT !.blocking = FALSE]
  <2>1. d \in Dots /\ d.pending = s.d.pending
        /\ d.cool = s.d.cool /\ d.immune = s.d.immune /\ d.volleys = s.d.volleys
    BY <1>0 DEF Dots, DotType
  <2>2. Act(s, a) = [s EXCEPT !.d = d]
    BY <1>4 DEF Act
  <2> HIDE DEF d
  <2>3. [s EXCEPT !.d = d] \in Quiet(s0) /\ [s EXCEPT !.d = d].d = d
    BY <2>1, QuietMoves
  <2> QED BY <1>4, <2>1, <2>2, <2>3 DEF HeldFor
<1> QED BY <1>0, <1>1, <1>2, <1>3, <1>4

\* A step's acts: the last strike among them is held.
LEMMA ActsQuiet ==
  ASSUME NEW s0 \in Sims, NEW acts \in Seq(ActKinds)
  PROVE  /\ ActsDone(s0, acts) \in Quiet(s0)
         /\ (\E a \in ToSet(acts) : a.kind = "strike") =>
              ActsDone(s0, acts).d.pending \in Held /\ ActsDone(s0, acts).d.pending.left = Buffer
         /\ ~(\E a \in ToSet(acts) : a.kind = "strike") => ActsDone(s0, acts).d.pending = s0.d.pending
<1> DEFINE X == Quiet(s0)
<1>0. s0 \in X /\ \A x \in X, a \in ActKinds : Act(x, a) \in X
  BY QuietSame, ActQuiet
<1>1. Len(acts) \in Nat /\ DOMAIN acts = 1..Len(acts) /\ \A i \in 1..Len(acts) : acts[i] \in ActKinds
  OBVIOUS
<1>2. PICK g : ActsTrace(g, X, s0, acts)
  <2> HIDE DEF X
  <2> QED BY <1>0, ActsRun
<1>3. /\ g \in [0..Len(acts) -> X] /\ g[0] = s0
      /\ \A i \in 1..Len(acts) : g[i] = Act(g[i - 1], acts[i])
      /\ ActsDone(s0, acts) = g[Len(acts)]
  BY <1>2 DEF ActsTrace
<1> DEFINE Asks(i) == \E j \in 1..i : acts[j].kind = "strike"
           Is(i) == /\ Asks(i) => g[i].d.pending \in Held /\ g[i].d.pending.left = Buffer
                    /\ ~Asks(i) => g[i].d.pending = s0.d.pending
           H == {i \in 0..Len(acts) : Is(i)}
<1>4. Is(0)
  <2>1. 1..0 = {}
    OBVIOUS
  <2> QED BY <1>3, <2>1
<1>5. ASSUME NEW i \in 1..Len(acts), Is(i - 1) PROVE Is(i)
  <2>1. i - 1 \in 0..Len(acts) /\ i \in 0..Len(acts) /\ i \in Nat
    BY <1>1
  <2>2. g[i - 1] \in Quiet(s0) /\ acts[i] \in ActKinds
    BY <1>1, <1>3, <2>1
  <2>3. g[i].d.pending = HeldFor(g[i - 1], acts[i])
    BY <1>3, <2>2, ActQuiet
  <2>4. Asks(i) <=> Asks(i - 1) \/ acts[i].kind = "strike"
    <3>1. 1..i = (1..(i - 1)) \union {i}
      BY <2>1
    <3> QED BY <3>1
  <2>5. CASE acts[i].kind = "strike"
    <3>1. g[i].d.pending \in Held /\ g[i].d.pending.left = Buffer
      BY <2>2, <2>3, <2>5, DotAssumption, SMTT(30) DEF HeldFor, Held, ActKinds
    <3> QED BY <2>4, <2>5, <3>1
  <2>6. CASE acts[i].kind # "strike"
    <3>1. g[i].d.pending = g[i - 1].d.pending
      BY <2>3, <2>6 DEF HeldFor
    <3> HIDE DEF Asks
    <3> QED BY <1>5, <2>4, <2>6, <3>1
  <2> QED BY <2>5, <2>6
<1>6. Is(Len(acts))
  <2> HIDE DEF Is
  <2>1. 0 \in H /\ \A i \in 1..Len(acts) : i - 1 \in H => i \in H
    BY <1>1, <1>4, <1>5
  <2>2. H \in SUBSET (0..Len(acts))
    OBVIOUS
  <2>3. H = 0..Len(acts)
    <3> HIDE DEF H
    <3> QED BY <1>1, <2>1, <2>2, AtEachPlace
  <2> QED BY <1>1, <2>3
<1>7. Asks(Len(acts)) <=> \E a \in ToSet(acts) : a.kind = "strike"
  BY <1>1 DEF ToSet
<1> HIDE DEF Asks
<1> QED BY <1>1, <1>3, <1>6, <1>7

\* What a blow or the forces may make of s0: they leave a held strike be.
Unpressed(s0) == {s \in Quiet(s0) : s.d.pending = s0.d.pending}

LEMMA UnpressedTells ==
  ASSUME NEW s0 \in Sims, NEW s \in Unpressed(s0), NEW e \in OtherEvents, e.type # "recover",
         e.type = "stagger" => s0.d.immune = 0
  PROVE  Happens(s, e) \in Unpressed(s0) /\ Happens(s, e).d = s.d
<1>1. s \in Quiet(s0) /\ e \in QuietEvents
  BY DEF Unpressed, QuietEvents
<1>2. Happens(s, e) \in Quiet(s0) /\ Happens(s, e).d = s.d
  BY <1>1, QuietTells
<1> QED BY <1>2 DEF Unpressed

LEMMA UnpressedMoves ==
  ASSUME NEW s0 \in Sims, NEW s \in Unpressed(s0), NEW d \in Dots,
         d.cool = s.d.cool, d.immune = s.d.immune, d.volleys = s.d.volleys, d.pending = s.d.pending
  PROVE  [s EXCEPT !.d = d] \in Unpressed(s0) /\ [s EXCEPT !.d = d].d = d
<1>1. s \in Quiet(s0)
  BY DEF Unpressed
<1>2. [s EXCEPT !.d = d] \in Quiet(s0) /\ [s EXCEPT !.d = d].d = d
  BY <1>1, QuietMoves
<1> QED BY <1>2 DEF Unpressed

\* d in the same place of a fight, as far as strikes go.
SameStrikes(d, d0) ==
  d.cool = d0.cool /\ d.immune = d0.immune /\ d.volleys = d0.volleys /\ d.pending = d0.pending

LEMMA StaggerDotIs ==
  ASSUME NEW d \in Dots
  PROVE  StaggerDot(d) \in Dots /\ SameStrikes(StaggerDot(d), d)
<1>1. "out" \in Places /\ StaggerSteps \in Nat
  BY DotAssumption DEF Places
<1> QED BY <1>1 DEF Dots, DotType, StaggerDot, SameStrikes

\* A blow.
LEMMA BlowUnpressed ==
  ASSUME NEW s0 \in Sims, NEW s \in Unpressed(s0), NEW b \in BlowKinds
  PROVE  Blow(s, b) \in Unpressed(s0)
<1> DEFINE d == s.d
           was == Staggered(d)
           staggers == b.staggers /\ ~was /\ d.immune = 0
           knocked == [d EXCEPT !.knocked = @ \/ (~was /\ b.kicks)]
           shaken == IF b.wobbles THEN add_debuff(knocked) ELSE knocked
           hit == Happens([s EXCEPT !.d = shaken], BlowEvent(IF was THEN "staggered" ELSE "hit"))
<1>0. s \in Sims /\ s.d \in Dots /\ s.d.immune = s0.d.immune
  BY DEF Unpressed, Quiet, Sims
<1>1. \A r \in BlowResults : BlowEvent(r) \in OtherEvents /\ BlowEvent(r).type = "blow"
  BY DEF BlowEvent, OtherEvents
<1>2. /\ Plain("steadied") \in OtherEvents /\ Plain("steadied").type = "steadied"
      /\ StaggerEvent("blow") \in OtherEvents /\ StaggerEvent("blow").type = "stagger"
  BY DEF Plain, StaggerEvent, OtherEvents
<1>3. shaken \in Dots /\ SameStrikes(shaken, s.d)
  <2>1. knocked \in Dots /\ SameStrikes(knocked, s.d)
    <3>1. (d.knocked \/ (~was /\ b.kicks)) \in BOOLEAN
      BY <1>0 DEF Dots, DotType, BlowKinds, Staggered
    <3> QED BY <1>0, <3>1 DEF Dots, DotType, SameStrikes
  <2>2. add_debuff(knocked) \in Dots /\ SameStrikes(add_debuff(knocked), s.d)
    <3> HIDE DEF knocked
    <3> QED BY <2>1, DotAssumption DEF add_debuff, Dots, DotType, SameStrikes
  <2> HIDE DEF knocked
  <2> QED BY <2>1, <2>2
<1>4. hit \in Unpressed(s0) /\ hit.d = shaken
  <2> HIDE DEF shaken
  <2>1. [s EXCEPT !.d = shaken] \in Unpressed(s0) /\ [s EXCEPT !.d = shaken].d = shaken
    BY <1>3, UnpressedMoves DEF SameStrikes
  <2>2. (IF was THEN "staggered" ELSE "hit") \in BlowResults
    BY DEF BlowResults
  <2> HIDE DEF was
  <2> QED BY <1>1, <2>1, <2>2, UnpressedTells
<1>5. \A r \in BlowResults : Happens(s, BlowEvent(r)) \in Unpressed(s0)
  BY <1>1, UnpressedTells
<1>6. Happens([hit EXCEPT !.d.steadied = TRUE], Plain("steadied")) \in Unpressed(s0)
  <2> DEFINE d1 == [hit.d EXCEPT !.steadied = TRUE]
  <2> HIDE DEF shaken, hit
  <2>1. d1 \in Dots /\ SameStrikes(d1, hit.d)
    BY <1>3, <1>4 DEF Dots, DotType, SameStrikes
  <2> HIDE DEF d1
  <2>2. [hit EXCEPT !.d = d1] \in Unpressed(s0)
    BY <1>4, <2>1, UnpressedMoves DEF SameStrikes
  <2>3. [hit EXCEPT !.d.steadied = TRUE] = [hit EXCEPT !.d = d1]
    BY DEF d1
  <2> QED BY <1>2, <2>2, <2>3, UnpressedTells
<1>7. staggers => Happens([hit EXCEPT !.d = StaggerDot(hit.d)], StaggerEvent("blow")) \in Unpressed(s0)
  <2> HIDE DEF shaken, hit
  <2> SUFFICES ASSUME staggers
               PROVE  Happens([hit EXCEPT !.d = StaggerDot(hit.d)], StaggerEvent("blow")) \in Unpressed(s0)
    OBVIOUS
  <2>1. StaggerDot(hit.d) \in Dots /\ SameStrikes(StaggerDot(hit.d), hit.d)
    BY <1>3, <1>4, StaggerDotIs
  <2>2. [hit EXCEPT !.d = StaggerDot(hit.d)] \in Unpressed(s0)
    BY <1>4, <2>1, UnpressedMoves DEF SameStrikes
  <2> QED BY <1>0, <1>2, <2>2, UnpressedTells
<1>8. "parting" \in BlowResults /\ "dodge" \in BlowResults
      /\ (IF d.braced <= PerfectSteps THEN "perfect_block" ELSE "block") \in BlowResults
  BY DEF BlowResults
<1>9. CASE b.parting
  BY <1>5, <1>8, <1>9 DEF Blow
<1>10. CASE ~b.parting /\ d.invuln > 0 /\ b.defend \in {"both", "dodge"}
  BY <1>5, <1>8, <1>10 DEF Blow
<1>11. CASE ~b.parting /\ ~(d.invuln > 0 /\ b.defend \in {"both", "dodge"})
            /\ d.blocking /\ ~was /\ b.defend \in {"both", "block"}
  BY <1>5, <1>8, <1>11 DEF Blow
<1>12. CASE ~b.parting /\ ~(d.invuln > 0 /\ b.defend \in {"both", "dodge"})
            /\ ~(d.blocking /\ ~was /\ b.defend \in {"both", "block"})
  <2>1. Blow(s, b) = IF ~staggers THEN hit
                     ELSE IF SteadyHands(d) THEN Happens([hit EXCEPT !.d.steadied = TRUE], Plain("steadied"))
                     ELSE Happens([hit EXCEPT !.d = StaggerDot(hit.d)], StaggerEvent("blow"))
    BY <1>12 DEF Blow
  <2> HIDE DEF hit, staggers, d
  <2> QED BY <1>4, <1>6, <1>7, <2>1
<1> QED BY <1>9, <1>10, <1>11, <1>12

\* A step's blows.
LEMMA BlowsUnpressed ==
  ASSUME NEW s0 \in Sims, NEW blows \in Seq(BlowKinds)
  PROVE  BlowsMet(s0, blows) \in Unpressed(s0)
<1> DEFINE X == Unpressed(s0)
<1>1. s0 \in X /\ \A x \in X, b \in BlowKinds : Blow(x, b) \in X
  BY QuietSame, BlowUnpressed DEF Unpressed
<1> HIDE DEF X
<1>2. PICK g : BlowTrace(g, X, s0, blows)
  BY <1>1, BlowRun
<1>3. g \in [0..Len(blows) -> X] /\ BlowsMet(s0, blows) = g[Len(blows)] /\ Len(blows) \in Nat
  BY <1>2 DEF BlowTrace
<1> QED BY <1>3 DEF X

LEMMA RimUnpressed ==
  ASSUME NEW s0 \in Sims, NEW s \in Unpressed(s0)
  PROVE  Rim(s) \in Unpressed(s0)
<1> DEFINE out == [s.d EXCEPT !.at = "out"]
           steadied == [s.d EXCEPT !.at = "out", !.steadied = TRUE]
<1>0. s \in Sims /\ s.d \in Dots /\ s.d.immune = s0.d.immune /\ s0.d.immune \in Nat /\ "out" \in Places
  BY DEF Unpressed, Quiet, Sims, Dots, DotType, Places
<1>1. /\ Plain("steadied") \in OtherEvents /\ Plain("steadied").type = "steadied"
      /\ StaggerEvent("rim") \in OtherEvents /\ StaggerEvent("rim").type = "stagger"
  BY DEF Plain, StaggerEvent, OtherEvents
<1>2. out \in Dots /\ SameStrikes(out, s.d) /\ steadied \in Dots /\ SameStrikes(steadied, s.d)
  BY <1>0 DEF Dots, DotType, SameStrikes
<1>3. /\ [s EXCEPT !.d.at = "out"] = [s EXCEPT !.d = out]
      /\ [s EXCEPT !.d.at = "out", !.d.steadied = TRUE] = [s EXCEPT !.d = steadied]
      /\ [s EXCEPT !.d = StaggerDot(@)] = [s EXCEPT !.d = StaggerDot(s.d)]
  BY <1>0 DEF Sims, Dots, DotType
<1> HIDE DEF out, steadied
<1>4. [s EXCEPT !.d = out] \in Unpressed(s0) /\ [s EXCEPT !.d = steadied] \in Unpressed(s0)
  BY <1>2, UnpressedMoves DEF SameStrikes
<1>5. [s EXCEPT !.d = StaggerDot(s.d)] \in Unpressed(s0)
  BY <1>0, StaggerDotIs, UnpressedMoves DEF SameStrikes
<1>6. Happens([s EXCEPT !.d = steadied], Plain("steadied")) \in Unpressed(s0)
  BY <1>1, <1>4, UnpressedTells
<1>7. s.d.immune = 0 => Happens([s EXCEPT !.d = StaggerDot(s.d)], StaggerEvent("rim")) \in Unpressed(s0)
  BY <1>0, <1>1, <1>5, UnpressedTells
<1> QED BY <1>0, <1>3, <1>4, <1>6, <1>7 DEF Rim

LEMMA InsideUnpressed ==
  ASSUME NEW s0 \in Sims, NEW s \in Unpressed(s0)
  PROVE  Inside(s) \in Unpressed(s0)
<1> DEFINE now == ~Staggered(s.d) /\ InCore(s.d)
           back == now /\ ~s.d.inside /\ s.d.knocked
           d == [s.d EXCEPT !.inside = now, !.knocked = @ /\ ~back]
           moved == [s EXCEPT !.d.inside = now, !.d.knocked = @ /\ ~back]
<1>0. s \in Sims /\ s.d \in Dots
  BY DEF Unpressed, Quiet, Sims
<1>1. now \in BOOLEAN /\ (s.d.knocked /\ ~back) \in BOOLEAN
  BY <1>0 DEF Dots, DotType, Staggered, InCore
<1> HIDE DEF now, back
<1>2. d \in Dots /\ SameStrikes(d, s.d)
  BY <1>0, <1>1 DEF Dots, DotType, SameStrikes
<1>3. moved = [s EXCEPT !.d = d]
  BY <1>0 DEF Sims, Dots, DotType
<1>4. moved \in Unpressed(s0)
  <2> HIDE DEF d, moved
  <2> QED BY <1>2, <1>3, UnpressedMoves DEF SameStrikes
<1>5. Plain("second_wind") \in OtherEvents /\ Plain("second_wind").type = "second_wind"
  BY DEF Plain, OtherEvents
<1>6. Inside(s) = IF back /\ "second_wind" \in Perks THEN Happens(moved, Plain("second_wind")) ELSE moved
  BY DEF Inside, now, back
<1> HIDE DEF moved
<1> QED BY <1>4, <1>5, <1>6, UnpressedTells

LEMMA PhysicsUnpressed ==
  ASSUME NEW s0 \in Sims, NEW to \in Goes
  PROVE  Physics(s0, to) \in Unpressed(s0)
<1> DEFINE where == IF to = "rim" THEN "out" ELSE to
           still == [s0.d EXCEPT !.at = where, !.inside = FALSE]
           there == [s0.d EXCEPT !.at = to]
<1>0. s0.d \in Dots /\ where \in Places /\ (to # "rim" => to \in Places)
  BY BalanceAssumption DEF Sims, Places
<1>1. s0 \in Unpressed(s0)
  BY QuietSame DEF Unpressed
<1>2. still \in Dots /\ SameStrikes(still, s0.d)
  BY <1>0 DEF Dots, DotType, SameStrikes
<1>3. to # "rim" => there \in Dots /\ SameStrikes(there, s0.d)
  BY <1>0 DEF Dots, DotType, SameStrikes
<1>4. [s0 EXCEPT !.d.at = IF to = "rim" THEN "out" ELSE to, !.d.inside = FALSE] = [s0 EXCEPT !.d = still]
      /\ [s0 EXCEPT !.d.at = to] = [s0 EXCEPT !.d = there]
  BY <1>0 DEF Sims, Dots, DotType
<1> HIDE DEF still, there
<1>5. [s0 EXCEPT !.d = still] \in Unpressed(s0)
  BY <1>1, <1>2, UnpressedMoves DEF SameStrikes
<1>6. to # "rim" => [s0 EXCEPT !.d = there] \in Unpressed(s0)
  BY <1>1, <1>3, UnpressedMoves DEF SameStrikes
<1>7. to = "rim" => Rim(s0) \in Unpressed(s0)
  BY <1>1, RimUnpressed
<1>8. \A s \in Unpressed(s0) : Inside(s) \in Unpressed(s0)
  BY InsideUnpressed
<1>9. CASE Staggered(s0.d)
  BY <1>4, <1>5, <1>9 DEF Physics
<1>10. CASE ~Staggered(s0.d) /\ to = "rim"
  BY <1>7, <1>8, <1>10 DEF Physics
<1>11. CASE ~Staggered(s0.d) /\ to # "rim"
  BY <1>4, <1>6, <1>8, <1>11 DEF Physics
<1> QED BY <1>9, <1>10, <1>11

-----------------------------------------------------------------------------
(* What the others do: timers, the held strike, volleys. *)

LEMMA StepIs == Step \in Nat /\ Step >= 1 /\ AtLeast(1, Gap) = Step
BY DotAssumption DEF Step, AtLeast

\* The timers.
LEMMA TimersIs ==
  ASSUME NEW d \in Dots
  PROVE  /\ Timers(d) \in Sims
         /\ Timers(d).d.cool = [s \in Slots |-> CountDown(d.cool[s])]
         /\ Timers(d).d.volleys = d.volleys /\ Timers(d).d.pending = d.pending
         /\ Timers(d).d.immune = IF Happened(Timers(d).ev, "recover") THEN ImmuneSteps ELSE CountDown(d.immune)
         /\ Struck(Timers(d).ev) = {} /\ Answers(Timers(d).ev) = {} /\ ~Happened(Timers(d).ev, "stagger")
<1> DEFINE dodged == d.invuln = 1 /\ d.wobble_after
           recovers == d.stagger = 1
           w == IF dodged THEN add_debuff(d) ELSE d
           ev == IF recovers THEN <<Plain("recover")>> ELSE <<>>
           t == [w EXCEPT !.cool = [s \in Slots |-> CountDown(d.cool[s])],
                          !.dodge_cd = CountDown(@),
                          !.breath = CountDown(@),
                          !.invuln = CountDown(@),
                          !.wobble_after = @ /\ ~dodged,
                          !.wobble = CountDown(@),
                          !.stagger = CountDown(@),
                          !.immune = IF recovers THEN ImmuneSteps ELSE CountDown(@),
                          !.braced = IF @ > PerfectSteps THEN @ ELSE @ + 1]
<1>1. Timers(d) = [d |-> t, ev |-> ev]
  BY DEF Timers
<1>2. \A k \in Nat : CountDown(k) \in Nat
  BY DEF CountDown
<1>3. w \in Dots /\ SameStrikes(w, d) /\ w.volleys = d.volleys /\ w.pending = d.pending
  BY DotAssumption DEF add_debuff, Dots, DotType, SameStrikes
<1>4. dodged \in BOOLEAN
  BY DEF Dots, DotType
<1> HIDE DEF w, dodged
<1>5. t \in Dots
  <2>1. [s \in Slots |-> CountDown(d.cool[s])] \in [Slots -> Nat]
    BY <1>2 DEF Dots, DotType
  <2>2. (IF recovers THEN ImmuneSteps ELSE CountDown(w.immune)) \in Nat
    BY <1>2, <1>3, DotAssumption DEF Dots, DotType
  <2>3. (IF w.braced > PerfectSteps THEN w.braced ELSE w.braced + 1) \in 0..(PerfectSteps + 1)
    <3>1. w.braced \in 0..(PerfectSteps + 1) /\ PerfectSteps \in Nat
      BY <1>3, DotAssumption DEF Dots, DotType
    <3> QED BY <3>1
  <2>4. (w.wobble_after /\ ~dodged) \in BOOLEAN
    BY <1>3, <1>4 DEF Dots, DotType
  <2>5. /\ CountDown(w.dodge_cd) \in Nat /\ CountDown(w.breath) \in Nat /\ CountDown(w.invuln) \in Nat
        /\ CountDown(w.wobble) \in Nat /\ CountDown(w.stagger) \in Nat
    <3>1. {w.dodge_cd, w.breath, w.invuln, w.wobble, w.stagger} \subseteq Nat
      BY <1>3 DEF Dots, DotType
    <3> QED BY <1>2, <3>1
  <2> DEFINE im == IF recovers THEN ImmuneSteps ELSE CountDown(w.immune)
             br == IF w.braced > PerfectSteps THEN w.braced ELSE w.braced + 1
             wa == w.wobble_after /\ ~dodged
             co == [s \in Slots |-> CountDown(d.cool[s])]
  <2>6. t = [w EXCEPT !.cool = co, !.dodge_cd = CountDown(w.dodge_cd), !.breath = CountDown(w.breath),
                      !.invuln = CountDown(w.invuln), !.wobble_after = wa, !.wobble = CountDown(w.wobble),
                      !.stagger = CountDown(w.stagger), !.immune = im, !.braced = br]
    BY DEF t
  <2>7. co \in [Slots -> Nat] /\ im \in Nat /\ br \in 0..(PerfectSteps + 1) /\ wa \in BOOLEAN
    BY <2>1, <2>2, <2>3, <2>4
  <2> HIDE DEF im, br, wa, co, t
  <2>8. t \in DotType /\ t.pending = w.pending /\ t.volleys = w.volleys
    <3>1. w \in DotType
      BY <1>3 DEF Dots
    <3> QED BY <2>5, <2>6, <2>7, <3>1 DEF DotType
  <2> QED BY <1>3, <2>8 DEF Dots
<1>6. /\ t.cool = [s \in Slots |-> CountDown(d.cool[s])] /\ t.volleys = w.volleys /\ t.pending = w.pending
      /\ t.immune = IF recovers THEN ImmuneSteps ELSE CountDown(w.immune)
  BY <1>3 DEF Dots, DotType
<1>7. Plain("recover") \in Events /\ Plain("recover").type = "recover"
  BY DEF Plain, Events, OtherEvents
<1>8. ev \in Seq(Events) /\ ToSet(ev) = IF recovers THEN {Plain("recover")} ELSE {}
  BY <1>7 DEF ToSet
<1> HIDE DEF ev, t, recovers
<1>9. /\ Struck(ev) = {} /\ Answers(ev) = {} /\ ~Happened(ev, "stagger")
      /\ Happened(ev, "recover") <=> recovers
  BY <1>7, <1>8 DEF Struck, FirstHits, Answers, Happened
<1>10. Timers(d).d = t /\ Timers(d).ev = ev /\ Timers(d) \in Sims
  BY <1>1, <1>5, <1>8 DEF Sims
<1> QED BY <1>3, <1>6, <1>9, <1>10 DEF SameStrikes

\* A strike is told.
LEMMA StrikeTold ==
  ASSUME NEW s \in Sims, NEW e \in StrikeEvents
  PROVE  /\ Happens(s, e) \in Sims /\ Happens(s, e).d = s.d
         /\ Struck(Happens(s, e).ev) = Struck(s.ev) \union {e}
         /\ Answers(Happens(s, e).ev) = Answers(s.ev) \union {x \in {e} : x.hit = 1}
         /\ Happened(Happens(s, e).ev, "recover") <=> Happened(s.ev, "recover")
         /\ Happened(Happens(s, e).ev, "stagger") <=> Happened(s.ev, "stagger")
<1>1. e \in Events /\ e.type = "strike"
  BY DEF Events, StrikeEvents
<1>2. Happens(s, e) \in Sims /\ Happens(s, e).d = s.d /\ ToSet(Happens(s, e).ev) = ToSet(s.ev) \union {e}
  BY <1>1, HappensIs
<1>3. Struck(Happens(s, e).ev) = Struck(s.ev) \union {e}
  BY <1>1, <1>2 DEF Struck
<1>4. FirstHits(Happens(s, e).ev) = FirstHits(s.ev) \union {x \in {e} : x.hit = 1}
  BY <1>3 DEF FirstHits
<1>5. {x \in ToSet(Happens(s, e).ev) : x.type = "refused" /\ x.act = "strike"}
      = {x \in ToSet(s.ev) : x.type = "refused" /\ x.act = "strike"}
  BY <1>1, <1>2
<1> QED BY <1>1, <1>2, <1>3, <1>4, <1>5 DEF Answers, Happened

\* The rest of a fight, as a volley leaves it.
SameRest(s, s0) ==
  /\ s.d.cool = s0.d.cool /\ s.d.immune = s0.d.immune /\ s.d.pending = s0.d.pending
  /\ Answers(s.ev) = Answers(s0.ev)
  /\ Happened(s.ev, "recover") <=> Happened(s0.ev, "recover")
  /\ Happened(s.ev, "stagger") <=> Happened(s0.ev, "stagger")

\* What a volley does in a step: land a hit, wait or go on.
Lands(v) == v.left = 1
GoesOn(v) == ~Lands(v) \/ v.hit < Hits[v.slot]
After(v) == IF Lands(v) THEN [v EXCEPT !.hit = @ + 1, !.left = Step] ELSE [v EXCEPT !.left = @ - 1]

\* What becomes of some volleys, and the hits they land.
Going(vs) == {After(v) : v \in {w \in vs : GoesOn(w)}}
Landed(vs) == {StrikeEvent(v, v.hit) : v \in {w \in vs : Lands(w)}}

LEMMA RunningIs ==
  ASSUME NEW v \in Running
  PROVE  /\ v.slot \in Slots /\ v.target \in Targets /\ v.tier \in {0, 2} /\ v.press \in Nat
         /\ v.hit \in Nat /\ v.hit >= 2 /\ v.hit <= Hits[v.slot] /\ Hits[v.slot] \in Nat
         /\ v.left \in Nat /\ v.left >= 1 /\ v.left <= Step
         /\ StrikeEvent(v, v.hit) \in StrikeEvents /\ StrikeEvent(v, v.hit).hit = v.hit
         /\ GoesOn(v) => After(v) \in Running
<1>1. /\ v.slot \in Slots /\ v.target \in Targets /\ v.tier \in {0, 2} /\ v.press \in Nat
      /\ v.hit \in Nat /\ v.left \in Nat /\ v.hit \in 2..Hits[v.slot] /\ v.left \in 1..Step
  BY DEF Running, VolleyType
<1>2. Hits[v.slot] \in Nat
  BY <1>1, DotAssumption
<1>3. StrikeEvent(v, v.hit) \in StrikeEvents /\ StrikeEvent(v, v.hit).hit = v.hit
  BY <1>1 DEF StrikeEvent, StrikeEvents
<1>4. GoesOn(v) /\ Lands(v) => After(v) \in Running
  <2> SUFFICES ASSUME GoesOn(v), Lands(v) PROVE After(v) \in Running
    OBVIOUS
  <2>1. v.hit + 1 \in 2..Hits[v.slot] /\ Step \in 1..Step /\ v.hit + 1 \in Nat /\ Step \in Nat
    BY <1>1, <1>2, StepIs DEF GoesOn
  <2>2. After(v) = [v EXCEPT !.hit = v.hit + 1, !.left = Step]
    BY DEF After
  <2>3. After(v) \in VolleyType /\ After(v).slot = v.slot /\ After(v).hit = v.hit + 1 /\ After(v).left = Step
    BY <2>1, <2>2 DEF Running, VolleyType
  <2> QED BY <2>1, <2>3 DEF Running
<1>5. ~Lands(v) => After(v) \in Running
  <2> SUFFICES ASSUME ~Lands(v) PROVE After(v) \in Running
    OBVIOUS
  <2>1. v.left - 1 \in 1..Step /\ v.left - 1 \in Nat
    BY <1>1, StepIs DEF Lands
  <2>2. After(v) = [v EXCEPT !.left = v.left - 1]
    BY DEF After
  <2>3. After(v) \in VolleyType /\ After(v).slot = v.slot /\ After(v).hit = v.hit /\ After(v).left = v.left - 1
    BY <2>1, <2>2 DEF Running, VolleyType
  <2> QED BY <1>1, <2>1, <2>3 DEF Running
<1> QED BY <1>1, <1>2, <1>3, <1>4, <1>5, StepIs DEF GoesOn

LEMMA KickIs ==
  ASSUME NEW d \in Dots, NEW slot
  PROVE  apply_kick(d, slot) \in Dots /\ SameStrikes(apply_kick(d, slot), d)
<1>1. (d.knocked \/ slot \in Kicking) \in BOOLEAN
  BY DEF Dots, DotType
<1> QED BY <1>1 DEF apply_kick, Dots, DotType, SameStrikes

\* A dot with other volleys.
LEMMA WithVolleys ==
  ASSUME NEW d \in Dots, NEW vs \in Seq(Running)
  PROVE  LET w == [d EXCEPT !.volleys = vs]
         IN w \in Dots /\ w.volleys = vs /\ w.cool = d.cool /\ w.immune = d.immune /\ w.pending = d.pending
<1>1. vs \in Seq([slot : Slots, target : Targets, tier : {0, 2}, hit : Nat, left : Nat, press : Nat])
  <2>1. Running \subseteq VolleyType
    BY DEF Running
  <2>2. vs \in Seq(VolleyType)
    BY <2>1, SeqMonotonic
  <2> QED BY <2>2 DEF VolleyType
<1> QED BY <1>1 DEF Dots, DotType

LEMMA VolleyStepIs ==
  ASSUME NEW s \in Sims, NEW v \in Running
  PROVE  LET r == VolleyStep(s, v)
         IN /\ r \in Sims /\ SameRest(r, s)
            /\ ToSet(r.d.volleys) = ToSet(s.d.volleys) \union Going({v})
            /\ Struck(r.ev) = Struck(s.ev) \union Landed({v})
<1> DEFINE r == VolleyStep(s, v)
           vs == s.d.volleys
           on == IF GoesOn(v) THEN Append(vs, After(v)) ELSE vs
           d == [s.d EXCEPT !.volleys = on]
           e == StrikeEvent(v, v.hit)
<1>0. s.d \in Dots /\ s.ev \in Seq(Events) /\ vs \in Seq(Running)
  BY DEF Sims, Dots
<1>1. on \in Seq(Running) /\ ToSet(on) = ToSet(vs) \union Going({v})
  <2>1. GoesOn(v) => Append(vs, After(v)) \in Seq(Running) /\ ToSet(Append(vs, After(v))) = ToSet(vs) \union {After(v)}
    BY <1>0, RunningIs, AppendSet
  <2>2. Going({v}) = IF GoesOn(v) THEN {After(v)} ELSE {}
    BY DEF Going
  <2> QED BY <1>0, <2>1, <2>2
<1> HIDE DEF on
<1>2. d \in Dots /\ d.volleys = on /\ d.cool = s.d.cool /\ d.immune = s.d.immune /\ d.pending = s.d.pending
  BY <1>0, <1>1, WithVolleys
<1> HIDE DEF d
<1>3. ASSUME NEW x \in Dots PROVE /\ [s EXCEPT !.d = x] \in Sims /\ [s EXCEPT !.d = x].d = x
                                  /\ [s EXCEPT !.d = x].ev = s.ev
  BY <1>0 DEF Sims
<1>4. CASE ~Lands(v)
  <2>1. v.left > 1 /\ GoesOn(v) /\ After(v) = [v EXCEPT !.left = @ - 1]
    <3>1. v.left \in Nat /\ v.left >= 1
      BY RunningIs
    <3> QED BY <1>4, <3>1 DEF Lands, GoesOn, After
  <2>2. on = Append(vs, [v EXCEPT !.left = @ - 1])
    BY <2>1 DEF on
  <2>3. r = [s EXCEPT !.d = d]
    BY <2>1, <2>2 DEF VolleyStep, d
  <2> HIDE DEF r
  <2>4. r \in Sims /\ r.d = d /\ r.ev = s.ev
    BY <1>2, <1>3, <2>3
  <2>5. Landed({v}) = {}
    BY <1>4 DEF Landed
  <2> QED BY <1>1, <1>2, <2>4, <2>5 DEF SameRest, r
<1>5. CASE Lands(v)
  <2>1. ~(v.left > 1) /\ After(v) = [v EXCEPT !.hit = @ + 1, !.left = AtLeast(1, Gap)]
    <3>1. Step = AtLeast(1, Gap)
      BY StepIs
    <3> QED BY <1>5, <3>1 DEF Lands, After
  <2>2. on = IF v.hit < Hits[v.slot] THEN Append(vs, [v EXCEPT !.hit = @ + 1, !.left = AtLeast(1, Gap)]) ELSE vs
    BY <1>5, <2>1 DEF on, GoesOn
  <2> DEFINE k == apply_kick(d, v.slot)
             t == [s EXCEPT !.d = k]
  <2>3. r = Happens(t, e)
    BY <2>1, <2>2 DEF VolleyStep, d
  <2>4. k \in Dots /\ SameStrikes(k, d)
    BY <1>2, KickIs
  <2> HIDE DEF k
  <2>5. t \in Sims /\ t.d = k /\ t.ev = s.ev
    BY <1>3, <2>4
  <2> HIDE DEF t, r
  <2>6. e \in StrikeEvents /\ e.hit # 1
    BY RunningIs
  <2> HIDE DEF e
  <2>7. /\ r \in Sims /\ r.d = k
        /\ Struck(r.ev) = Struck(s.ev) \union {e}
        /\ Answers(r.ev) = Answers(s.ev)
        /\ Happened(r.ev, "recover") <=> Happened(s.ev, "recover")
        /\ Happened(r.ev, "stagger") <=> Happened(s.ev, "stagger")
    <3>1. {x \in {e} : x.hit = 1} = {}
      BY <2>6
    <3>2. /\ Happens(t, e) \in Sims /\ Happens(t, e).d = t.d
          /\ Struck(Happens(t, e).ev) = Struck(t.ev) \union {e}
          /\ Answers(Happens(t, e).ev) = Answers(t.ev) \union {x \in {e} : x.hit = 1}
          /\ Happened(Happens(t, e).ev, "recover") <=> Happened(t.ev, "recover")
          /\ Happened(Happens(t, e).ev, "stagger") <=> Happened(t.ev, "stagger")
      BY <2>5, <2>6, StrikeTold
    <3> QED BY <2>3, <2>5, <3>1, <3>2
  <2>8. SameRest(r, s) /\ r.d.volleys = on
    BY <1>2, <2>4, <2>7 DEF SameRest, SameStrikes
  <2>9. Landed({v}) = {e}
    BY <1>5 DEF e, Landed
  <2> QED BY <1>1, <2>7, <2>8, <2>9 DEF r
<1> QED BY <1>4, <1>5


LEMMA GoingBoth ==
  ASSUME NEW vs, NEW ws
  PROVE  Going(vs \union ws) = Going(vs) \union Going(ws) /\ Landed(vs \union ws) = Landed(vs) \union Landed(ws)
<1>1. \A x : x \in Going(vs \union ws) <=> x \in Going(vs) \union Going(ws)
  BY DEF Going
<1>2. \A x : x \in Landed(vs \union ws) <=> x \in Landed(vs) \union Landed(ws)
  BY DEF Landed
<1> QED BY <1>1, <1>2

\* A step's volleys.
LEMMA VolleysIs ==
  ASSUME NEW s \in Sims
  PROVE  /\ Volleys(s) \in Sims /\ SameRest(Volleys(s), s)
         /\ ToSet(Volleys(s).d.volleys) = Going(ToSet(s.d.volleys))
         /\ Struck(Volleys(s).ev) = Struck(s.ev) \union Landed(ToSet(s.d.volleys))
<1> DEFINE q == s.d.volleys
           b == [s EXCEPT !.d.volleys = <<>>]
           e == [s.d EXCEPT !.volleys = <<>>]
           Q(i) == {q[j] : j \in 1..i}
           Is(x, i) == /\ SameRest(x, s)
                       /\ ToSet(x.d.volleys) = Going(Q(i))
                       /\ Struck(x.ev) = Struck(s.ev) \union Landed(Q(i))
<1>1. s.d \in Dots /\ s.ev \in Seq(Events) /\ q \in Seq(Running) /\ Len(q) \in Nat /\ DOMAIN q = 1..Len(q)
  BY DEF Sims, Dots
<1>2. e \in Dots /\ e.volleys = <<>> /\ e.cool = s.d.cool /\ e.immune = s.d.immune /\ e.pending = s.d.pending
  <2>1. <<>> \in Seq(Running)
    OBVIOUS
  <2> QED BY <1>1, <2>1, WithVolleys
<1>3. b = [d |-> e, ev |-> s.ev]
  <2>1. b = [s EXCEPT !.d = e]
    OBVIOUS
  <2> HIDE DEF b, e
  <2> QED BY <2>1 DEF Sims
<1> HIDE DEF b, e
<1>4. b \in Sims /\ b.d = e /\ b.ev = s.ev
  BY <1>1, <1>2, <1>3 DEF Sims
<1>5. \A x \in Sims, v \in Running : VolleyStep(x, v) \in Sims
  BY VolleyStepIs
<1>6. PICK g : VolleyTrace(g, Sims, b, q)
  BY <1>1, <1>4, <1>5, VolleyRun
<1>7. /\ g \in [0..Len(q) -> Sims] /\ g[0] = b
      /\ \A i \in 1..Len(q) : g[i] = VolleyStep(g[i - 1], q[i])
      /\ FoldLeft(VolleyStep, b, q) = g[Len(q)]
  BY <1>6 DEF VolleyTrace
<1>8. Is(g[0], 0)
  <2>1. Q(0) = {}
    <3>1. 1..0 = {}
      OBVIOUS
    <3> QED BY <3>1
  <2>2. ToSet(<<>>) = {} /\ Going({}) = {} /\ Landed({}) = {}
    BY DEF ToSet, Going, Landed
  <2> HIDE DEF Q
  <2> QED BY <1>2, <1>4, <1>7, <2>1, <2>2 DEF SameRest
<1>9. ASSUME NEW i \in 1..Len(q), Is(g[i - 1], i - 1) PROVE Is(g[i], i)
  <2>1. i \in Nat /\ i - 1 \in 0..Len(q) /\ q[i] \in Running
    BY <1>1
  <2>2. g[i - 1] \in Sims /\ g[i] = VolleyStep(g[i - 1], q[i])
    BY <1>7, <2>1
  <2>3. /\ SameRest(g[i], g[i - 1])
        /\ ToSet(g[i].d.volleys) = ToSet(g[i - 1].d.volleys) \union Going({q[i]})
        /\ Struck(g[i].ev) = Struck(g[i - 1].ev) \union Landed({q[i]})
    BY <2>1, <2>2, VolleyStepIs
  <2>4. Q(i) = Q(i - 1) \union {q[i]}
    <3>1. 1..i = (1..(i - 1)) \union {i}
      BY <2>1
    <3> QED BY <3>1
  <2> HIDE DEF Q, q
  <2>5. Going(Q(i)) = Going(Q(i - 1)) \union Going({q[i]}) /\ Landed(Q(i)) = Landed(Q(i - 1)) \union Landed({q[i]})
    BY <2>4, GoingBoth, ZenonT(60)
  <2>6. SameRest(g[i], s)
    BY <1>9, <2>3 DEF SameRest
  <2> QED BY <1>9, <2>3, <2>5, <2>6
<1> DEFINE H == {i \in 0..Len(q) : Is(g[i], i)}
<1>10. Is(g[Len(q)], Len(q))
  <2> HIDE DEF Is
  <2>1. 0 \in H /\ \A i \in 1..Len(q) : i - 1 \in H => i \in H
    BY <1>1, <1>8, <1>9
  <2>2. H \in SUBSET (0..Len(q))
    OBVIOUS
  <2>3. H = 0..Len(q)
    <3> HIDE DEF H
    <3> QED BY <1>1, <2>1, <2>2, AtEachPlace
  <2> QED BY <1>1, <2>3
<1>11. Q(Len(q)) = ToSet(q)
  BY <1>1 DEF ToSet
<1>12. Volleys(s) = g[Len(q)] /\ g[Len(q)] \in Sims
  BY <1>1, <1>7 DEF Volleys, b
<1> HIDE DEF Q
<1> QED BY <1>10, <1>11, <1>12

\* The first hit of a strike that is made.
LEMMA StrikeIs ==
  ASSUME NEW s \in Sims, NEW p \in Held
  PROVE  LET r == Strike(s, p)
             v == Volley(p, tier(s.d))
         IN /\ r \in Sims
            /\ r.d.pending = NoPress /\ r.d.immune = s.d.immune
            /\ \A k \in Slots : r.d.cool[k] = IF k = p.slot THEN AtLeast(Cooldown[k], GlobalCooldown)
                                              ELSE IF k \in Filled THEN AtLeast(s.d.cool[k], GlobalCooldown)
                                              ELSE s.d.cool[k]
            /\ StrikeEvent(v, 1) \in StrikeEvents
            /\ Hits[p.slot] > 1 => v \in Running /\ ToSet(r.d.volleys) = ToSet(s.d.volleys) \union {v}
            /\ ~(Hits[p.slot] > 1) => r.d.volleys = s.d.volleys
            /\ Struck(r.ev) = Struck(s.ev) \union {StrikeEvent(v, 1)}
            /\ Answers(r.ev) # {}
            /\ Happened(r.ev, "recover") <=> Happened(s.ev, "recover")
            /\ Happened(r.ev, "stagger") <=> Happened(s.ev, "stagger")
<1> DEFINE r == Strike(s, p)
           v == Volley(p, tier(s.d))
           e == StrikeEvent(v, 1)
           vs == s.d.volleys
           on == IF Hits[p.slot] > 1 THEN Append(vs, v) ELSE vs
           Cool(k) == IF k = p.slot THEN AtLeast(Cooldown[p.slot], GlobalCooldown)
                      ELSE IF k \in Filled THEN AtLeast(s.d.cool[k], GlobalCooldown) ELSE s.d.cool[k]
           cool == [k \in Slots |-> Cool(k)]
           breath == IF v.tier = 2 /\ "long_breath" \in Perks THEN BreathSteps ELSE s.d.breath
           d == [s.d EXCEPT !.pending = NoPress, !.breath = breath, !.cool = cool, !.volleys = on]
           k1 == apply_kick(d, p.slot)
           t == [s EXCEPT !.d = k1]
<1>1. s.d \in Dots /\ s.ev \in Seq(Events) /\ vs \in Seq(Running) /\ s.d \in DotType
  BY DEF Sims, Dots
<1>2. p.slot \in Slots /\ p.target \in Targets /\ p.left \in Nat /\ p.press \in Nat /\ Hits[p.slot] \in Nat
  BY DotAssumption DEF Held
<1>3. v = [slot |-> p.slot, target |-> p.target, tier |-> tier(s.d), hit |-> 2, left |-> Step, press |-> p.press]
      /\ v \in VolleyType /\ v.hit = 2 /\ v.left = Step /\ v.slot = p.slot
  <2>1. tier(s.d) \in {0, 2}
    BY DEF tier
  <2> QED BY <1>2, <2>1, StepIs DEF Volley, VolleyType
<1>4. e \in StrikeEvents /\ e.hit = 1
  BY <1>3 DEF StrikeEvent, StrikeEvents, VolleyType
<1>5. Hits[p.slot] > 1 => v \in Running
  BY <1>2, <1>3, StepIs DEF Running
<1> HIDE DEF v, e
<1>6. on \in Seq(Running) /\ (Hits[p.slot] > 1 => ToSet(on) = ToSet(vs) \union {v})
  BY <1>1, <1>5, AppendSet
<1>7. cool \in [Slots -> Nat]
  <2>1. \A k \in Slots : s.d.cool[k] \in Nat /\ Cooldown[k] \in Nat /\ GlobalCooldown \in Nat
    BY <1>1, DotAssumption DEF DotType
  <2>2. \A k \in Slots : Cool(k) \in Nat
    BY <2>1 DEF AtLeast
  <2> HIDE DEF Cool
  <2> QED BY <2>2
<1>8. breath \in Nat
  BY <1>1, DotAssumption DEF DotType
<1>9. NoPress \in HeldPress
  BY DEF NoPress, HeldPress
<1>10. r = Happens(t, e)
  BY DEF Strike, v, e
<1> HIDE DEF on, cool, breath, r
<1>11. d \in Dots /\ d.pending = NoPress /\ d.cool = cool /\ d.volleys = on /\ d.immune = s.d.immune
  <2> DEFINE d0 == [s.d EXCEPT !.pending = NoPress, !.breath = breath, !.cool = cool]
  <2>1. d0 \in DotType /\ d0.pending = NoPress /\ d0.volleys = vs /\ d0.cool = cool /\ d0.immune = s.d.immune
    BY <1>1, <1>7, <1>8, <1>9 DEF DotType
  <2>2. d = [d0 EXCEPT !.volleys = on]
    BY <1>1 DEF DotType
  <2> HIDE DEF d0
  <2>3. d0 \in Dots
    BY <1>1, <2>1 DEF Dots
  <2> QED BY <1>6, <2>1, <2>2, <2>3, WithVolleys
<1> HIDE DEF d
<1>12. k1 \in Dots /\ SameStrikes(k1, d)
  BY <1>11, KickIs
<1> HIDE DEF k1
<1>13. t \in Sims /\ t.d = k1 /\ t.ev = s.ev
  BY <1>1, <1>12 DEF Sims
<1> HIDE DEF t
<1>14. /\ r \in Sims /\ r.d = k1
       /\ Struck(r.ev) = Struck(s.ev) \union {e}
       /\ Answers(r.ev) = Answers(s.ev) \union {x \in {e} : x.hit = 1}
       /\ Happened(r.ev, "recover") <=> Happened(s.ev, "recover")
       /\ Happened(r.ev, "stagger") <=> Happened(s.ev, "stagger")
  <2>1. /\ Happens(t, e) \in Sims /\ Happens(t, e).d = t.d
        /\ Struck(Happens(t, e).ev) = Struck(t.ev) \union {e}
        /\ Answers(Happens(t, e).ev) = Answers(t.ev) \union {x \in {e} : x.hit = 1}
        /\ Happened(Happens(t, e).ev, "recover") <=> Happened(t.ev, "recover")
        /\ Happened(Happens(t, e).ev, "stagger") <=> Happened(t.ev, "stagger")
    BY <1>4, <1>13, StrikeTold
  <2> QED BY <1>10, <1>13, <2>1
<1>15. Answers(r.ev) # {}
  BY <1>4, <1>14
<1>16. r.d.pending = NoPress /\ r.d.immune = s.d.immune /\ r.d.cool = cool /\ r.d.volleys = on
  BY <1>11, <1>12, <1>14 DEF SameStrikes
<1>17. \A k \in Slots : cool[k] = IF k = p.slot THEN AtLeast(Cooldown[k], GlobalCooldown)
                                  ELSE IF k \in Filled THEN AtLeast(s.d.cool[k], GlobalCooldown)
                                  ELSE s.d.cool[k]
  BY DEF cool
<1>18. (Hits[p.slot] > 1 => ToSet(on) = ToSet(vs) \union {v}) /\ (~(Hits[p.slot] > 1) => on = vs)
  BY <1>6 DEF on
<1> QED BY <1>4, <1>5, <1>14, <1>15, <1>16, <1>17, <1>18 DEF r, v, e

\* A strike that was held and is made: its slot has gear, and cooled down.
Made(r, s) ==
  LET p == s.d.pending
      v == Volley(p, tier(s.d))
  IN /\ p \in Held /\ p.slot \in Filled /\ s.d.cool[p.slot] = 0
     /\ r.d.pending = NoPress /\ Answers(r.ev) # {}
     /\ \A k \in Slots : r.d.cool[k] = IF k = p.slot THEN AtLeast(Cooldown[k], GlobalCooldown)
                                       ELSE IF k \in Filled THEN AtLeast(s.d.cool[k], GlobalCooldown)
                                       ELSE s.d.cool[k]
     /\ StrikeEvent(v, 1) \in StrikeEvents
     /\ Struck(r.ev) = Struck(s.ev) \union {StrikeEvent(v, 1)}
     /\ Hits[p.slot] > 1 => v \in Running /\ ToSet(r.d.volleys) = ToSet(s.d.volleys) \union {v}
     /\ ~(Hits[p.slot] > 1) => r.d.volleys = s.d.volleys

\* None was held, or it was dropped or held one step less.
Unmade(r, s) ==
  LET p == s.d.pending
  IN /\ r.d.cool = s.d.cool /\ r.d.volleys = s.d.volleys /\ Struck(r.ev) = Struck(s.ev)
     /\ \/ p = NoPress /\ r.d.pending = NoPress /\ Answers(r.ev) = Answers(s.ev)
        \/ r.d.pending = NoPress /\ Answers(r.ev) # {}
        \/ /\ p \in Held /\ p.left # 0
           /\ r.d.pending = [p EXCEPT !.left = @ - 1] /\ Answers(r.ev) = Answers(s.ev)

\* The strike held in the buffer.
LEMMA PendingIs ==
  ASSUME NEW s \in Sims
  PROVE  LET r == Pending(s)
         IN /\ r \in Sims /\ r.d.immune = s.d.immune
            /\ Happened(r.ev, "recover") <=> Happened(s.ev, "recover")
            /\ Happened(r.ev, "stagger") <=> Happened(s.ev, "stagger")
            /\ Made(r, s) \/ Unmade(r, s)
<1> DEFINE p == s.d.pending
           why == strike_check(s.d, p.slot)
           r == Pending(s)
<1>1. s.d \in Dots /\ s.d \in DotType /\ s.ev \in Seq(Events) /\ p \in Held \union {NoPress}
  BY DEF Sims, Dots
<1>2. CASE p = NoPress
  <2>1. r = s
    BY <1>2 DEF Pending
  <2> HIDE DEF r
  <2> QED BY <1>2, <2>1 DEF Unmade, r
<1>3. CASE p # NoPress /\ why = "valid"
  <2>1. p \in Held
    BY <1>1, <1>3
  <2>2. p.slot \in Slots /\ s.d.cool[p.slot] \in Nat
    BY <1>1, <2>1 DEF Held, DotType
  <2>3. p.slot \in Filled /\ ~(s.d.cool[p.slot] > 0)
    <3>1. s.d.blocking \in BOOLEAN
      BY <1>1 DEF DotType
    <3> QED BY <1>3, <3>1 DEF strike_check
  <2>4. s.d.cool[p.slot] = 0
    BY <2>2, <2>3
  <2>5. r = Strike(s, p)
    BY <1>3 DEF Pending
  <2> HIDE DEF r
  <2>6. Made(r, s)
    BY <2>1, <2>3, <2>4, <2>5, StrikeIs DEF Made
  <2>7. /\ r \in Sims /\ r.d.immune = s.d.immune
        /\ Happened(r.ev, "recover") <=> Happened(s.ev, "recover")
        /\ Happened(r.ev, "stagger") <=> Happened(s.ev, "stagger")
    BY <2>1, <2>5, StrikeIs
  <2> QED BY <2>6, <2>7 DEF r
<1>4. CASE p # NoPress /\ why # "valid" /\ (why = "empty" \/ p.left = 0)
  <2> DEFINE d == [s.d EXCEPT !.pending = NoPress]
             t == [s EXCEPT !.d = d]
             e == Refused("strike", why, p.press)
  <2>1. r = Happens(t, e)
    BY <1>4 DEF Pending
  <2>2. d \in Dots /\ d.pending = NoPress /\ d.cool = s.d.cool /\ d.volleys = s.d.volleys /\ d.immune = s.d.immune
    <3>1. NoPress \in HeldPress
      BY DEF NoPress, HeldPress
    <3> QED BY <1>1, <3>1 DEF Dots, DotType
  <2> HIDE DEF d, r
  <2>3. t \in Sims /\ t.d = d /\ t.ev = s.ev
    BY <1>1, <2>2 DEF Sims
  <2>4. e \in Events /\ e.type = "refused" /\ e.act = "strike"
    <3>1. why \in Reasons
      BY <1>4 DEF strike_check, Reasons
    <3>2. p.press \in Nat
      BY <1>1 DEF Held, NoPress
    <3> HIDE DEF why
    <3> QED BY <3>1, <3>2 DEF Refused, Events, RefusedEvents
  <2> HIDE DEF t, e
  <2>5. r \in Sims /\ r.d = d /\ ToSet(r.ev) = ToSet(s.ev) \union {e}
    <3>1. Happens(t, e) \in Sims /\ Happens(t, e).d = t.d /\ ToSet(Happens(t, e).ev) = ToSet(t.ev) \union {e}
      BY <2>3, <2>4, HappensIs
    <3> QED BY <2>1, <2>3, <3>1
  <2>6. Struck(r.ev) = Struck(s.ev)
    BY <2>4, <2>5 DEF Struck
  <2>7. Answers(r.ev) # {}
    BY <2>4, <2>5 DEF Answers
  <2>8. /\ Happened(r.ev, "recover") <=> Happened(s.ev, "recover")
        /\ Happened(r.ev, "stagger") <=> Happened(s.ev, "stagger")
    BY <2>4, <2>5 DEF Happened
  <2> QED BY <2>2, <2>5, <2>6, <2>7, <2>8 DEF Unmade, r
<1>5. CASE p # NoPress /\ why # "valid" /\ ~(why = "empty" \/ p.left = 0)
  <2> DEFINE p1 == [p EXCEPT !.left = @ - 1]
             d == [s.d EXCEPT !.pending = p1]
  <2>1. p \in Held /\ p.left # 0
    BY <1>1, <1>5
  <2>2. p1 \in Held /\ p1 \in HeldPress
    <3>1. p.left - 1 \in Nat
      BY <2>1 DEF Held
    <3> QED BY <2>1, <3>1 DEF Held, HeldPress
  <2>3. r = [s EXCEPT !.d = d]
    BY <1>5 DEF Pending
  <2> HIDE DEF p1
  <2>4. d \in Dots /\ d.pending = p1 /\ d.cool = s.d.cool /\ d.volleys = s.d.volleys /\ d.immune = s.d.immune
    BY <1>1, <2>2 DEF Dots, DotType
  <2> HIDE DEF d, r
  <2>5. r \in Sims /\ r.d = d /\ r.ev = s.ev
    BY <1>1, <2>3, <2>4 DEF Sims
  <2> QED BY <2>1, <2>4, <2>5 DEF Unmade, r, p1
<1> QED BY <1>1, <1>2, <1>3, <1>4, <1>5

-----------------------------------------------------------------------------
(* A whole step. *)

\* A step from dot d in which the strike p is made, as good as t.
MakesStrike(r, d, p, t) ==
  LET v == Volley(p, t)
      vs == ToSet(d.volleys) \union {x \in {v} : Hits[p.slot] > 1}
  IN /\ p.slot \in Slots /\ p.target \in Targets /\ p.slot \in Filled /\ CountDown(d.cool[p.slot]) = 0
     /\ \A k \in Slots : r.d.cool[k] = IF k = p.slot THEN AtLeast(Cooldown[k], GlobalCooldown)
                                       ELSE IF k \in Filled THEN AtLeast(CountDown(d.cool[k]), GlobalCooldown)
                                       ELSE CountDown(d.cool[k])
     /\ StrikeEvent(v, 1) \in StrikeEvents
     /\ vs \subseteq Running
     /\ ToSet(r.d.volleys) = Going(vs)
     /\ Struck(r.ev) = {StrikeEvent(v, 1)} \union Landed(vs)

\* One in which none is.
MakesNone(r, d) ==
  /\ \A k \in Slots : r.d.cool[k] = CountDown(d.cool[k])
  /\ ToSet(r.d.volleys) = Going(ToSet(d.volleys))
  /\ Struck(r.ev) = Landed(ToSet(d.volleys))

\* What a step does to the strike held, when it answers none: the strike asked
\* for in it, or the one held before it, waits one step less.
Waits(r, d, acts) ==
  IF \E a \in ToSet(acts) : a.kind = "strike"
  THEN r.d.pending # NoPress /\ Buffer # 0 /\ r.d.pending.left = Buffer - 1
  ELSE d.pending # NoPress =>
         r.d.pending # NoPress /\ d.pending.left # 0 /\ r.d.pending.left = d.pending.left - 1

LEMMA StepDoes ==
  ASSUME NEW d \in Dots, NEW acts \in Seq(ActKinds), NEW blows \in Seq(BlowKinds), NEW to \in Goes
  PROVE  LET r == step(d, acts, blows, to)
         IN /\ r \in Sims
            /\ r.d.immune = IF Happened(r.ev, "recover") THEN ImmuneSteps ELSE CountDown(d.immune)
            /\ Happened(r.ev, "stagger") => r.d.immune = 0
            /\ (\E p \in Held, t \in {0, 2} : MakesStrike(r, d, p, t)) \/ MakesNone(r, d)
            /\ Answers(r.ev) = {} => Waits(r, d, acts)
<1> DEFINE T == Timers(d)
           A == ActsDone(T, acts)
           P == Pending(A)
           V == Volleys(P)
           B == BlowsMet(V, blows)
           r == Physics(B, to)
           asks == \E a \in ToSet(acts) : a.kind = "strike"
           cools == [s \in Slots |-> CountDown(d.cool[s])]
<1>0. step(d, acts, blows, to) = r
  BY DEF step
<1>1. /\ T \in Sims /\ T.d.cool = cools /\ T.d.volleys = d.volleys /\ T.d.pending = d.pending
      /\ T.d.immune = IF Happened(T.ev, "recover") THEN ImmuneSteps ELSE CountDown(d.immune)
      /\ Struck(T.ev) = {} /\ Answers(T.ev) = {} /\ ~Happened(T.ev, "stagger")
  BY TimersIs
<1> HIDE DEF T
<1>2. /\ A \in Quiet(T)
      /\ asks => A.d.pending \in Held /\ A.d.pending.left = Buffer
      /\ ~asks => A.d.pending = T.d.pending
  BY <1>1, ActsQuiet
<1> HIDE DEF A, asks
<1>3. /\ A \in Sims /\ A.d.cool = cools /\ A.d.volleys = d.volleys /\ A.d.immune = T.d.immune
      /\ Struck(A.ev) = {} /\ Answers(A.ev) = {}
      /\ Happened(A.ev, "recover") <=> Happened(T.ev, "recover")
      /\ Happened(A.ev, "stagger") => T.d.immune = 0
  BY <1>1, <1>2 DEF Quiet, Alike
<1>4. /\ P \in Sims /\ P.d.immune = T.d.immune
      /\ Happened(P.ev, "recover") <=> Happened(T.ev, "recover")
      /\ Happened(P.ev, "stagger") => T.d.immune = 0
      /\ Made(P, A) \/ Unmade(P, A)
  BY <1>3, PendingIs
<1> HIDE DEF P
<1>5. /\ V \in Sims /\ SameRest(V, P)
      /\ ToSet(V.d.volleys) = Going(ToSet(P.d.volleys))
      /\ Struck(V.ev) = Struck(P.ev) \union Landed(ToSet(P.d.volleys))
  BY <1>4, VolleysIs
<1> HIDE DEF V
<1>6. B \in Unpressed(V)
  BY <1>5, BlowsUnpressed
<1> HIDE DEF B
<1>7. B \in Sims
  BY <1>6 DEF Unpressed, Quiet
<1>8. r \in Unpressed(B)
  BY <1>7, PhysicsUnpressed
<1> HIDE DEF r
<1>9. /\ r \in Sims /\ r.d.cool = V.d.cool /\ r.d.immune = V.d.immune /\ r.d.volleys = V.d.volleys
      /\ r.d.pending = V.d.pending
      /\ Struck(r.ev) = Struck(V.ev) /\ Answers(r.ev) = Answers(V.ev)
      /\ Happened(r.ev, "recover") <=> Happened(V.ev, "recover")
      /\ Happened(r.ev, "stagger") => Happened(V.ev, "stagger") \/ V.d.immune = 0
  <2>1. /\ B.d.cool = V.d.cool /\ B.d.immune = V.d.immune /\ B.d.volleys = V.d.volleys /\ B.d.pending = V.d.pending
        /\ Alike(B.ev, V.ev)
        /\ Happened(B.ev, "stagger") => Happened(V.ev, "stagger") \/ V.d.immune = 0
    BY <1>6 DEF Unpressed, Quiet
  <2>2. /\ r \in Sims /\ r.d.cool = B.d.cool /\ r.d.immune = B.d.immune /\ r.d.volleys = B.d.volleys
        /\ r.d.pending = B.d.pending /\ Alike(r.ev, B.ev)
        /\ Happened(r.ev, "stagger") => Happened(B.ev, "stagger") \/ B.d.immune = 0
    BY <1>8 DEF Unpressed, Quiet
  <2>3. /\ Struck(r.ev) = Struck(V.ev) /\ Answers(r.ev) = Answers(V.ev)
        /\ Happened(r.ev, "recover") <=> Happened(V.ev, "recover")
    BY <2>1, <2>2 DEF Alike
  <2> QED BY <2>1, <2>2, <2>3
<1>10. /\ r.d.cool = P.d.cool /\ r.d.immune = T.d.immune /\ r.d.pending = P.d.pending
       /\ ToSet(r.d.volleys) = Going(ToSet(P.d.volleys))
       /\ Struck(r.ev) = Struck(P.ev) \union Landed(ToSet(P.d.volleys))
       /\ Answers(r.ev) = Answers(P.ev)
       /\ Happened(r.ev, "recover") <=> Happened(T.ev, "recover")
       /\ Happened(r.ev, "stagger") => T.d.immune = 0
  BY <1>4, <1>5, <1>9 DEF SameRest
<1>11. ToSet(d.volleys) \subseteq Running
  BY DEF Dots, ToSet
<1>12. Made(P, A) => \E p \in Held, t \in {0, 2} : MakesStrike(r, d, p, t)
  <2> SUFFICES ASSUME Made(P, A) PROVE \E p \in Held, t \in {0, 2} : MakesStrike(r, d, p, t)
    OBVIOUS
  <2> DEFINE p == A.d.pending
             t == tier(A.d)
             v == Volley(p, t)
             vs == ToSet(d.volleys) \union {x \in {v} : Hits[p.slot] > 1}
  <2>1. p \in Held /\ t \in {0, 2} /\ p.slot \in Slots /\ p.target \in Targets
    BY DEF Made, Held, tier
  <2>2. /\ p.slot \in Filled /\ A.d.cool[p.slot] = 0
        /\ \A k \in Slots : P.d.cool[k] = IF k = p.slot THEN AtLeast(Cooldown[k], GlobalCooldown)
                                          ELSE IF k \in Filled THEN AtLeast(A.d.cool[k], GlobalCooldown)
                                          ELSE A.d.cool[k]
        /\ StrikeEvent(v, 1) \in StrikeEvents
        /\ Struck(P.ev) = Struck(A.ev) \union {StrikeEvent(v, 1)}
        /\ Hits[p.slot] > 1 => v \in Running /\ ToSet(P.d.volleys) = ToSet(A.d.volleys) \union {v}
        /\ ~(Hits[p.slot] > 1) => P.d.volleys = A.d.volleys
    BY DEF Made
  <2> HIDE DEF p, t, v
  <2>3. vs \subseteq Running /\ ToSet(P.d.volleys) = vs
    BY <1>3, <1>11, <2>2
  <2>4. \A k \in Slots : A.d.cool[k] = CountDown(d.cool[k])
    BY <1>3
  <2>5. Struck(r.ev) = {StrikeEvent(v, 1)} \union Landed(vs)
    BY <1>3, <1>10, <2>2, <2>3
  <2>6. \A k \in Slots : r.d.cool[k] = IF k = p.slot THEN AtLeast(Cooldown[k], GlobalCooldown)
                                       ELSE IF k \in Filled THEN AtLeast(CountDown(d.cool[k]), GlobalCooldown)
                                       ELSE CountDown(d.cool[k])
    BY <1>10, <2>2, <2>4
  <2>7. MakesStrike(r, d, p, t)
    BY <1>10, <2>1, <2>2, <2>3, <2>4, <2>5, <2>6 DEF MakesStrike, v
  <2> QED BY <2>1, <2>7
<1>13. Unmade(P, A) => MakesNone(r, d)
  BY <1>3, <1>10 DEF Unmade, MakesNone
<1>14. Answers(r.ev) = {} => Waits(r, d, acts)
  <2> SUFFICES ASSUME Answers(r.ev) = {} PROVE Waits(r, d, acts)
    OBVIOUS
  <2> DEFINE p == A.d.pending
  <2>1. Unmade(P, A)
    BY <1>4, <1>10 DEF Made
  <2>2. \A h \in Held : h # NoPress /\ [h EXCEPT !.left = @ - 1] # NoPress
    BY BalanceAssumption DEF Held, NoPress
  <2>3. CASE p = NoPress /\ r.d.pending = NoPress
    <3>1. ~asks /\ d.pending = NoPress
      BY <1>1, <1>2, <2>2, <2>3
    <3> QED BY <3>1 DEF Waits, asks
  <2>4. CASE p \in Held /\ p.left # 0 /\ r.d.pending = [p EXCEPT !.left = @ - 1]
    <3>1. r.d.pending # NoPress /\ r.d.pending.left = p.left - 1
      BY <2>2, <2>4 DEF Held
    <3>2. asks => p.left = Buffer
      BY <1>2
    <3>3. ~asks => p = d.pending
      BY <1>1, <1>2
    <3> HIDE DEF p
    <3> QED BY <2>4, <3>1, <3>2, <3>3 DEF Waits, asks
  <2> QED BY <1>10, <2>1, <2>3, <2>4 DEF Unmade
<1>15. r.d.immune = IF Happened(r.ev, "recover") THEN ImmuneSteps ELSE CountDown(d.immune)
  BY <1>1, <1>10
<1> QED BY <1>0, <1>4, <1>9, <1>10, <1>12, <1>13, <1>14, <1>15

\* Only the strike that is made is a first hit.
LEMMA FirstHitsAre ==
  ASSUME NEW ev, NEW vs, vs \subseteq Running
  PROVE  /\ Struck(ev) = Landed(vs) => FirstHits(ev) = {}
         /\ \A v : Struck(ev) = {StrikeEvent(v, 1)} \union Landed(vs) => FirstHits(ev) = {StrikeEvent(v, 1)}
<1>1. \A e \in Landed(vs) : e.hit # 1
  <2> SUFFICES ASSUME NEW v \in vs PROVE StrikeEvent(v, v.hit).hit # 1
    BY DEF Landed
  <2> QED BY RunningIs
<1>2. \A v : StrikeEvent(v, 1).hit = 1
  BY DEF StrikeEvent
<1> QED BY <1>1, <1>2 DEF FirstHits

LEMMA TimesStep ==
  ASSUME NEW a \in Int, NEW b \in Int
  PROVE  /\ (a + 1) * Step = a * Step + Step
         /\ a * Step \in Int
         /\ a < b => a * Step < b * Step
         /\ a * Step < b * Step => a < b
         /\ a < b => a * Step + Step <= b * Step
<1> DEFINE g == Step
<1>0. g \in Int /\ g >= 1
  BY StepIs
<1> HIDE DEF g
<1>1. \A c, e \in Int : (c + 1) * g = c * g + g /\ c * g \in Int /\ (c < e => c * g + g <= e * g)
  <2> SUFFICES ASSUME NEW c \in Int, NEW e \in Int
               PROVE  (c + 1) * g = c * g + g /\ c * g \in Int /\ (c < e => c * g + g <= e * g)
    OBVIOUS
  <2>1. (c + 1) * g = c * g + g /\ c * g \in Int /\ e * g \in Int
    BY <1>0
  <2>2. c < e => (e - c - 1) * g >= 0
    BY <1>0
  <2>3. (e - c - 1) * g = e * g - c * g - g
    BY <1>0
  <2> QED BY <1>0, <2>1, <2>2, <2>3
<1>2. a < b => a * g < b * g
  BY <1>0, <1>1
<1>3. b < a => b * g + g <= a * g
  BY <1>1
<1>4. a < b => a * g + g <= b * g
  BY <1>1
<1>5. a * g \in Int /\ b * g \in Int
  BY <1>0, <1>1
<1>6. a * g < b * g => a < b
  <2>1. a = b => a * g = b * g
    OBVIOUS
  <2> QED BY <1>0, <1>3, <1>5, <2>1
<1> QED BY <1>1, <1>2, <1>4, <1>6 DEF g

Aged(f) == [f EXCEPT !.ago = @ + 1]

\* A step for the volleys: from first hits, and the volleys that follow them.
LEMMA VolleysAdvance ==
  ASSUME NEW fs, fs \subseteq [slot : Slots, target : Targets, tier : {0, 2}, ago : Int],
         NEW vs, vs \subseteq Running,
         \A v \in vs : \E f \in fs : Follows(f, v),
         \A f \in fs : f.ago + 1 < (Hits[f.slot] - 1) * Step => \E v \in vs : Follows(f, v),
         NEW gs, gs = {Aged(f) : f \in {h \in fs : h.ago < Horizon}}
  PROVE  /\ \A v \in Going(vs) : \E f \in gs : Follows(f, v)
         /\ \A f \in gs : f.ago + 1 < (Hits[f.slot] - 1) * Step => \E v \in Going(vs) : Follows(f, v)
         /\ \A f \in gs : \A hit \in 2..Hits[f.slot] :
              HitDue(f, hit) =>
                \E e \in Landed(vs) : e.slot = f.slot /\ e.target = f.target /\ e.tier = f.tier /\ e.hit = hit
         /\ \A e \in Landed(vs) :
              \E f \in gs : f.slot = e.slot /\ f.target = e.target /\ f.tier = e.tier /\ HitDue(f, e.hit)
<1>0. Step \in Nat /\ Step >= 1 /\ AtLeast(1, Gap) = Step
  BY StepIs
<1>1. ASSUME NEW f \in fs
      PROVE  /\ f.slot \in Slots /\ f.ago \in Int /\ Hits[f.slot] \in Int
             /\ Aged(f).slot = f.slot /\ Aged(f).target = f.target /\ Aged(f).tier = f.tier
             /\ Aged(f).ago = f.ago + 1
  BY DotAssumption DEF Aged
<1>2. ASSUME NEW v \in vs
      PROVE  /\ v.slot \in Slots /\ v.hit \in Int /\ v.hit >= 2 /\ v.hit <= Hits[v.slot] /\ Hits[v.slot] \in Int
             /\ v.left \in 1..Step
  BY RunningIs, StepIs
<1>3. ASSUME NEW f \in fs, NEW v \in vs, Follows(f, v)
      PROVE  /\ f.ago < Horizon /\ Aged(f) \in gs
             /\ Lands(v) => Aged(f).ago = (v.hit - 1) * Step - 1
             /\ GoesOn(v) => Follows(Aged(f), After(v))
  <2>1. f.ago + 1 + v.left = (v.hit - 1) * Step /\ f.slot = v.slot /\ f.target = v.target /\ f.tier = v.tier
    BY <1>3 DEF Follows
  <2>2. (v.hit - 1) * Step < Hits[v.slot] * Step /\ (v.hit - 1) * Step \in Int /\ Hits[v.slot] * Step \in Int
    <3>1. v.hit - 1 \in Int /\ Hits[v.slot] \in Int /\ v.hit - 1 < Hits[v.slot] /\ 1 \in 1..Step
      BY <1>0, <1>2
    <3> QED BY <3>1, TimesStep
  <2>3. Hits[v.slot] * Step <= Horizon /\ Horizon \in Int
    BY <1>0, <1>2, BalanceAssumption
  <2>4. f.ago < Horizon
    <3>1. f.ago \in Int /\ v.left \in Int /\ v.left >= 1
      BY <1>0, <1>1, <1>2
    <3> HIDE DEF Step
    <3> QED BY <2>1, <2>2, <2>3, <3>1
  <2>5. Lands(v) => Aged(f).ago = (v.hit - 1) * Step - 1
    BY <1>1, <2>1, <2>2 DEF Lands
  <2>6. ~Lands(v) => Follows(Aged(f), After(v))
    <3> SUFFICES ASSUME ~Lands(v) PROVE Follows(Aged(f), After(v))
      OBVIOUS
    <3>1. After(v).left = v.left - 1 /\ After(v).hit = v.hit /\ After(v).slot = v.slot
          /\ After(v).target = v.target /\ After(v).tier = v.tier
      BY DEF After, Running, VolleyType
    <3>2. Aged(f).ago + 1 + After(v).left = (v.hit - 1) * Step
      <4>1. v.left \in Int /\ f.ago \in Int
        BY <1>1, <1>2
      <4> QED BY <1>1, <2>1, <3>1, <4>1
    <3> QED BY <1>1, <2>1, <3>1, <3>2 DEF Follows
  <2>7. Lands(v) => Follows(Aged(f), After(v))
    <3> SUFFICES ASSUME Lands(v) PROVE Follows(Aged(f), After(v))
      OBVIOUS
    <3>1. After(v).left = Step /\ After(v).hit = v.hit + 1 /\ After(v).slot = v.slot
          /\ After(v).target = v.target /\ After(v).tier = v.tier
      BY DEF After, Running, VolleyType
    <3>2. ((v.hit - 1) + 1) * Step = (v.hit - 1) * Step + Step
      <4>1. v.hit - 1 \in Int /\ 1 \in 1..Step
        BY <1>0, <1>2
      <4> QED BY <4>1, TimesStep
    <3>3. (v.hit + 1) - 1 = (v.hit - 1) + 1
      BY <1>2
    <3>4. Aged(f).ago + 1 + After(v).left = (After(v).hit - 1) * Step
      BY <1>0, <1>1, <2>2, <2>5, <3>1, <3>2, <3>3
    <3> QED BY <1>1, <2>1, <3>1, <3>4 DEF Follows
  <2> QED BY <2>4, <2>5, <2>6, <2>7
<1>4. \A v \in Going(vs) : \E f \in gs : Follows(f, v)
  <2> SUFFICES ASSUME NEW v \in vs, GoesOn(v) PROVE \E f \in gs : Follows(f, After(v))
    BY DEF Going
  <2>1. PICK f \in fs : Follows(f, v)
    OBVIOUS
  <2> QED BY <1>3, <2>1
<1>5. ASSUME NEW f \in fs, f.ago + 2 < (Hits[f.slot] - 1) * Step
      PROVE  \E v \in Going(vs) : Follows(Aged(f), v)
  <2>0. 1 \in 1..Step /\ Hits[f.slot] - 1 \in Int /\ f.ago \in Int
    BY <1>0, <1>1
  <2>1. PICK v \in vs : Follows(f, v)
    <3>1. (Hits[f.slot] - 1) * Step \in Int
      BY <2>0, TimesStep
    <3>2. f.ago + 1 < (Hits[f.slot] - 1) * Step
      BY <1>5, <2>0, <3>1
    <3> QED BY <3>2
  <2>2. GoesOn(v)
    <3> SUFFICES ASSUME Lands(v) PROVE v.hit < Hits[v.slot]
      BY DEF GoesOn
    <3>1. f.ago + 2 = (v.hit - 1) * Step /\ f.slot = v.slot
      BY <2>0, <2>1 DEF Follows, Lands
    <3>2. (v.hit - 1) * Step < (Hits[v.slot] - 1) * Step
      BY <1>5, <3>1
    <3>3. v.hit - 1 \in Int /\ Hits[v.slot] - 1 \in Int
      BY <1>2
    <3>4. v.hit - 1 < Hits[v.slot] - 1
      BY <2>0, <3>2, <3>3, TimesStep
    <3> QED BY <1>2, <3>4
  <2>3. After(v) \in Going(vs)
    BY <2>2 DEF Going
  <2> QED BY <1>3, <2>1, <2>2, <2>3
<1>6. \A f \in gs : f.ago + 1 < (Hits[f.slot] - 1) * Step => \E v \in Going(vs) : Follows(f, v)
  <2> SUFFICES ASSUME NEW f \in fs, Aged(f).ago + 1 < (Hits[Aged(f).slot] - 1) * Step
               PROVE  \E v \in Going(vs) : Follows(Aged(f), v)
    OBVIOUS
  <2>1. f.ago + 2 < (Hits[f.slot] - 1) * Step
    <3>1. (f.ago + 1) + 1 = f.ago + 2
      BY <1>1
    <3> QED BY <1>1, <3>1
  <2> QED BY <1>5, <2>1
<1>7. ASSUME NEW f \in fs, NEW hit \in 2..Hits[f.slot], HitDue(Aged(f), hit)
      PROVE  \E e \in Landed(vs) : e.slot = f.slot /\ e.target = f.target /\ e.tier = f.tier /\ e.hit = hit
  <2>0. 1 \in 1..Step /\ hit - 1 \in Int /\ Hits[f.slot] - 1 \in Int /\ f.ago \in Int /\ hit \in Int
    BY <1>0, <1>1
  <2>1. f.ago + 2 = (hit - 1) * Step
    <3>1. (hit - 1) * Step \in Int
      BY <2>0, TimesStep
    <3>2. f.ago + 1 = (hit - 1) * Step - 1
      BY <1>0, <1>1, <1>7 DEF HitDue
    <3> QED BY <2>0, <3>1, <3>2
  <2>2. f.ago + 1 < (Hits[f.slot] - 1) * Step
    <3>1. hit - 1 < Hits[f.slot] - 1 => (hit - 1) * Step < (Hits[f.slot] - 1) * Step
      BY <2>0, TimesStep
    <3>2. hit - 1 < Hits[f.slot] - 1 \/ hit - 1 = Hits[f.slot] - 1
      BY <1>1
    <3>3. (Hits[f.slot] - 1) * Step \in Int /\ (hit - 1) * Step \in Int
      BY <2>0, TimesStep
    <3> QED BY <2>0, <2>1, <3>1, <3>2, <3>3
  <2>3. PICK v \in vs : Follows(f, v)
    BY <2>2
  <2>4. f.ago + 1 + v.left = (v.hit - 1) * Step /\ f.slot = v.slot /\ f.target = v.target /\ f.tier = v.tier
    BY <2>3 DEF Follows
  <2>5. (hit - 1) * Step - 1 = (v.hit - 1) * Step - v.left
    <3>0. v.left \in Int
      BY <1>0, <1>2
    <3>1. (hit - 1) * Step \in Int /\ v.left \in Int
      BY <2>0, <3>0, TimesStep
    <3>2. (v.hit - 1) * Step \in Int
      BY <2>0, <2>4, <3>1
    <3> QED BY <2>0, <2>1, <2>4, <3>1, <3>2
  <2>6. hit - 1 = v.hit - 1 /\ 1 = v.left
    <3>1. v.hit - 1 \in Int /\ v.left \in 1..Step
      BY <1>2
    <3> DEFINE a == hit - 1
               b == v.hit - 1
    <3>2. a \in Int /\ b \in Int /\ 1 \in 1..Step /\ a * Step - 1 = b * Step - v.left
      BY <2>0, <2>5, <3>1
    <3> HIDE DEF a, b
    <3>3. /\ a < b => a * Step + Step <= b * Step
          /\ b < a => b * Step + Step <= a * Step
          /\ a * Step \in Int /\ b * Step \in Int
      BY <3>2, TimesStep
    <3>4. a = b => a * Step = b * Step
      OBVIOUS
    <3> DEFINE m == a * Step
               k == b * Step
    <3>5. /\ a < b => m + Step <= k
          /\ b < a => k + Step <= m
          /\ m \in Int /\ k \in Int /\ m - 1 = k - v.left /\ (a = b => m = k)
      BY <3>2, <3>3, <3>4
    <3> HIDE DEF m, k
    <3>6. a = b /\ 1 = v.left
      <4>1. v.left \in Int /\ 1 <= v.left /\ v.left <= Step /\ Step \in Int
        BY <1>0, <3>1
      <4> QED BY <3>2, <3>5, <4>1
    <3>7. hit - 1 = v.hit - 1 /\ 1 = v.left
      BY <3>6 DEF a, b
    <3> QED BY <3>7
  <2>7. Lands(v) /\ v.hit = hit
    BY <1>2, <2>0, <2>6 DEF Lands
  <2>8. StrikeEvent(v, v.hit) \in Landed(vs)
    BY <2>7 DEF Landed
  <2> QED BY <2>4, <2>7, <2>8 DEF StrikeEvent
<1>8. \A f \in gs : \A hit \in 2..Hits[f.slot] :
        HitDue(f, hit) =>
          \E e \in Landed(vs) : e.slot = f.slot /\ e.target = f.target /\ e.tier = f.tier /\ e.hit = hit
  <2> SUFFICES ASSUME NEW f \in fs, NEW hit \in 2..Hits[Aged(f).slot], HitDue(Aged(f), hit)
               PROVE  \E e \in Landed(vs) : /\ e.slot = Aged(f).slot /\ e.target = Aged(f).target
                                            /\ e.tier = Aged(f).tier /\ e.hit = hit
    OBVIOUS
  <2> QED BY <1>1, <1>7
<1>9. \A e \in Landed(vs) :
        \E f \in gs : f.slot = e.slot /\ f.target = e.target /\ f.tier = e.tier /\ HitDue(f, e.hit)
  <2> SUFFICES ASSUME NEW v \in vs, Lands(v)
               PROVE  \E f \in gs : f.slot = v.slot /\ f.target = v.target /\ f.tier = v.tier /\ HitDue(f, v.hit)
    BY DEF Landed, StrikeEvent
  <2>1. PICK f \in fs : Follows(f, v)
    OBVIOUS
  <2>2. Aged(f) \in gs /\ Aged(f).ago = (v.hit - 1) * Step - 1
    BY <1>3, <2>1
  <2>3. HitDue(Aged(f), v.hit)
    BY <1>0, <2>2 DEF HitDue
  <2> QED BY <1>1, <2>1, <2>2, <2>3 DEF Follows
<1> QED BY <1>4, <1>6, <1>8, <1>9

-----------------------------------------------------------------------------
(* The invariant, over a step of the dot. *)

\* The step that is played.
PlayedStep(r, acts) ==
  /\ r \in Sims /\ dot' = r.d /\ told' = r.ev
  /\ r.d.immune = IF Happened(r.ev, "recover") THEN ImmuneSteps ELSE CountDown(dot.immune)
  /\ Happened(r.ev, "stagger") => r.d.immune = 0
  /\ (\E p \in Held, t \in {0, 2} : MakesStrike(r, dot, p, t)) \/ MakesNone(r, dot)
  /\ Answers(r.ev) = {} => Waits(r, dot, acts)

LEMMA PlayIs ==
  ASSUME Types, NEW i \in Given, NEW to \in Goes, Play(i.acts, i.blows, to)
  PROVE  PlayedStep(step(dot, i.acts, i.blows, to), i.acts)
<1>1. i.acts \in Seq(ActKinds) /\ i.blows \in Seq(BlowKinds)
  BY BalanceAssumption
<1>2. dot \in Dots
  BY DEF Types
<1> DEFINE r == step(dot, i.acts, i.blows, to)
<1>3. dot' = r.d /\ told' = r.ev
  BY DEF Play
<1> QED BY <1>1, <1>2, <1>3, StepDoes DEF PlayedStep

LEMMA TypesPlay ==
  ASSUME Types, NEW i \in Given, NEW to \in Goes, Play(i.acts, i.blows, to)
  PROVE  Types'
<1>1. PlayedStep(step(dot, i.acts, i.blows, to), i.acts)
  BY PlayIs
<1>2. dot' \in Dots /\ told' \in Seq(Events)
  BY <1>1 DEF PlayedStep, Sims
<1>3. Horizon \in Nat \ {0} /\ \A k \in 0..Horizon : Later(k) \in 0..Horizon
  BY BalanceAssumption DEF Later
<1>4. since' \in [Slots -> 0..Horizon] /\ calm' \in 0..Horizon
  <2>1. since \in [Slots -> 0..Horizon] /\ calm \in 0..Horizon /\ 1 \in 0..Horizon
    BY <1>3 DEF Types
  <2>2. \A s \in Slots : Later(since[s]) \in 0..Horizon
    BY <1>3, <2>1
  <2> QED BY <1>3, <2>1, <2>2 DEF Play
<1>5. asked' \subseteq Nat
  <2>1. asked \subseteq Nat
    BY DEF Types
  <2>2. asked' = Waiting(i.acts, told')
    BY DEF Play
  <2>3. {k + 1 : k \in asked} \subseteq Nat /\ {0} \subseteq Nat /\ {} \subseteq Nat
    BY <2>1
  <2>4. Waiting(i.acts, told') \in {{}, {0}, {k + 1 : k \in asked}}
    BY DEF Waiting
  <2> QED BY <2>2, <2>3, <2>4
<1>6. firsts' \subseteq [slot : Slots, target : Targets, tier : {0, 2}, ago : 0..Horizon]
  <2>1. firsts \subseteq [slot : Slots, target : Targets, tier : {0, 2}, ago : 0..Horizon]
    BY DEF Types
  <2>2. \A e \in FirstHits(told') : e \in StrikeEvents
    <3>1. ToSet(told') \subseteq Events
      BY <1>2 DEF ToSet
    <3>2. \A e \in Events : e.type = "strike" => e \in StrikeEvents
      BY DEF Events, RefusedEvents, OtherEvents
    <3> QED BY <3>1, <3>2 DEF FirstHits, Struck
  <2>3. ASSUME NEW e \in FirstHits(told')
        PROVE  [slot |-> e.slot, target |-> e.target, tier |-> e.tier, ago |-> 0]
               \in [slot : Slots, target : Targets, tier : {0, 2}, ago : 0..Horizon]
    BY <1>3, <2>2 DEF StrikeEvents
  <2>4. ASSUME NEW f \in firsts, f.ago < Horizon
        PROVE  [f EXCEPT !.ago = @ + 1] \in [slot : Slots, target : Targets, tier : {0, 2}, ago : 0..Horizon]
    <3>1. f.ago + 1 \in 0..Horizon
      BY <1>3, <2>1, <2>4
    <3> QED BY <2>1, <3>1
  <2>5. firsts' = {[f EXCEPT !.ago = @ + 1] : f \in {g \in firsts : g.ago < Horizon}}
        \union {[slot |-> e.slot, target |-> e.target, tier |-> e.tier, ago |-> 0] : e \in FirstHits(told')}
    BY DEF Play
  <2> QED BY <2>3, <2>4, <2>5
<1>7. played' \in 0..MaxSteps
  BY BalanceAssumption DEF Play, Types
<1> QED BY <1>2, <1>4, <1>5, <1>6, <1>7 DEF Types

LEMMA CopyPlay ==
  ASSUME CopyIs, NEW acts, NEW blows, NEW to, Play(acts, blows, to)
  PROVE  CopyIs'
<1>1. dot' = step(dot, acts, blows, to).d /\ told' = step(dot, acts, blows, to).ev /\ same' = same
  BY DEF Play
<1>2. CASE same = TRUE /\ copy = dot /\ copied = told
  <2>1. copy' = step(copy, acts, blows, to).d /\ copied' = step(copy, acts, blows, to).ev
    BY <1>2 DEF Play
  <2> QED BY <1>1, <1>2, <2>1 DEF CopyIs
<1>3. CASE same = FALSE /\ copy = Stale
  BY <1>1, <1>3 DEF Play, CopyIs, Stale
<1> QED BY <1>2, <1>3 DEF CopyIs

\* A timer counts down as the time since counts up.
LEMMA LaterIs ==
  ASSUME NEW k \in 0..Horizon, NEW x \in Nat, NEW c \in 0..Horizon, x + k >= c
  PROVE  CountDown(x) + Later(k) >= c /\ CountDown(x) \in Nat /\ Later(k) \in 0..Horizon
BY BalanceAssumption DEF CountDown, Later

LEMMA SinceIs ==
  ASSUME Types, NEW i \in Given, NEW to \in Goes, Play(i.acts, i.blows, to)
  PROVE  /\ \A s \in Slots : SinceNow(s) \in 0..Horizon /\ since'[s] = Later(SinceNow(s))
         /\ CalmNow \in 0..Horizon /\ calm' = Later(CalmNow)
<1>1. Horizon \in Nat \ {0} /\ Later(0) = 1 /\ 0 \in 0..Horizon
  BY BalanceAssumption DEF Later
<1>2. since \in [Slots -> 0..Horizon] /\ calm \in 0..Horizon
  BY DEF Types
<1>3. /\ \A s \in Slots : since'[s] = IF \E e \in FirstHits(told) : e.slot = s THEN 1 ELSE Later(since[s])
      /\ calm' = IF Happened(told, "recover") THEN 1 ELSE Later(calm)
  BY DEF Play
<1> QED BY <1>1, <1>2, <1>3 DEF SinceNow, CalmNow

LEMMA ImmunityPlay ==
  ASSUME Types, ImmunityRuns, NEW i \in Given, NEW to \in Goes, Play(i.acts, i.blows, to)
  PROVE  ImmunityRuns' /\ ImmuneAfterStagger'
<1> DEFINE r == step(dot, i.acts, i.blows, to)
<1>1. /\ dot' = r.d /\ told' = r.ev
      /\ r.d.immune = IF Happened(r.ev, "recover") THEN ImmuneSteps ELSE CountDown(dot.immune)
      /\ Happened(r.ev, "stagger") => r.d.immune = 0
  BY PlayIs DEF PlayedStep
<1> HIDE DEF r
<1>2. CalmNow \in 0..Horizon /\ calm' = Later(CalmNow)
  BY SinceIs
<1>3. dot.immune \in Nat /\ ImmuneSteps \in 0..Horizon /\ ImmuneSteps # 0
  BY BalanceAssumption, DotAssumption DEF Types, Dots, DotType
<1>4. CountDown(dot.immune) + calm' >= ImmuneSteps /\ CountDown(dot.immune) \in Nat /\ calm' \in 0..Horizon
  BY <1>2, <1>3, LaterIs DEF ImmunityRuns
<1>5. Horizon \in Nat
  BY BalanceAssumption
<1>6. Happened(told', "recover") => dot'.immune = ImmuneSteps /\ CalmNow' = 0
  BY <1>1 DEF CalmNow
<1>7. ~Happened(told', "recover") => dot'.immune = CountDown(dot.immune) /\ CalmNow' = calm'
  BY <1>1 DEF CalmNow
<1>8. ImmunityRuns'
  BY <1>3, <1>4, <1>5, <1>6, <1>7 DEF ImmunityRuns
<1>9. ImmuneAfterStagger'
  <2> SUFFICES ASSUME Happened(told', "stagger") PROVE calm' >= ImmuneSteps /\ ~Happened(told', "recover")
    BY DEF ImmuneAfterStagger
  <2>1. dot'.immune = 0
    BY <1>1
  <2>2. ~Happened(told', "recover")
    BY <1>3, <1>6, <2>1
  <2> QED BY <1>3, <1>4, <1>5, <1>7, <2>1, <2>2
<1> QED BY <1>8, <1>9

LEMMA CooldownsPlay ==
  ASSUME Types, CooldownsRun, NEW i \in Given, NEW to \in Goes, Play(i.acts, i.blows, to)
  PROVE  CooldownsRun' /\ CooldownKept'
<1> DEFINE r == step(dot, i.acts, i.blows, to)
           counted(k) == CountDown(dot.cool[k])
<1>1. /\ dot' = r.d /\ told' = r.ev
      /\ (\E p \in Held, t \in {0, 2} : MakesStrike(r, dot, p, t)) \/ MakesNone(r, dot)
  BY PlayIs DEF PlayedStep
<1> HIDE DEF r
<1>2. ASSUME NEW k \in Slots
      PROVE  Cooldown[k] \in 0..Horizon /\ dot.cool[k] \in Nat
  BY BalanceAssumption, DotAssumption DEF Types, Dots, DotType
<1>3. GlobalCooldown \in 0..Horizon /\ Filled \subseteq Slots /\ Horizon \in Nat
  BY BalanceAssumption, DotAssumption
<1>4. ASSUME NEW s \in Slots
      PROVE  /\ since'[s] \in Nat
             /\ counted(s) + since'[s] >= Cooldown[s]
             /\ \A k \in Filled : counted(k) + since'[s] >= GlobalCooldown
  <2>1. SinceNow(s) \in 0..Horizon /\ since'[s] = Later(SinceNow(s))
    BY SinceIs
  <2>2. counted(s) + since'[s] >= Cooldown[s] /\ since'[s] \in Nat
    BY <1>2, <1>3, <2>1, LaterIs, SMTT(30) DEF CooldownsRun
  <2>3. \A k \in Filled : counted(k) + since'[s] >= GlobalCooldown
    BY <1>2, <1>3, <2>1, LaterIs DEF CooldownsRun
  <2> QED BY <2>2, <2>3
<1>5. \A k \in Slots : counted(k) \in Nat /\ Cooldown[k] \in Nat
  BY <1>2 DEF CountDown
<1> HIDE DEF counted
<1>6. ToSet(dot.volleys) \subseteq Running
  BY DEF Types, Dots, ToSet
<1>7. CASE MakesNone(r, dot)
  <2>1. FirstHits(told') = {}
    BY <1>1, <1>6, <1>7, FirstHitsAre DEF MakesNone
  <2>2. \A s \in Slots : SinceNow(s)' = since'[s] /\ dot'.cool[s] = counted(s)
    BY <1>1, <1>7, <2>1 DEF SinceNow, MakesNone, counted
  <2>3. CooldownsRun'
    BY <1>3, <1>4, <2>2 DEF CooldownsRun
  <2> QED BY <2>1, <2>3 DEF CooldownKept
<1>8. ASSUME NEW p \in Held, NEW t \in {0, 2}, MakesStrike(r, dot, p, t)
      PROVE  CooldownsRun' /\ CooldownKept'
  <2> DEFINE v == Volley(p, t)
             vs == ToSet(dot.volleys) \union {x \in {v} : Hits[p.slot] > 1}
  <2>1. /\ p.slot \in Filled /\ counted(p.slot) = 0 /\ p.slot \in Slots
        /\ vs \subseteq Running /\ Struck(told') = {StrikeEvent(v, 1)} \union Landed(vs)
        /\ \A k \in Slots : dot'.cool[k] = IF k = p.slot THEN AtLeast(Cooldown[k], GlobalCooldown)
                                           ELSE IF k \in Filled THEN AtLeast(counted(k), GlobalCooldown)
                                           ELSE counted(k)
    BY <1>1, <1>8 DEF MakesStrike, counted
  <2> HIDE DEF v
  <2>2. FirstHits(told') = {StrikeEvent(v, 1)}
    <3> HIDE DEF vs
    <3> QED BY <2>1, FirstHitsAre
  <2>3. StrikeEvent(v, 1).slot = p.slot
    BY DEF StrikeEvent, Volley, v
  <2>4. \A s \in Slots : SinceNow(s)' = IF s = p.slot THEN 0 ELSE since'[s]
    BY <2>2, <2>3 DEF SinceNow
  <2>5. \A s \in Slots : since'[s] >= GlobalCooldown
    BY <1>3, <1>4, <2>1
  <2>6. since'[p.slot] >= Cooldown[p.slot]
    BY <1>4, <1>5, <2>1
  <2>7. CooldownKept'
    BY <2>2, <2>3, <2>5, <2>6 DEF CooldownKept
  <2>8. ASSUME NEW k \in Slots
        PROVE  /\ dot'.cool[k] >= counted(k) /\ dot'.cool[k] \in Nat
               /\ k = p.slot => dot'.cool[k] >= Cooldown[k]
               /\ k \in Filled => dot'.cool[k] >= GlobalCooldown
    BY <1>3, <1>5, <2>1 DEF AtLeast
  <2>9. CooldownsRun'
    <3> SUFFICES ASSUME NEW s \in Slots
                 PROVE  /\ dot'.cool[s] + SinceNow(s)' >= Cooldown[s]
                        /\ \A k \in Filled : dot'.cool[k] + SinceNow(s)' >= GlobalCooldown
      BY DEF CooldownsRun
    <3>1. CASE s = p.slot
      BY <1>3, <1>5, <2>4, <2>8, <3>1
    <3>2. CASE s # p.slot
      <4>1. SinceNow(s)' = since'[s] /\ since'[s] \in Nat
        BY <1>4, <2>4, <3>2
      <4>2. dot'.cool[s] + since'[s] >= Cooldown[s]
        BY <1>4, <1>5, <2>8, <4>1
      <4>3. \A k \in Filled : dot'.cool[k] + since'[s] >= GlobalCooldown
        BY <1>3, <2>8, <4>1
      <4> QED BY <4>1, <4>2, <4>3
    <3> QED BY <3>1, <3>2
  <2> QED BY <2>7, <2>9
<1> QED BY <1>1, <1>7, <1>8

LEMMA VolleysPlay ==
  ASSUME Types, VolleysRun, NEW i \in Given, NEW to \in Goes, Play(i.acts, i.blows, to)
  PROVE  VolleysRun' /\ VolleysLand'
<1> DEFINE r == step(dot, i.acts, i.blows, to)
           New(e, ago) == [slot |-> e.slot, target |-> e.target, tier |-> e.tier, ago |-> ago]
           fresh == {New(e, 0 - 1) : e \in FirstHits(told')}
           fs == firsts \union fresh
           gs == {Aged(f) : f \in {h \in fs : h.ago < Horizon}}
           old == ToSet(dot.volleys)
           Kind == [slot : Slots, target : Targets, tier : {0, 2}, ago : Int]
<1>1. /\ dot' = r.d /\ told' = r.ev
      /\ (\E p \in Held, t \in {0, 2} : MakesStrike(r, dot, p, t)) \/ MakesNone(r, dot)
  BY PlayIs DEF PlayedStep
<1> HIDE DEF r
<1>2. old \subseteq Running /\ firsts \subseteq Kind
  BY BalanceAssumption DEF Types, Dots, ToSet
<1>3. /\ \A v \in old : \E f \in firsts : Follows(f, v)
      /\ \A f \in firsts : f.ago + 1 < (Hits[f.slot] - 1) * Step => \E v \in old : Follows(f, v)
  BY DEF VolleysRun
<1> HIDE DEF old
<1>4. firsts' = gs
  <2>1. \A f \in {g \in firsts : g.ago < Horizon} : Aged(f) = [f EXCEPT !.ago = @ + 1]
    BY DEF Aged
  <2>2. \A e \in FirstHits(told') : Aged(New(e, 0 - 1)) = New(e, 0) /\ New(e, 0 - 1).ago < Horizon
    BY BalanceAssumption DEF Aged
  <2>3. firsts' = {[f EXCEPT !.ago = @ + 1] : f \in {g \in firsts : g.ago < Horizon}}
                  \union {New(e, 0) : e \in FirstHits(told')}
    BY DEF Play
  <2> HIDE DEF New
  <2>4. \A x : x \in firsts' <=> x \in gs
    BY <2>1, <2>2, <2>3
  <2> QED BY <2>4
<1>5. ASSUME NEW vs, vs \subseteq Running, fs \subseteq Kind,
             ToSet(dot'.volleys) = Going(vs),
             Landed(vs) \subseteq Struck(told'), Struck(told') \ FirstHits(told') \subseteq Landed(vs),
             \A v \in vs : \E f \in fs : Follows(f, v),
             \A f \in fs : f.ago + 1 < (Hits[f.slot] - 1) * Step => \E v \in vs : Follows(f, v)
      PROVE  VolleysRun' /\ VolleysLand'
  <2> HIDE DEF fs
  <2>1. /\ \A v \in Going(vs) : \E f \in gs : Follows(f, v)
        /\ \A f \in gs : f.ago + 1 < (Hits[f.slot] - 1) * Step => \E v \in Going(vs) : Follows(f, v)
        /\ \A f \in gs : \A hit \in 2..Hits[f.slot] :
             HitDue(f, hit) =>
               \E e \in Landed(vs) : e.slot = f.slot /\ e.target = f.target /\ e.tier = f.tier /\ e.hit = hit
        /\ \A e \in Landed(vs) :
             \E f \in gs : f.slot = e.slot /\ f.target = e.target /\ f.tier = e.tier /\ HitDue(f, e.hit)
    BY <1>5, VolleysAdvance
  <2> HIDE DEF gs
  <2>2. VolleysRun'
    BY <1>4, <1>5, <2>1 DEF VolleysRun
  <2>3. VolleysLand'
    BY <1>4, <1>5, <2>1 DEF VolleysLand
  <2> QED BY <2>2, <2>3
<1>6. CASE MakesNone(r, dot)
  <2>1. ToSet(dot'.volleys) = Going(old) /\ Struck(told') = Landed(old)
    BY <1>1, <1>6 DEF MakesNone, old
  <2>2. FirstHits(told') = {}
    BY <1>2, <2>1, FirstHitsAre
  <2>3. fs = firsts
    BY <2>2
  <2> HIDE DEF fs
  <2> QED BY <1>2, <1>3, <1>5, <2>1, <2>3
<1>7. ASSUME NEW p \in Held, NEW t \in {0, 2}, MakesStrike(r, dot, p, t)
      PROVE  VolleysRun' /\ VolleysLand'
  <2> DEFINE v == Volley(p, t)
             vs == old \union {x \in {v} : Hits[p.slot] > 1}
             f0 == New(StrikeEvent(v, 1), 0 - 1)
  <2>1. /\ p.slot \in Slots /\ p.target \in Targets
        /\ vs \subseteq Running /\ ToSet(dot'.volleys) = Going(vs)
        /\ Struck(told') = {StrikeEvent(v, 1)} \union Landed(vs)
    BY <1>1, <1>7 DEF MakesStrike, old
  <2>2. FirstHits(told') = {StrikeEvent(v, 1)}
    <3> HIDE DEF v, vs
    <3> QED BY <2>1, FirstHitsAre
  <2>3. fs = firsts \union {f0}
    <3> HIDE DEF New, v
    <3> QED BY <2>2
  <2>4. /\ f0 = [slot |-> p.slot, target |-> p.target, tier |-> t, ago |-> 0 - 1]
        /\ v.slot = p.slot /\ v.target = p.target /\ v.tier = t /\ v.hit = 2 /\ v.left = Step
    BY StepIs DEF StrikeEvent, Volley
  <2>5. f0 \in Kind
    BY <2>1, <2>4
  <2>6. Follows(f0, v)
    <3>1. (2 - 1) * Step = Step
      BY StepIs
    <3> QED BY <2>4, <3>1, StepIs DEF Follows
  <2> HIDE DEF v, f0
  <2>7. f0.ago + 1 < (Hits[f0.slot] - 1) * Step => v \in vs
    <3> SUFFICES ASSUME f0.ago + 1 < (Hits[f0.slot] - 1) * Step PROVE Hits[p.slot] > 1
      OBVIOUS
    <3>1. 0 < (Hits[p.slot] - 1) * Step
      BY <2>4
    <3>2. Hits[p.slot] \in Nat \ {0}
      BY <2>1, DotAssumption
    <3>3. Hits[p.slot] = 1 => (Hits[p.slot] - 1) * Step = 0
      BY StepIs
    <3> QED BY <3>1, <3>2, <3>3
  <2>8. \A w \in vs : \E f \in fs : Follows(f, w)
    BY <1>3, <2>3, <2>6
  <2>9. \A f \in fs : f.ago + 1 < (Hits[f.slot] - 1) * Step => \E w \in vs : Follows(f, w)
    BY <1>3, <2>3, <2>6, <2>7
  <2>10. fs \subseteq Kind
    BY <1>2, <2>3, <2>5
  <2>11. Landed(vs) \subseteq Struck(told') /\ Struck(told') \ FirstHits(told') \subseteq Landed(vs)
    BY <2>1, <2>2
  <2> HIDE DEF fs, vs
  <2> QED BY <1>5, <2>1, <2>8, <2>9, <2>10, <2>11
<1> QED BY <1>1, <1>6, <1>7

LEMMA PressPlay ==
  ASSUME Types, PressHeld, NEW i \in Given, NEW to \in Goes, Play(i.acts, i.blows, to)
  PROVE  PressHeld'
<1> DEFINE r == step(dot, i.acts, i.blows, to)
           asks == \E a \in ToSet(i.acts) : a.kind = "strike"
<1>1. /\ r \in Sims /\ dot' = r.d /\ told' = r.ev
      /\ Answers(r.ev) = {} => Waits(r, dot, i.acts)
  BY PlayIs DEF PlayedStep
<1> HIDE DEF r
<1>2. asked' = IF Answers(told') # {} THEN {} ELSE IF asks THEN {0} ELSE {k + 1 : k \in asked}
  BY DEF Play, Waiting
<1>3. asked \subseteq Nat /\ Buffer \in Nat
  BY DotAssumption, BalanceAssumption DEF Types
<1>4. /\ r.d.pending # NoPress => r.d.pending.left \in Nat
      /\ dot.pending # NoPress => dot.pending.left \in Nat
  BY <1>1 DEF Sims, Dots, Held, Types
<1>5. CASE Answers(told') # {}
  BY <1>2, <1>5 DEF PressHeld
<1>6. CASE Answers(told') = {} /\ asks
  <2>1. r.d.pending # NoPress /\ r.d.pending.left = Buffer - 1
    BY <1>1, <1>6 DEF Waits
  <2>2. 0 + 1 + dot'.pending.left = Buffer /\ dot'.pending # NoPress
    BY <1>1, <1>3, <2>1
  <2> QED BY <1>2, <1>6, <2>2 DEF PressHeld
<1>7. CASE Answers(told') = {} /\ ~asks
  <2>1. dot.pending # NoPress => r.d.pending # NoPress /\ r.d.pending.left = dot.pending.left - 1
    BY <1>1, <1>7 DEF Waits
  <2>2. ASSUME NEW k \in asked PROVE dot'.pending # NoPress /\ (k + 1) + 1 + dot'.pending.left = Buffer
    <3>1. dot.pending # NoPress /\ k + 1 + dot.pending.left = Buffer
      BY DEF PressHeld
    <3> QED BY <1>1, <1>3, <1>4, <2>1, <3>1
  <2>3. asked' = {k + 1 : k \in asked}
    BY <1>2, <1>7
  <2> QED BY <2>2, <2>3 DEF PressHeld
<1> QED BY <1>5, <1>6, <1>7

-----------------------------------------------------------------------------
(* The invariant, over the other steps. *)

LEMMA StaleIs == Stale \in DotType
<1>1. /\ "out" \in Places /\ [s \in Slots |-> 1] \in [Slots -> Nat] /\ 1 \in 0..(PerfectSteps + 1)
      /\ [NoPress EXCEPT !.left = 1] \in HeldPress
      /\ <<>> \in Seq([slot : Slots, target : Targets, tier : {0, 2}, hit : Nat, left : Nat, press : Nat])
  BY DotAssumption DEF Places, NoPress, HeldPress
<1> QED BY <1>1 DEF Stale, DotType

LEMMA NewDotIs == NewDot \in Dots
<1>1. /\ "perfect" \in Places /\ [s \in Slots |-> 0] \in [Slots -> Nat] /\ 0 \in 0..(PerfectSteps + 1)
      /\ NoPress \in HeldPress
      /\ <<>> \in Seq([slot : Slots, target : Targets, tier : {0, 2}, hit : Nat, left : Nat, press : Nat])
      /\ <<>> \in Seq(Running)
  BY DotAssumption DEF Places, Core, NoPress, HeldPress
<1>2. NewDot \in DotType
  BY <1>1 DEF NewDot, DotType
<1> QED BY <1>1, <1>2 DEF NewDot, Dots

LEMMA InitHolds ==
  ASSUME BalanceInit
  PROVE  IInv
<1>1. ToSet(<<>>) = {} /\ <<>> \in Seq(Events)
  BY DEF ToSet
<1>2. FirstHits(<<>>) = {} /\ Struck(<<>>) = {} /\ ~Happened(<<>>, "stagger") /\ ~Happened(<<>>, "recover")
  BY <1>1 DEF FirstHits, Struck, Happened
<1>3. Horizon \in Nat /\ Horizon \in 0..Horizon /\ MaxSteps \in Nat /\ ImmuneSteps \in 0..Horizon
      /\ GlobalCooldown \in 0..Horizon /\ Filled \subseteq Slots
      /\ \A s \in Slots : Cooldown[s] \in Nat /\ Cooldown[s] <= Horizon
  BY BalanceAssumption, DotAssumption
<1>4. Types
  BY <1>1, <1>3, NewDotIs DEF BalanceInit, Types
<1>5. CopyIs
  BY DEF BalanceInit, CopyIs
<1>6. dot.immune = 0 /\ dot.volleys = <<>> /\ \A s \in Slots : dot.cool[s] = 0
  BY DEF BalanceInit, NewDot
<1>7. CooldownsRun
  BY <1>2, <1>3, <1>6 DEF BalanceInit, CooldownsRun, SinceNow
<1>8. ImmunityRuns
  BY <1>2, <1>3, <1>6 DEF BalanceInit, ImmunityRuns, CalmNow
<1>9. VolleysRun /\ VolleysLand
  BY <1>1, <1>2, <1>6 DEF BalanceInit, VolleysRun, VolleysLand
<1>10. PressHeld
  BY DEF BalanceInit, PressHeld
<1>11. CooldownKept /\ ImmuneAfterStagger
  BY <1>2 DEF BalanceInit, CooldownKept, ImmuneAfterStagger
<1> QED BY <1>4, <1>5, <1>7, <1>8, <1>9, <1>10, <1>11 DEF IInv

LEMMA PlayHolds ==
  ASSUME IInv, NEW i \in Given, NEW to \in Goes, Play(i.acts, i.blows, to)
  PROVE  IInv'
<1>1. Types /\ CopyIs /\ CooldownsRun /\ ImmunityRuns /\ VolleysRun /\ PressHeld
  BY DEF IInv
<1>2. Types' /\ CopyIs'
  BY <1>1, TypesPlay, CopyPlay
<1>3. CooldownsRun' /\ CooldownKept' /\ ImmunityRuns' /\ ImmuneAfterStagger'
  BY <1>1, CooldownsPlay, ImmunityPlay
<1>4. VolleysRun' /\ VolleysLand' /\ PressHeld'
  BY <1>1, VolleysPlay, PressPlay
<1> QED BY <1>2, <1>3, <1>4 DEF IInv

\* A copy made of a snapshot is the dot, field for field: a snapshot holds
\* every field there is.
LEMMA RestoreIs ==
  ASSUME NEW c \in DotType, NEW d \in DotType
  PROVE  restore(c, snapshot(d)) = d
<1>1. DOMAIN c = SNAPSHOT /\ DOMAIN d = SNAPSHOT
  BY DEF DotType, SNAPSHOT
<1>2. DOMAIN snapshot(d) = SNAPSHOT /\ \A f \in SNAPSHOT : snapshot(d)[f] = d[f]
  BY DEF snapshot
<1>3. restore(c, snapshot(d)) = [f \in SNAPSHOT |-> d[f]]
  BY <1>1, <1>2 DEF restore
<1>4. d = [f \in SNAPSHOT |-> d[f]]
  <2>1. d = [f \in DOMAIN d |-> d[f]]
    BY DEF DotType
  <2> QED BY <1>1, <2>1
<1> QED BY <1>3, <1>4

LEMMA RestoreHolds ==
  ASSUME IInv, Restore
  PROVE  IInv'
<1>1. dot \in DotType /\ copy \in DotType
  BY StaleIs DEF IInv, Types, Dots, CopyIs
<1>2. copy' = dot
  BY <1>1, RestoreIs DEF Restore
<1>3. CopyIs'
  BY <1>2 DEF Restore, CopyIs
<1>4. UNCHANGED <<dot, told, since, calm, asked, firsts, played>>
  BY DEF Restore
<1> QED BY <1>3, <1>4 DEF IInv, Types, CooldownsRun, ImmunityRuns, VolleysRun, PressHeld, SinceNow, CalmNow,
                          CooldownKept, ImmuneAfterStagger, VolleysLand

LEMMA TargetDiesHolds ==
  ASSUME IInv, NEW t \in Targets, TargetDies(t)
  PROVE  IInv'
<1> DEFINE dropped == {v \in ToSet(dot.volleys) : v.target = t}
           left == LeftOver(dot.volleys, dropped)
           gone == {e \in Struck(told) : e.hit > 1 /\ e.target = t}
<1>0. Types /\ CopyIs /\ CooldownsRun /\ ImmunityRuns /\ VolleysRun /\ PressHeld
      /\ CooldownKept /\ ImmuneAfterStagger /\ VolleysLand
  BY DEF IInv
<1>1. dot \in Dots /\ dot.volleys \in Seq(Running) /\ told \in Seq(Events)
  BY <1>0 DEF Types, Dots
<1>2. left \in Seq(Running) /\ ToSet(left) = {v \in ToSet(dot.volleys) : v.target # t}
  <2>1. left \in Seq(Running) /\ ToSet(left) = ToSet(dot.volleys) \ dropped
    <3> HIDE DEF dropped
    <3> QED BY <1>1, WithoutIs
  <2> QED BY <2>1
<1>3. told' \in Seq(Events) /\ ToSet(told') = ToSet(told) \ gone
  <2>1. told' = LeftOver(told, gone)
    BY DEF TargetDies, WithoutHits
  <2> HIDE DEF gone
  <2> QED BY <1>1, <2>1, WithoutIs
<1>4. dot' = [dot EXCEPT !.volleys = left]
  BY DEF TargetDies, cancel_volleys
<1> HIDE DEF left
<1>5. /\ dot' \in Dots /\ dot'.volleys = left /\ dot'.cool = dot.cool /\ dot'.immune = dot.immune
      /\ dot'.pending = dot.pending
  BY <1>1, <1>2, <1>4, WithVolleys
<1>6. /\ Struck(told') = Struck(told) \ gone
      /\ FirstHits(told') = FirstHits(told)
      /\ Happened(told', "recover") <=> Happened(told, "recover")
      /\ Happened(told', "stagger") <=> Happened(told, "stagger")
  <2>1. Struck(told') = Struck(told) \ gone
    BY <1>3 DEF Struck
  <2>2. FirstHits(told') = FirstHits(told)
    BY <2>1 DEF FirstHits
  <2>3. \A e \in gone : e.type = "strike"
    BY DEF Struck
  <2> QED BY <1>3, <2>1, <2>2, <2>3 DEF Happened
<1>7. firsts' = {f \in firsts : f.target # t} /\ UNCHANGED <<since, calm, asked, played>>
  BY DEF TargetDies
<1>8. Types'
  BY <1>0, <1>3, <1>5, <1>7 DEF Types
<1>9. CopyIs'
  BY DEF TargetDies, CopyIs
<1>10. CooldownsRun' /\ CooldownKept'
  <2>1. \A s \in Slots : SinceNow(s)' = SinceNow(s)
    BY <1>6, <1>7 DEF SinceNow
  <2>2. CooldownsRun'
    BY <1>0, <1>5, <2>1 DEF CooldownsRun
  <2> QED BY <1>0, <1>6, <1>7, <2>2 DEF CooldownKept
<1>11. ImmunityRuns' /\ ImmuneAfterStagger'
  BY <1>0, <1>5, <1>6, <1>7 DEF ImmunityRuns, CalmNow, ImmuneAfterStagger
<1>12. PressHeld'
  BY <1>0, <1>5, <1>7 DEF PressHeld
<1>13. VolleysRun'
  <2>1. \A v \in ToSet(left) : \E f \in firsts' : Follows(f, v)
    BY <1>0, <1>2, <1>7 DEF VolleysRun, Follows
  <2>2. \A f \in firsts' : f.ago + 1 < (Hits[f.slot] - 1) * Step => \E v \in ToSet(left) : Follows(f, v)
    BY <1>0, <1>2, <1>7 DEF VolleysRun, Follows
  <2> QED BY <1>5, <2>1, <2>2 DEF VolleysRun
<1>14. VolleysLand'
  <2>1. ASSUME NEW f \in firsts', NEW hit \in 2..Hits[f.slot], HitDue(f, hit)
        PROVE  \E e \in Struck(told') : e.slot = f.slot /\ e.target = f.target /\ e.tier = f.tier /\ e.hit = hit
    <3>1. f \in firsts /\ f.target # t
      BY <1>7
    <3>2. PICK e \in Struck(told) : e.slot = f.slot /\ e.target = f.target /\ e.tier = f.tier /\ e.hit = hit
      BY <1>0, <2>1, <3>1 DEF VolleysLand
    <3> QED BY <1>6, <3>1, <3>2
  <2>2. ASSUME NEW e \in Struck(told') \ FirstHits(told')
        PROVE  \E f \in firsts' : f.slot = e.slot /\ f.target = e.target /\ f.tier = e.tier /\ HitDue(f, e.hit)
    <3>1. e \in Struck(told) \ FirstHits(told) /\ e \notin gone
      BY <1>6
    <3>2. PICK f \in firsts : f.slot = e.slot /\ f.target = e.target /\ f.tier = e.tier /\ HitDue(f, e.hit)
      BY <1>0, <3>1 DEF VolleysLand
    <3>3. e.hit # 1 /\ e.hit \in Nat
      <4>1. e \in Events /\ e.type = "strike"
        BY <1>1, <3>1 DEF Struck, ToSet
      <4>2. e \in StrikeEvents
        BY <4>1 DEF Events, RefusedEvents, OtherEvents
      <4> QED BY <3>1, <4>2 DEF FirstHits, StrikeEvents
    <3>4. e.hit # 0
      <4> SUFFICES ASSUME e.hit = 0 PROVE FALSE
        OBVIOUS
      <4>1. f.ago = (0 - 1) * Step - 1 /\ f.ago >= 0
        BY <1>0, <3>2, StepIs, BalanceAssumption DEF HitDue, Types
      <4>2. (0 - 1) * Step = 0 - Step
        BY StepIs
      <4> QED BY <4>1, <4>2, StepIs
    <3>5. e.target # t
      BY <3>1, <3>3, <3>4
    <3>6. f \in firsts'
      BY <1>7, <3>2, <3>5
    <3> QED BY <3>2, <3>6
  <2> QED BY <2>1, <2>2 DEF VolleysLand
<1> QED BY <1>8, <1>9, <1>10, <1>11, <1>12, <1>13, <1>14 DEF IInv

LEMMA NextHolds ==
  ASSUME IInv, [BalanceNext]_playing
  PROVE  IInv'
<1>1. CASE \E i \in Given, to \in Goes : Play(i.acts, i.blows, to)
  BY <1>1, PlayHolds
<1>2. CASE Restore
  BY <1>2, RestoreHolds
<1>3. CASE \E t \in Targets : TargetDies(t)
  BY <1>3, TargetDiesHolds
<1>4. CASE UNCHANGED playing
  BY <1>4 DEF playing, IInv, Types, CopyIs, CooldownsRun, ImmunityRuns, VolleysRun, PressHeld, SinceNow, CalmNow,
              CooldownKept, ImmuneAfterStagger, VolleysLand
<1> QED BY <1>1, <1>2, <1>3, <1>4 DEF BalanceNext

-----------------------------------------------------------------------------

\* What is always so of a dot, its copy and what is told of them.
THEOREM Inductive == BalanceSpec => []IInv
<1>1. BalanceInit => IInv
  BY InitHolds
<1>2. IInv /\ [BalanceNext]_playing => IInv'
  BY NextHolds
<1> QED BY <1>1, <1>2, PTL DEF BalanceSpec

\* Every field of the dot and of its copy stays in its range.
THEOREM TypeCorrect == BalanceSpec => []BalanceTypeOK
<1>1. IInv => BalanceTypeOK
  <2> SUFFICES ASSUME IInv PROVE BalanceTypeOK
    OBVIOUS
  <2>1. dot \in DotType /\ copy \in DotType /\ same \in BOOLEAN
    BY StaleIs DEF IInv, Types, Dots, CopyIs
  <2> QED BY <2>1 DEF IInv, Types, BalanceTypeOK
<1> QED BY <1>1, Inductive, PTL

\* Whatever is pressed and whatever hits the dot, no slot strikes again before
\* its cooldown is over, and none within the global cooldown of any
\* (balance.py: _strike, strike_check).
THEOREM CooldownsKept == BalanceSpec => []CooldownKept
<1>1. IInv => CooldownKept
  BY DEF IInv
<1> QED BY <1>1, Inductive, PTL

\* No chain of blows and bounces off the rim staggers a dot that has just
\* recovered (_timers, apply_blow, _physics).
THEOREM NoStaggerChains == BalanceSpec => []ImmuneAfterStagger
<1>1. IInv => ImmuneAfterStagger
  BY DEF IInv
<1> QED BY <1>1, Inductive, PTL

\* Every hit of a volley lands in the step it is due in, and no other hit does,
\* however many volleys are under way and whichever targets die (_volleys,
\* cancel_volleys).
THEOREM VolleysAlwaysLand == BalanceSpec => []VolleysLand
<1>1. IInv => VolleysLand
  BY DEF IInv
<1> QED BY <1>1, Inductive, PTL

\* A copy made of a snapshot stays what the dot is, and tells what it tells,
\* until something other than a step happens to the dot (snapshot, restore).
THEOREM CopyAlwaysFollows == BalanceSpec => []CopyFollows
<1>1. IInv => CopyFollows
  BY DEF IInv, CopyIs, CopyFollows
<1> QED BY <1>1, Inductive, PTL

\* No press is left hanging longer than the buffer (_act, step).
THEOREM PressAlwaysAnswered == BalanceSpec => []PressAnswered
<1>1. IInv => PressAnswered
  <2> SUFFICES ASSUME IInv, NEW k \in asked PROVE k < Buffer
    BY DEF PressAnswered
  <2>1. dot.pending # NoPress /\ k + 1 + dot.pending.left = Buffer
    BY DEF IInv, PressHeld
  <2>2. dot.pending.left \in Nat
    BY <2>1 DEF IInv, Types, Dots, Held
  <2>3. k \in Nat /\ Buffer \in Nat
    BY DotAssumption DEF IInv, Types
  <2> QED BY <2>1, <2>2, <2>3
<1> QED BY <1>1, Inductive, PTL

-----------------------------------------------------------------------------
(* Sequences of anything, and folds over them. *)

IsSequence(q) == q \in Seq(ToSet(q))

\* A sequence over some set is a sequence.
LEMMA SequenceOf ==
  ASSUME NEW A, NEW q \in Seq(A)
  PROVE  /\ IsSequence(q) /\ Len(q) \in Nat /\ DOMAIN q = 1..Len(q)
         /\ \A i \in 1..Len(q) : q[i] \in A
<1>1. Len(q) \in Nat /\ DOMAIN q = 1..Len(q) /\ \A i \in 1..Len(q) : q[i] \in A
  BY LenProperties, ElementOfSeq
<1>2. \A i \in 1..Len(q) : q[i] \in ToSet(q)
  BY <1>1 DEF ToSet
<1>3. q \in Seq(ToSet(q))
  <2>1. q = [i \in 1..Len(q) |-> q[i]]
    BY LenProperties
  <2> DEFINE B == ToSet(q)
  <2>2. \A i \in 1..Len(q) : q[i] \in B
    BY <1>2
  <2> HIDE DEF B
  <2>3. [i \in 1..Len(q) |-> q[i]] \in Seq(B)
    BY <1>1, <2>2, IsASeq
  <2> QED BY <2>1, <2>3 DEF B
<1> QED BY <1>1, <1>3 DEF IsSequence

\* What a sequence has: a length, its places, and what is at them.
LEMMA SequenceHas ==
  ASSUME NEW q, IsSequence(q)
  PROVE  /\ Len(q) \in Nat /\ DOMAIN q = 1..Len(q)
         /\ \A A : ToSet(q) \subseteq A => q \in Seq(A)
<1>1. q \in Seq(ToSet(q))
  BY DEF IsSequence
<1>2. \A A : ToSet(q) \subseteq A => q \in Seq(A)
  BY <1>1, SeqMonotonic, Zenon
<1> QED BY <1>1, <1>2, SequenceOf

\* The empty sequence is one.
LEMMA NoneIs == IsSequence(<<>>)
<1>1. <<>> \in Seq({})
  OBVIOUS
<1> QED BY <1>1, SequenceOf

\* One element more, at the end.
LEMMA SequenceAppend ==
  ASSUME NEW q, IsSequence(q), NEW e
  PROVE  /\ IsSequence(Append(q, e)) /\ Len(Append(q, e)) = Len(q) + 1
         /\ Append(q, e)[Len(q) + 1] = e
         /\ \A i \in 1..Len(q) : Append(q, e)[i] = q[i]
         /\ ToSet(Append(q, e)) = ToSet(q) \union {e}
<1> DEFINE A == ToSet(q) \union {e}
<1>1. q \in Seq(A)
  BY SequenceHas
<1>2. e \in A
  OBVIOUS
<1> HIDE DEF A
<1>3. /\ Append(q, e) \in Seq(A) /\ Len(Append(q, e)) = Len(q) + 1
      /\ Append(q, e)[Len(q) + 1] = e
      /\ \A i \in 1..Len(q) : Append(q, e)[i] = q[i]
  BY <1>1, <1>2, AppendProperties
<1>4. IsSequence(Append(q, e)) /\ DOMAIN Append(q, e) = 1..(Len(q) + 1)
  BY <1>3, SequenceOf
<1>5. DOMAIN q = 1..Len(q) /\ Len(q) \in Nat
  BY SequenceHas
<1>6. \A x : x \in ToSet(Append(q, e)) <=> x \in ToSet(q) \union {e}
  <2> DEFINE r == Append(q, e)
  <2>1. DOMAIN r = DOMAIN q \union {Len(q) + 1}
    BY <1>4, <1>5
  <2>2. r[Len(q) + 1] = e /\ \A i \in DOMAIN q : r[i] = q[i]
    BY <1>3, <1>5
  <2> HIDE DEF r
  <2>3. \A x : x \in ToSet(r) <=> x \in ToSet(q) \union {e}
    BY <2>1, <2>2 DEF ToSet
  <2> QED BY <2>3 DEF r
<1>7. ToSet(Append(q, e)) = ToSet(q) \union {e}
  BY <1>6
<1> QED BY <1>3, <1>4, <1>7

\* A part of a sequence, shifted to the front.
LEMMA SequencePart ==
  ASSUME NEW q, IsSequence(q), NEW a \in 1..Len(q) + 1, NEW b \in (a - 1)..Len(q)
  PROVE  /\ IsSequence(SubSeq(q, a, b)) /\ Len(SubSeq(q, a, b)) = b - a + 1
         /\ \A i \in 1..(b - a + 1) : SubSeq(q, a, b)[i] = q[a + i - 1]
<1> DEFINE A == ToSet(q)
<1>1. q \in Seq(A) /\ Len(q) \in Nat
  BY SequenceHas
<1> HIDE DEF A
<1>2. SubSeq(q, a, b) \in Seq(A)
  <2>1. \A i \in a..b : i \in 1..Len(q)
    BY <1>1
  <2>2. \A i \in a..b : q[i] \in A
    BY <1>1, <2>1, ElementOfSeq
  <2>3. a \in Int /\ b \in Int
    BY <1>1
  <2> QED BY <1>1, <2>1, <2>2, <2>3, SubSeqProperties
<1>3. /\ Len(SubSeq(q, a, b)) = b - a + 1
      /\ \A i \in 1..(b - a + 1) : SubSeq(q, a, b)[i] = q[a + i - 1]
  BY <1>1, SubSeqProperties
<1> QED BY <1>2, <1>3, SequenceOf

\* Two sequences joined.
LEMMA SequenceJoin ==
  ASSUME NEW q, IsSequence(q), NEW r, IsSequence(r)
  PROVE  /\ IsSequence(q \o r) /\ Len(q \o r) = Len(q) + Len(r)
         /\ \A i \in 1..Len(q) : (q \o r)[i] = q[i]
         /\ \A i \in 1..Len(r) : (q \o r)[Len(q) + i] = r[i]
<1> DEFINE A == ToSet(q) \union ToSet(r)
<1>1. q \in Seq(A) /\ r \in Seq(A) /\ Len(q) \in Nat /\ Len(r) \in Nat
  BY SequenceHas
<1> HIDE DEF A
<1>2. /\ q \o r \in Seq(A) /\ Len(q \o r) = Len(q) + Len(r)
      /\ \A i \in 1..(Len(q) + Len(r)) : (q \o r)[i] = IF i <= Len(q) THEN q[i] ELSE r[i - Len(q)]
  BY <1>1, ConcatProperties
<1>3. \A i \in 1..Len(q) : i \in 1..(Len(q) + Len(r)) /\ i <= Len(q)
  BY <1>1
<1>4. \A i \in 1..Len(r) : Len(q) + i \in 1..(Len(q) + Len(r)) /\ ~(Len(q) + i <= Len(q)) /\ (Len(q) + i) - Len(q) = i
  BY <1>1
<1> QED BY <1>2, <1>3, <1>4, SequenceOf

\* A sequence is what is at its places.
LEMMA SequenceMade ==
  ASSUME NEW k \in Nat, NEW q, q = [i \in 1..k |-> q[i]]
  PROVE  IsSequence(q) /\ Len(q) = k
<1> DEFINE A == ToSet(q)
<1>1. \A i \in 1..k : q[i] \in A
  BY DEF ToSet
<1> HIDE DEF A
<1>2. [i \in 1..k |-> q[i]] \in Seq(A) /\ Len([i \in 1..k |-> q[i]]) = k
  BY <1>1, IsASeq
<1> QED BY <1>2, SequenceOf

\* The messages of an inbox, one after another.
TakenTrace(g, b, q) ==
  /\ g[0] = b
  /\ \A i \in 1..Len(q) : g[i] = Taken(g[i - 1], q[i])
  /\ FoldLeft(Taken, b, q) = g[Len(q)]

\* A fold over messages has its run.
LEMMA TakenRun ==
  ASSUME NEW b, NEW q, IsSequence(q)
  PROVE  \E g : TakenTrace(g, b, q)
<1> DEFINE Is(h) == h = [s \in SUBSET DOMAIN q |-> IF s = {} THEN b ELSE Taken(h[s \ {Max(s)}], q[Max(s)])]
           UpTo(h, m) == h = [s \in SUBSET (1..m) |-> IF s = {} THEN b ELSE Taken(h[s \ {Max(s)}], q[Max(s)])]
           H == {m \in 0..Len(q) : \E h : UpTo(h, m)}
<1>1. DOMAIN q = 1..Len(q) /\ Len(q) \in Nat
  BY SequenceHas
<1>2. \E h : UpTo(h, 0)
  <2> DEFINE h == [s \in SUBSET (1..0) |-> b]
  <2>1. \A s \in SUBSET (1..0) : s = {}
    OBVIOUS
  <2>2. UpTo(h, 0)
    BY <2>1
  <2> HIDE DEF h, UpTo
  <2> QED BY <2>2
<1>3. ASSUME NEW i \in 1..Len(q), NEW h, UpTo(h, i - 1) PROVE \E j : UpTo(j, i)
  <2> DEFINE j == [s \in SUBSET (1..i) |-> IF i \in s THEN Taken(h[s \ {i}], q[i]) ELSE h[s]]
  <2>1. i \in Nat /\ \A s \in SUBSET (1..i) : s \ {i} \in SUBSET (1..(i - 1))
    BY <1>1
  <2>2. ASSUME NEW s \in SUBSET (1..i)
        PROVE  j[s] = IF s = {} THEN b ELSE Taken(j[s \ {Max(s)}], q[Max(s)])
    <3>1. CASE i \in s
      <4>1. Max(s) = i /\ s # {}
        BY <2>1, <3>1, MaxOf
      <4>2. s \ {i} \in SUBSET (1..i) /\ i \notin s \ {i}
        BY <2>1
      <4>3. j[s \ {i}] = h[s \ {i}]
        BY <4>2
      <4>4. j[s] = Taken(h[s \ {i}], q[i])
        BY <3>1
      <4> HIDE DEF j
      <4> QED BY <4>1, <4>3, <4>4
    <3>2. CASE i \notin s
      <4>1. s \in SUBSET (1..(i - 1)) /\ s \ {Max(s)} \in SUBSET (1..i) /\ i \notin s \ {Max(s)}
        BY <2>1, <3>2
      <4>2. j[s] = h[s] /\ j[s \ {Max(s)}] = h[s \ {Max(s)}]
        BY <3>2, <4>1
      <4>3. h[s] = IF s = {} THEN b ELSE Taken(h[s \ {Max(s)}], q[Max(s)])
        BY <1>3, <4>1
      <4> HIDE DEF j
      <4> QED BY <4>2, <4>3
    <3> QED BY <3>1, <3>2
  <2>3. j = [s \in SUBSET (1..i) |-> j[s]]
    OBVIOUS
  <2>4. UpTo(j, i)
    <3> HIDE DEF j
    <3> QED BY <2>2, <2>3
  <2> HIDE DEF j, UpTo
  <2> QED BY <2>4
<1>4. \E h : Is(h)
  <2>1. H = 0..Len(q)
    <3> HIDE DEF UpTo
    <3>1. H \in SUBSET (0..Len(q)) /\ 0 \in H /\ \A i \in 1..Len(q) : i - 1 \in H => i \in H
      BY <1>1, <1>2, <1>3
    <3> HIDE DEF H
    <3> QED BY <1>1, <3>1, AtEachPlace
  <2>2. PICK h : UpTo(h, Len(q))
    <3> HIDE DEF UpTo
    <3> QED BY <1>1, <2>1
  <2> QED BY <1>1, <2>2
<1>5. \E it : Is(it) /\ FoldLeft(Taken, b, q) = it[DOMAIN q]
  <2>1. FoldLeft(Taken, b, q) = (CHOOSE it : Is(it))[DOMAIN q]
    BY DEF FoldLeft, MapThenFoldSet
  <2> HIDE DEF Is
  <2> QED BY <1>4, <2>1
<1>6. PICK it : Is(it) /\ FoldLeft(Taken, b, q) = it[DOMAIN q]
  BY <1>5
<1>7. it[{}] = b
  BY <1>6
<1>8. ASSUME NEW i \in 1..Len(q) PROVE it[1..i] = Taken(it[1..(i - 1)], q[i])
  <2>0. i \in Nat /\ i >= 1 /\ i <= Len(q)
    BY <1>1
  <2>1. 1..i \in SUBSET DOMAIN q /\ i \in 1..i /\ (1..i) \ {i} = 1..(i - 1)
    BY <1>1, <2>0
  <2>2. Max(1..i) = i
    BY <2>0, <2>1, MaxOf
  <2>3. it[1..i] = Taken(it[(1..i) \ {Max(1..i)}], q[Max(1..i)])
    BY <1>6, <2>1
  <2> QED BY <2>1, <2>2, <2>3
<1> HIDE DEF Is
<1> DEFINE g == [i \in 0..Len(q) |-> it[1..i]]
<1>9. g[0] = b
  <2>1. 1..0 = {}
    OBVIOUS
  <2> QED BY <1>1, <1>7, <2>1
<1>10. \A i \in 1..Len(q) : g[i] = Taken(g[i - 1], q[i])
  BY <1>1, <1>8
<1>11. FoldLeft(Taken, b, q) = g[Len(q)]
  BY <1>1, <1>6
<1> HIDE DEF g
<1> QED BY <1>9, <1>10, <1>11 DEF TakenTrace

\* The steps of a window, one after another.
AgainTrace(g, pid, clean, b, q) ==
  /\ g[0] = b
  /\ \A i \in 1..Len(q) : g[i] = Replayed(pid, clean, g[i - 1], q[i])
  /\ Again(pid, clean, b, q) = g[Len(q)]

\* So has a fold over a window's steps.
LEMMA AgainRun ==
  ASSUME NEW pid, NEW clean, NEW b, NEW q, IsSequence(q)
  PROVE  \E g : AgainTrace(g, pid, clean, b, q)
<1> DEFINE Is(h) == h = [s \in SUBSET DOMAIN q |-> IF s = {} THEN b ELSE Replayed(pid, clean, h[s \ {Max(s)}], q[Max(s)])]
           UpTo(h, m) == h = [s \in SUBSET (1..m) |-> IF s = {} THEN b ELSE Replayed(pid, clean, h[s \ {Max(s)}], q[Max(s)])]
           H == {m \in 0..Len(q) : \E h : UpTo(h, m)}
<1>1. DOMAIN q = 1..Len(q) /\ Len(q) \in Nat
  BY SequenceHas
<1>2. \E h : UpTo(h, 0)
  <2> DEFINE h == [s \in SUBSET (1..0) |-> b]
  <2>1. \A s \in SUBSET (1..0) : s = {}
    OBVIOUS
  <2>2. UpTo(h, 0)
    BY <2>1
  <2> HIDE DEF h, UpTo
  <2> QED BY <2>2
<1>3. ASSUME NEW i \in 1..Len(q), NEW h, UpTo(h, i - 1) PROVE \E j : UpTo(j, i)
  <2> DEFINE j == [s \in SUBSET (1..i) |-> IF i \in s THEN Replayed(pid, clean, h[s \ {i}], q[i]) ELSE h[s]]
  <2>1. i \in Nat /\ \A s \in SUBSET (1..i) : s \ {i} \in SUBSET (1..(i - 1))
    BY <1>1
  <2>2. ASSUME NEW s \in SUBSET (1..i)
        PROVE  j[s] = IF s = {} THEN b ELSE Replayed(pid, clean, j[s \ {Max(s)}], q[Max(s)])
    <3>1. CASE i \in s
      <4>1. Max(s) = i /\ s # {}
        BY <2>1, <3>1, MaxOf
      <4>2. s \ {i} \in SUBSET (1..i) /\ i \notin s \ {i}
        BY <2>1
      <4>3. j[s \ {i}] = h[s \ {i}]
        BY <4>2
      <4>4. j[s] = Replayed(pid, clean, h[s \ {i}], q[i])
        BY <3>1
      <4> HIDE DEF j
      <4> QED BY <4>1, <4>3, <4>4
    <3>2. CASE i \notin s
      <4>1. s \in SUBSET (1..(i - 1)) /\ s \ {Max(s)} \in SUBSET (1..i) /\ i \notin s \ {Max(s)}
        BY <2>1, <3>2
      <4>2. j[s] = h[s] /\ j[s \ {Max(s)}] = h[s \ {Max(s)}]
        BY <3>2, <4>1
      <4>3. h[s] = IF s = {} THEN b ELSE Replayed(pid, clean, h[s \ {Max(s)}], q[Max(s)])
        BY <1>3, <4>1
      <4> HIDE DEF j
      <4> QED BY <4>2, <4>3
    <3> QED BY <3>1, <3>2
  <2>3. j = [s \in SUBSET (1..i) |-> j[s]]
    OBVIOUS
  <2>4. UpTo(j, i)
    <3> HIDE DEF j
    <3> QED BY <2>2, <2>3
  <2> HIDE DEF j, UpTo
  <2> QED BY <2>4
<1>4. \E h : Is(h)
  <2>1. H = 0..Len(q)
    <3> HIDE DEF UpTo
    <3>1. H \in SUBSET (0..Len(q)) /\ 0 \in H /\ \A i \in 1..Len(q) : i - 1 \in H => i \in H
      BY <1>1, <1>2, <1>3
    <3> HIDE DEF H
    <3> QED BY <1>1, <3>1, AtEachPlace
  <2>2. PICK h : UpTo(h, Len(q))
    <3> HIDE DEF UpTo
    <3> QED BY <1>1, <2>1
  <2> QED BY <1>1, <2>2
<1>5. \E it : Is(it) /\ Again(pid, clean, b, q) = it[DOMAIN q]
  <2>1. Again(pid, clean, b, q) = (CHOOSE it : Is(it))[DOMAIN q]
    BY DEF Again, FoldLeft, MapThenFoldSet
  <2> HIDE DEF Is
  <2> QED BY <1>4, <2>1
<1>6. PICK it : Is(it) /\ Again(pid, clean, b, q) = it[DOMAIN q]
  BY <1>5
<1>7. it[{}] = b
  BY <1>6
<1>8. ASSUME NEW i \in 1..Len(q) PROVE it[1..i] = Replayed(pid, clean, it[1..(i - 1)], q[i])
  <2>0. i \in Nat /\ i >= 1 /\ i <= Len(q)
    BY <1>1
  <2>1. 1..i \in SUBSET DOMAIN q /\ i \in 1..i /\ (1..i) \ {i} = 1..(i - 1)
    BY <1>1, <2>0
  <2>2. Max(1..i) = i
    BY <2>0, <2>1, MaxOf
  <2>3. it[1..i] = Replayed(pid, clean, it[(1..i) \ {Max(1..i)}], q[Max(1..i)])
    BY <1>6, <2>1
  <2> QED BY <2>1, <2>2, <2>3
<1> HIDE DEF Is
<1> DEFINE g == [i \in 0..Len(q) |-> it[1..i]]
<1>9. g[0] = b
  <2>1. 1..0 = {}
    OBVIOUS
  <2> QED BY <1>1, <1>7, <2>1
<1>10. \A i \in 1..Len(q) : g[i] = Replayed(pid, clean, g[i - 1], q[i])
  BY <1>1, <1>8
<1>11. Again(pid, clean, b, q) = g[Len(q)]
  BY <1>1, <1>6
<1> HIDE DEF g
<1> QED BY <1>9, <1>10, <1>11 DEF AgainTrace

\* NPCs that leave, one after another.
DroppedTrace(g, b, q) ==
  /\ g[0] = b
  /\ \A i \in 1..Len(q) : g[i] = NoVolleysAt(g[i - 1], q[i])
  /\ FoldLeft(NoVolleysAt, b, q) = g[Len(q)]

\* So has a fold over NPCs.
LEMMA DroppedRun ==
  ASSUME NEW b, NEW q, IsSequence(q)
  PROVE  \E g : DroppedTrace(g, b, q)
<1> DEFINE Is(h) == h = [s \in SUBSET DOMAIN q |-> IF s = {} THEN b ELSE NoVolleysAt(h[s \ {Max(s)}], q[Max(s)])]
           UpTo(h, m) == h = [s \in SUBSET (1..m) |-> IF s = {} THEN b ELSE NoVolleysAt(h[s \ {Max(s)}], q[Max(s)])]
           H == {m \in 0..Len(q) : \E h : UpTo(h, m)}
<1>1. DOMAIN q = 1..Len(q) /\ Len(q) \in Nat
  BY SequenceHas
<1>2. \E h : UpTo(h, 0)
  <2> DEFINE h == [s \in SUBSET (1..0) |-> b]
  <2>1. \A s \in SUBSET (1..0) : s = {}
    OBVIOUS
  <2>2. UpTo(h, 0)
    BY <2>1
  <2> HIDE DEF h, UpTo
  <2> QED BY <2>2
<1>3. ASSUME NEW i \in 1..Len(q), NEW h, UpTo(h, i - 1) PROVE \E j : UpTo(j, i)
  <2> DEFINE j == [s \in SUBSET (1..i) |-> IF i \in s THEN NoVolleysAt(h[s \ {i}], q[i]) ELSE h[s]]
  <2>1. i \in Nat /\ \A s \in SUBSET (1..i) : s \ {i} \in SUBSET (1..(i - 1))
    BY <1>1
  <2>2. ASSUME NEW s \in SUBSET (1..i)
        PROVE  j[s] = IF s = {} THEN b ELSE NoVolleysAt(j[s \ {Max(s)}], q[Max(s)])
    <3>1. CASE i \in s
      <4>1. Max(s) = i /\ s # {}
        BY <2>1, <3>1, MaxOf
      <4>2. s \ {i} \in SUBSET (1..i) /\ i \notin s \ {i}
        BY <2>1
      <4>3. j[s \ {i}] = h[s \ {i}]
        BY <4>2
      <4>4. j[s] = NoVolleysAt(h[s \ {i}], q[i])
        BY <3>1
      <4> HIDE DEF j
      <4> QED BY <4>1, <4>3, <4>4
    <3>2. CASE i \notin s
      <4>1. s \in SUBSET (1..(i - 1)) /\ s \ {Max(s)} \in SUBSET (1..i) /\ i \notin s \ {Max(s)}
        BY <2>1, <3>2
      <4>2. j[s] = h[s] /\ j[s \ {Max(s)}] = h[s \ {Max(s)}]
        BY <3>2, <4>1
      <4>3. h[s] = IF s = {} THEN b ELSE NoVolleysAt(h[s \ {Max(s)}], q[Max(s)])
        BY <1>3, <4>1
      <4> HIDE DEF j
      <4> QED BY <4>2, <4>3
    <3> QED BY <3>1, <3>2
  <2>3. j = [s \in SUBSET (1..i) |-> j[s]]
    OBVIOUS
  <2>4. UpTo(j, i)
    <3> HIDE DEF j
    <3> QED BY <2>2, <2>3
  <2> HIDE DEF j, UpTo
  <2> QED BY <2>4
<1>4. \E h : Is(h)
  <2>1. H = 0..Len(q)
    <3> HIDE DEF UpTo
    <3>1. H \in SUBSET (0..Len(q)) /\ 0 \in H /\ \A i \in 1..Len(q) : i - 1 \in H => i \in H
      BY <1>1, <1>2, <1>3
    <3> HIDE DEF H
    <3> QED BY <1>1, <3>1, AtEachPlace
  <2>2. PICK h : UpTo(h, Len(q))
    <3> HIDE DEF UpTo
    <3> QED BY <1>1, <2>1
  <2> QED BY <1>1, <2>2
<1>5. \E it : Is(it) /\ FoldLeft(NoVolleysAt, b, q) = it[DOMAIN q]
  <2>1. FoldLeft(NoVolleysAt, b, q) = (CHOOSE it : Is(it))[DOMAIN q]
    BY DEF FoldLeft, MapThenFoldSet
  <2> HIDE DEF Is
  <2> QED BY <1>4, <2>1
<1>6. PICK it : Is(it) /\ FoldLeft(NoVolleysAt, b, q) = it[DOMAIN q]
  BY <1>5
<1>7. it[{}] = b
  BY <1>6
<1>8. ASSUME NEW i \in 1..Len(q) PROVE it[1..i] = NoVolleysAt(it[1..(i - 1)], q[i])
  <2>0. i \in Nat /\ i >= 1 /\ i <= Len(q)
    BY <1>1
  <2>1. 1..i \in SUBSET DOMAIN q /\ i \in 1..i /\ (1..i) \ {i} = 1..(i - 1)
    BY <1>1, <2>0
  <2>2. Max(1..i) = i
    BY <2>0, <2>1, MaxOf
  <2>3. it[1..i] = NoVolleysAt(it[(1..i) \ {Max(1..i)}], q[Max(1..i)])
    BY <1>6, <2>1
  <2> QED BY <2>1, <2>2, <2>3
<1> HIDE DEF Is
<1> DEFINE g == [i \in 0..Len(q) |-> it[1..i]]
<1>9. g[0] = b
  <2>1. 1..0 = {}
    OBVIOUS
  <2> QED BY <1>1, <1>7, <2>1
<1>10. \A i \in 1..Len(q) : g[i] = NoVolleysAt(g[i - 1], q[i])
  BY <1>1, <1>8
<1>11. FoldLeft(NoVolleysAt, b, q) = g[Len(q)]
  BY <1>1, <1>6
<1> HIDE DEF g
<1> QED BY <1>9, <1>10, <1>11 DEF DroppedTrace

-----------------------------------------------------------------------------
(* Owner: who is in the fight, and when attacks land. *)

LoopPhases == {"start", "listen", "sync", "ready", "run", "call", "over"}
Quiets == {"start", "sync", "ready", "run"}

\* Messages are what the loop knows, and wait while it listens or calls only.
InboxIs ==
  /\ IsSequence(inbox) /\ \A i \in DOMAIN inbox : inbox[i].op \in {"input", "sync", "end"}
  /\ phase \in LoopPhases
  /\ phase \in Quiets => inbox = <<>>
  /\ phase \in {"ready", "run"} => ~need_sync

\* The owner is never ahead of the clock.
ClocksAre ==
  /\ clock \in Nat /\ step_n \in 0..clock /\ target \in 0..clock
  /\ phase = "run" => step_n <= target

AttackIds == UNION {{nid} \X DOMAIN Attacks[nid] : nid \in Npcs}

\* An attack is not due before the next step, nor within its period of its
\* last landing.
AttackIs(nid, k, a) ==
  /\ DOMAIN a = {"land", "told", "target"} /\ a.land \in Nat
  /\ a.land > step_n
  /\ landed[<<nid, k>>] # 0 => a.land >= landed[<<nid, k>>] + Attacks[nid][k].period
NpcIs(nid, npc) ==
  /\ DOMAIN npc = {"join", "meter", "reel", "attacks"} /\ npc.reel \in Nat
  /\ DOMAIN npc.attacks = DOMAIN Attacks[nid]
  /\ \A k \in DOMAIN Attacks[nid] : AttackIs(nid, k, npc.attacks[k])

\* Whoever the owner has yet to hear of joined no earlier than its step.
FoesAre ==
  /\ DOMAIN foes \subseteq Npcs /\ DOMAIN npcs \subseteq Npcs
  /\ \A nid \in DOMAIN foes : foes[nid] \in Nat /\ (nid \notin DOMAIN npcs => foes[nid] >= step_n)
NpcsAre ==
  /\ landed \in [AttackIds -> Nat] /\ \A x \in AttackIds : landed[x] <= step_n
  /\ \A nid \in DOMAIN npcs : NpcIs(nid, npcs[nid])

RunInv == InboxIs /\ ClocksAre /\ FoesAre /\ NpcsAre /\ MembersKnown

\* A change that is told of.
LEMMA ToldInbox ==
  ASSUME InboxIs, NEW m, inbox' = Append(inbox, m), m.op \in {"input", "sync", "end"},
         phase \in {"listen", "call"}, UNCHANGED <<phase, need_sync, ended>>
  PROVE  InboxIs' /\ (ToldOf => ToldOf') /\ (m.op \in {"sync", "end"} => ToldOf')
<1>1. IsSequence(inbox) /\ DOMAIN inbox = 1..Len(inbox) /\ Len(inbox) \in Nat
  BY SequenceHas DEF InboxIs
<1>2. /\ IsSequence(inbox') /\ Len(inbox') = Len(inbox) + 1 /\ inbox'[Len(inbox) + 1] = m
      /\ \A i \in 1..Len(inbox) : inbox'[i] = inbox[i]
  BY <1>1, SequenceAppend
<1>3. DOMAIN inbox' = 1..(Len(inbox) + 1)
  BY <1>2, SequenceHas
<1>4. \A i \in DOMAIN inbox' : i \in DOMAIN inbox \/ i = Len(inbox) + 1
  BY <1>1, <1>3
<1>5. \A i \in DOMAIN inbox : i \in DOMAIN inbox' /\ inbox'[i] = inbox[i]
  BY <1>1, <1>2, <1>3
<1>6. Len(inbox) + 1 \in DOMAIN inbox'
  BY <1>1, <1>3
<1>7. InboxIs'
  BY <1>2, <1>4, <1>5 DEF InboxIs, Quiets
<1> QED BY <1>2, <1>5, <1>6, <1>7 DEF ToldOf

\* The state of a loop that reads its inbox.
Reading(s) == DOMAIN s = {"ended", "need_sync", "players", "late"}

\* What a message changes but a player.
LEMMA TakenIs ==
  ASSUME NEW s, NEW m, Reading(s), m.op \in {"input", "sync", "end"}
  PROVE  /\ Reading(Taken(s, m))
         /\ DOMAIN Taken(s, m).players = DOMAIN s.players
         /\ Taken(s, m).ended \/ Taken(s, m).need_sync <=> s.ended \/ s.need_sync \/ m.op \in {"sync", "end"}
<1>1. CASE m.op = "end"
  BY <1>1 DEF Taken, Reading
<1>2. CASE m.op = "sync"
  BY <1>2 DEF Taken, Reading
<1>3. CASE m.op = "input" /\ m.pid \notin DOMAIN s.players
  BY <1>3 DEF Taken, Reading
<1>4. CASE m.op = "input" /\ m.pid \in DOMAIN s.players
  <2> DEFINE q == _input([p |-> s.players[m.pid], late |-> s.late], m)
  <2>1. Taken(s, m) = [s EXCEPT !.players[m.pid] = q.p, !.late = q.late]
    BY <1>4 DEF Taken, Reading
  <2> HIDE DEF q
  <2> QED BY <1>4, <2>1 DEF Reading
<1> QED BY <1>1, <1>2, <1>3, <1>4

\* What reading the inbox changes but players.
InboxRead(s, k) ==
  /\ Reading(s)
  /\ DOMAIN s.players = DOMAIN players
  /\ s.ended \/ s.need_sync <=> ended \/ need_sync \/ \E i \in 1..k : inbox[i].op \in {"sync", "end"}

InboxState == [ended |-> ended, need_sync |-> need_sync, players |-> players, late |-> late]

\* The whole inbox read: nobody comes or goes, and a change told of is known.
LEMMA InboxReadWhole ==
  ASSUME InboxIs
  PROVE  InboxRead(FoldLeft(Taken, InboxState, inbox), Len(inbox))
<1>1. IsSequence(inbox) /\ Len(inbox) \in Nat /\ DOMAIN inbox = 1..Len(inbox)
  BY SequenceHas DEF InboxIs
<1>2. PICK g : TakenTrace(g, InboxState, inbox)
  BY <1>1, TakenRun
<1> DEFINE H == {k \in 0..Len(inbox) : InboxRead(g[k], k)}
<1>3. InboxRead(g[0], 0)
  <2>1. ~(0 >= 1) /\ \A i \in 1..0 : FALSE
    OBVIOUS
  <2> QED BY <1>2, <2>1 DEF InboxRead, Reading, TakenTrace, InboxState, InboxIs
<1>4. ASSUME NEW k \in 1..Len(inbox), InboxRead(g[k - 1], k - 1) PROVE InboxRead(g[k], k)
  <2>1. g[k] = Taken(g[k - 1], inbox[k]) /\ inbox[k].op \in {"input", "sync", "end"}
    BY <1>1, <1>2 DEF TakenTrace, InboxIs
  <2>2. /\ Reading(g[k]) /\ DOMAIN g[k].players = DOMAIN g[k - 1].players
        /\ g[k].ended \/ g[k].need_sync <=> g[k - 1].ended \/ g[k - 1].need_sync \/ inbox[k].op \in {"sync", "end"}
    <3> DEFINE s == g[k - 1]
               m == inbox[k]
    <3>1. Reading(s) /\ m.op \in {"input", "sync", "end"}
      BY <1>4, <2>1 DEF InboxRead
    <3> HIDE DEF s, m
    <3>2. /\ Reading(Taken(s, m)) /\ DOMAIN Taken(s, m).players = DOMAIN s.players
          /\ Taken(s, m).ended \/ Taken(s, m).need_sync <=> s.ended \/ s.need_sync \/ m.op \in {"sync", "end"}
      BY <3>1, TakenIs
    <3> QED BY <2>1, <3>2 DEF s, m
  <2>3. 1..k = 1..(k - 1) \union {k}
    BY <1>1
  <2> QED BY <1>4, <2>1, <2>2, <2>3 DEF InboxRead
<1>5. H = 0..Len(inbox)
  <2>1. H \in SUBSET (0..Len(inbox)) /\ 0 \in H /\ \A i \in 1..Len(inbox) : i - 1 \in H => i \in H
    BY <1>1, <1>3, <1>4
  <2> HIDE DEF H
  <2> QED BY <1>1, <2>1, AtEachPlace
<1>6. InboxRead(g[Len(inbox)], Len(inbox))
  BY <1>1, <1>5
<1> QED BY <1>2, <1>6 DEF TakenTrace

\* An attack moved to what x makes of it is one still, if it lands no sooner.
LEMMA AttackLater ==
  ASSUME ClocksAre, NEW nid, NEW k, NEW a, AttackIs(nid, k, a), NEW b, DOMAIN b = DOMAIN a, b.land \in Nat,
         b.land >= a.land, landed[<<nid, k>>] \in Nat, Attacks[nid][k].period \in Nat
  PROVE  AttackIs(nid, k, b)
BY DEF AttackIs, ClocksAre

\* An attack's times are numbers.
LEMMA PeriodIs ==
  ASSUME NEW nid \in Npcs, NEW k \in DOMAIN Attacks[nid]
  PROVE  Attacks[nid][k].period \in Nat \ {0} /\ <<nid, k>> \in AttackIds
<1>1. Attacks[nid][k].period \in Nat \ {0}
  BY OwnerAssumption
<1>2. <<nid, k>> \in {nid} \X DOMAIN Attacks[nid]
  OBVIOUS
<1> QED BY <1>1, <1>2 DEF AttackIds

\* One who joins at a step of the owner's or later.
LEMMA NewNpcIs ==
  ASSUME ClocksAre, NpcsAre, NEW nid \in Npcs, NEW join \in Nat, join >= step_n
  PROVE  NpcIs(nid, NewNpc(nid, join))
<1>1. DOMAIN NewNpc(nid, join) = {"join", "meter", "reel", "attacks"} /\ NewNpc(nid, join).reel \in Nat
  BY DEF NewNpc
<1>2. /\ DOMAIN NewNpc(nid, join).attacks = DOMAIN Attacks[nid]
      /\ \A k \in DOMAIN Attacks[nid] :
           NewNpc(nid, join).attacks[k] = [land |-> join + Attacks[nid][k].period, told |-> FALSE, target |-> ""]
  BY DEF NewNpc
<1>3. ASSUME NEW k \in DOMAIN Attacks[nid] PROVE AttackIs(nid, k, NewNpc(nid, join).attacks[k])
  <2>1. Attacks[nid][k].period \in Nat \ {0} /\ landed[<<nid, k>>] \in Nat /\ landed[<<nid, k>>] <= step_n
    BY PeriodIs DEF NpcsAre
  <2> DEFINE a == NewNpc(nid, join).attacks[k]
  <2>2. a = [land |-> join + Attacks[nid][k].period, told |-> FALSE, target |-> ""]
    BY <1>2
  <2> HIDE DEF a
  <2>4. DOMAIN a = {"land", "told", "target"} /\ a.land = join + Attacks[nid][k].period
    BY <2>2
  <2>3. AttackIs(nid, k, a)
    BY <2>1, <2>4 DEF AttackIs, ClocksAre
  <2> QED BY <2>3 DEF a
<1> DEFINE npc == NewNpc(nid, join)
<1>4. DOMAIN npc = {"join", "meter", "reel", "attacks"} /\ npc.reel \in Nat
  BY <1>1
<1>6. DOMAIN npc.attacks = DOMAIN Attacks[nid]
  BY <1>2
<1>7. \A k \in DOMAIN Attacks[nid] : AttackIs(nid, k, npc.attacks[k])
  BY <1>3
<1> HIDE DEF npc
<1>5. NpcIs(nid, npc)
  BY <1>4, <1>6, <1>7 DEF NpcIs
<1> QED BY <1>5 DEF npc

\* What moves attacks to no sooner, and leaves a reel to be counted, leaves an NPC one.
LEMMA NpcLater ==
  ASSUME ClocksAre, NpcsAre, NEW nid \in Npcs, NEW npc, NpcIs(nid, npc), NEW other,
         DOMAIN other = DOMAIN npc, other.reel \in Nat, DOMAIN other.attacks = DOMAIN npc.attacks,
         \A k \in DOMAIN npc.attacks : /\ DOMAIN other.attacks[k] = DOMAIN npc.attacks[k]
                                       /\ other.attacks[k].land \in Nat
                                       /\ other.attacks[k].land >= npc.attacks[k].land
  PROVE  NpcIs(nid, other)
<1>1. ASSUME NEW k \in DOMAIN Attacks[nid] PROVE AttackIs(nid, k, other.attacks[k])
  <2> DEFINE a == npc.attacks[k]
             b == other.attacks[k]
  <2>1. AttackIs(nid, k, a) /\ DOMAIN b = DOMAIN a /\ b.land \in Nat /\ b.land >= a.land
    BY DEF NpcIs
  <2>2. landed[<<nid, k>>] \in Nat /\ Attacks[nid][k].period \in Nat
    BY PeriodIs DEF NpcsAre
  <2> HIDE DEF a, b
  <2>3. AttackIs(nid, k, b)
    BY <2>1, <2>2, AttackLater
  <2> QED BY <2>3 DEF b
<1> QED BY <1>1 DEF NpcIs

\* A boss that starts to reel is still an NPC: what was due waits.
LEMMA ReelsIs ==
  ASSUME ClocksAre, NpcsAre, NEW nid \in Npcs, NEW npc, NpcIs(nid, npc)
  PROVE  NpcIs(nid, _boss_reels(npc))
<1> DEFINE end == step_n + npc.reel
           other == _boss_reels(npc)
<1>0. end \in Nat
  BY DEF NpcIs, ClocksAre
<1>1. \A k \in DOMAIN npc.attacks : DOMAIN npc.attacks[k] = {"land", "told", "target"} /\ npc.attacks[k].land \in Nat
  BY DEF NpcIs, AttackIs
<1>2. /\ DOMAIN other = DOMAIN npc /\ other.reel = npc.reel /\ DOMAIN other.attacks = DOMAIN npc.attacks
      /\ \A k \in DOMAIN npc.attacks :
           other.attacks[k] = IF npc.attacks[k].land < end THEN [land |-> end, told |-> FALSE, target |-> ""] ELSE npc.attacks[k]
  BY DEF _boss_reels, NpcIs
<1> HIDE DEF other
<1>3. \A k \in DOMAIN npc.attacks : /\ DOMAIN other.attacks[k] = DOMAIN npc.attacks[k]
                                    /\ other.attacks[k].land \in Nat
                                    /\ other.attacks[k].land >= npc.attacks[k].land
  <2> HIDE DEF end
  <2> TAKE k \in DOMAIN npc.attacks
  <2> DEFINE a == npc.attacks[k]
             b == other.attacks[k]
  <2>1. /\ b = IF a.land < end THEN [land |-> end, told |-> FALSE, target |-> ""] ELSE a
        /\ DOMAIN a = {"land", "told", "target"} /\ a.land \in Nat
    BY <1>1, <1>2
  <2> HIDE DEF a, b
  <2>2. DOMAIN b = DOMAIN a /\ b.land \in Nat /\ b.land >= a.land
    <3>1. CASE a.land < end
      <4>1. b = [land |-> end, told |-> FALSE, target |-> ""]
        BY <2>1, <3>1
      <4>2. DOMAIN b = {"land", "told", "target"} /\ b.land = end
        BY <4>1
      <4>3. DOMAIN b = DOMAIN a
        BY <2>1, <4>2
      <4>4. a.land \in Nat /\ b.land = end
        BY <2>1, <4>2
      <4>5. b.land \in Nat /\ b.land >= a.land
        BY <1>0, <3>1, <4>4
      <4> QED BY <4>3, <4>5
    <3>2. CASE ~(a.land < end)
      BY <2>1, <3>2
    <3> QED BY <3>1, <3>2
  <2> QED BY <2>2 DEF a, b
<1>4. NpcIs(nid, other)
  BY <1>2, <1>3, NpcLater DEF NpcIs
<1> QED BY <1>4 DEF other

\* A change of the meter or of the reel.
LEMMA MeterIs ==
  ASSUME NEW nid, NEW npc, NpcIs(nid, npc), NEW meter, NEW reel \in Nat
  PROVE  NpcIs(nid, [npc EXCEPT !.meter = meter, !.reel = reel])
BY DEF NpcIs

\* A hit on the meter leaves an NPC one.
LEMMA AddIs ==
  ASSUME ClocksAre, NpcsAre, NEW nid \in Npcs, NEW npc, NpcIs(nid, npc), NEW amount
  PROVE  NpcIs(nid, add(npc, amount))
<1>1. npc.reel \in Nat
  BY DEF NpcIs
<1>2. CASE npc.reel > 0
  BY <1>2 DEF add
<1>3. CASE npc.reel = 0 /\ npc.meter + amount >= FullMeter
  <2> DEFINE other == [npc EXCEPT !.meter = 0, !.reel = ReelSteps]
  <2>1. ReelSteps \in Nat
    BY OwnerAssumption
  <2>2. NpcIs(nid, other)
    BY <2>1, MeterIs
  <2> HIDE DEF other
  <2>3. NpcIs(nid, _boss_reels(other))
    BY <2>2, ReelsIs
  <2> QED BY <1>3, <2>3 DEF add, other
<1>4. CASE npc.reel = 0 /\ ~(npc.meter + amount >= FullMeter)
  <2>1. add(npc, amount) = [npc EXCEPT !.meter = @ + amount]
    BY <1>4 DEF add
  <2>2. NpcIs(nid, [npc EXCEPT !.meter = @ + amount])
    BY DEF NpcIs
  <2> QED BY <2>1, <2>2
<1> QED BY <1>1, <1>2, <1>3, <1>4

\* So does a stun (_call).
LEMMA StunIs ==
  ASSUME ClocksAre, NpcsAre, NEW nid \in Npcs, NEW npc, NpcIs(nid, npc), NEW slot
  PROVE  NpcIs(nid, stun(npc, slot))
<1> DEFINE other == [npc EXCEPT !.attacks = [k \in DOMAIN @ |-> [npc.attacks[k] EXCEPT !.land = npc.attacks[k].land + StunSteps]]]
<1>1. StunSteps \in Nat
  BY OwnerAssumption
<1>2. \A k \in DOMAIN npc.attacks : DOMAIN npc.attacks[k] = {"land", "told", "target"} /\ npc.attacks[k].land \in Nat
  BY DEF NpcIs, AttackIs
<1>3. /\ DOMAIN other = DOMAIN npc /\ other.reel = npc.reel /\ DOMAIN other.attacks = DOMAIN npc.attacks
      /\ \A k \in DOMAIN npc.attacks : other.attacks[k] = [npc.attacks[k] EXCEPT !.land = npc.attacks[k].land + StunSteps]
  BY DEF NpcIs
<1>4. stun(npc, slot) \in {npc, other}
  BY DEF stun
<1> HIDE DEF other
<1>5. \A k \in DOMAIN npc.attacks : /\ DOMAIN other.attacks[k] = DOMAIN npc.attacks[k]
                                    /\ other.attacks[k].land \in Nat
                                    /\ other.attacks[k].land >= npc.attacks[k].land
  <2> TAKE k \in DOMAIN npc.attacks
  <2> DEFINE a == npc.attacks[k]
             b == other.attacks[k]
  <2>1. b = [a EXCEPT !.land = a.land + StunSteps] /\ DOMAIN a = {"land", "told", "target"} /\ a.land \in Nat
    BY <1>2, <1>3
  <2> HIDE DEF a, b
  <2>2. DOMAIN b = DOMAIN a /\ b.land = a.land + StunSteps
    BY <2>1
  <2>3. DOMAIN b = DOMAIN a /\ b.land \in Nat /\ b.land >= a.land
    BY <1>1, <2>1, <2>2
  <2> QED BY <2>3 DEF a, b
<1>6. NpcIs(nid, other)
  BY <1>3, <1>5, NpcLater DEF NpcIs
<1> QED BY <1>4, <1>6

\* A later step, if no attack is due before it.
LEMMA NpcAt ==
  ASSUME NEW nid, NEW npc, DOMAIN npc = {"join", "meter", "reel", "attacks"}, npc.reel \in Nat,
         DOMAIN npc.attacks = DOMAIN Attacks[nid],
         \A k \in DOMAIN Attacks[nid] :
           /\ DOMAIN npc.attacks[k] = {"land", "told", "target"} /\ npc.attacks[k].land \in Nat
           /\ npc.attacks[k].land > step_n'
           /\ landed'[<<nid, k>>] # 0 => npc.attacks[k].land >= landed'[<<nid, k>>] + Attacks[nid][k].period
  PROVE  NpcIs(nid, npc)'
BY DEF NpcIs, AttackIs

\* NPCs that are still ones, at the same step.
LEMMA NpcsChange ==
  ASSUME NpcsAre, UNCHANGED <<step_n, landed>>, \A nid \in DOMAIN npcs' : NpcIs(nid, npcs'[nid])
  PROVE  NpcsAre'
<1>1. \A nid, npc : NpcIs(nid, npc) <=> NpcIs(nid, npc)'
  BY DEF NpcIs, AttackIs
<1>2. \A nid \in DOMAIN npcs' : NpcIs(nid, npcs[nid])'
  BY DEF NpcIs, AttackIs
<1> QED BY <1>2 DEF NpcsAre

\* What is out of the loop: a change told of.
LEMMA MovesRun ==
  ASSUME RunInv, NEW m, NEW f, Moves(m, f), DOMAIN f \subseteq Npcs,
         \A nid \in DOMAIN f : f[nid] \in Nat /\ (nid \notin DOMAIN npcs => f[nid] >= step_n)
  PROVE  RunInv'
<1>1. /\ foes' = f /\ inbox' = Append(inbox, Told(m, f)) /\ phase \in {"listen", "call"}
      /\ UNCHANGED <<clock, phase, need_sync, ended, step_n, target, npcs, players, landed>>
  BY DEF Moves, tick, history
<1>2. Told(m, f).op \in {"sync", "end"}
  BY DEF Told, Sync, End
<1>3. InboxIs' /\ ToldOf'
  BY <1>1, <1>2, ToldInbox DEF RunInv
<1>4. NpcsAre'
  <2>1. \A nid \in DOMAIN npcs' : NpcIs(nid, npcs'[nid])
    BY <1>1 DEF RunInv, NpcsAre
  <2> QED BY <1>1, <2>1, NpcsChange DEF RunInv
<1>5. ClocksAre' /\ FoesAre'
  BY <1>1 DEF RunInv, ClocksAre, FoesAre
<1> QED BY <1>3, <1>4, <1>5 DEF RunInv, MembersKnown

\* A player comes or goes: the owner is told.
LEMMA ArrivesRun ==
  ASSUME RunInv, NEW pid, Arrives(pid) \/ Departs(pid)
  PROVE  RunInv'
<1>1. PICK m : Moves(m, foes)
  BY DEF Arrives, Departs
<1> QED BY <1>1, MovesRun DEF RunInv, FoesAre

\* An NPC comes or goes: the owner is told.
LEMMA AppearsRun ==
  ASSUME RunInv, NEW nid \in Npcs, Appears(nid) \/ Vanishes(nid)
  PROVE  RunInv'
<1>1. CASE Appears(nid)
  <2> DEFINE f == With(foes, nid, clock)
  <2>1. DOMAIN f \subseteq DOMAIN foes \union {nid} /\ \A x \in DOMAIN f : f[x] = IF x = nid THEN clock ELSE foes[x]
    BY DEF With
  <2>2. Moves(members, f) /\ clock \in Nat /\ clock >= step_n
    BY <1>1 DEF Appears, RunInv, ClocksAre
  <2> HIDE DEF f
  <2> QED BY <2>1, <2>2, MovesRun DEF RunInv, FoesAre
<1>2. CASE Vanishes(nid)
  <2> DEFINE f == Without(foes, nid)
  <2>1. DOMAIN f \subseteq DOMAIN foes /\ \A x \in DOMAIN f : f[x] = foes[x]
    BY DEF Without
  <2>2. Moves(members, f)
    BY <1>2 DEF Vanishes
  <2> HIDE DEF f
  <2> QED BY <2>1, <2>2, MovesRun DEF RunInv, FoesAre
<1> QED BY <1>1, <1>2

\* An input tells nobody's coming or going.
LEMMA ReceiveRun ==
  ASSUME RunInv, NEW pid, NEW i, NEW at, Receive(pid, i, at)
  PROVE  RunInv'
<1> DEFINE m == [op |-> "input", pid |-> pid, keys |-> i.keys, act |-> i.act, slot |-> i.slot,
                 aim |-> i.aim, at |-> at, press |-> inputs + 1]
<1>1. /\ inbox' = Append(inbox, m) /\ phase = "listen" /\ m.op = "input"
      /\ UNCHANGED <<foes, members, clock, phase, need_sync, ended, step_n, target, npcs, players, landed>>
  BY DEF Receive, tick, history, world
<1> HIDE DEF m
<1>2. InboxIs' /\ (ToldOf => ToldOf')
  BY <1>1, ToldInbox DEF RunInv
<1>4. NpcsAre'
  <2>1. \A nid \in DOMAIN npcs' : NpcIs(nid, npcs'[nid])
    BY <1>1 DEF RunInv, NpcsAre
  <2> QED BY <1>1, <2>1, NpcsChange DEF RunInv
<1>5. ClocksAre' /\ FoesAre'
  BY <1>1 DEF RunInv, ClocksAre, FoesAre
<1> QED BY <1>1, <1>2, <1>4, <1>5 DEF RunInv, MembersKnown

\* What only moves the loop on: the clock, a tick's start, a state published.
LEMMA TurnsRun ==
  ASSUME RunInv, Tick \/ Begin \/ Publish
  PROVE  RunInv'
<1>1. UNCHANGED <<foes, members, inbox, need_sync, ended, step_n, npcs, players, landed>>
  BY DEF Tick, Begin, Publish, world, history, tick
<1>2. /\ Tick => clock' = clock + 1 /\ UNCHANGED <<phase, target>>
      /\ Begin => phase = "ready" /\ phase' = "run" /\ target' = clock /\ clock' = clock
      /\ Publish => phase = "call" /\ phase' = "listen" /\ UNCHANGED <<clock, target>>
  BY DEF Tick, Begin, Publish, world, history, tick
<1>4. NpcsAre'
  <2>1. \A nid \in DOMAIN npcs' : NpcIs(nid, npcs'[nid])
    BY <1>1 DEF RunInv, NpcsAre
  <2> QED BY <1>1, <2>1, NpcsChange DEF RunInv
<1>5. ClocksAre'
  BY <1>1, <1>2 DEF RunInv, ClocksAre
<1>6. FoesAre'
  BY <1>1 DEF RunInv, FoesAre
<1>7. InboxIs'
  BY <1>1, <1>2 DEF RunInv, InboxIs, LoopPhases, Quiets
<1>8. MembersKnown'
  BY <1>1, <1>2 DEF RunInv, MembersKnown, ToldOf
<1> QED BY <1>4, <1>5, <1>6, <1>7, <1>8 DEF RunInv

\* A call that leaves the membership alone.
LEMMA CallKept ==
  ASSUME RunInv, Elsewhere, phase = "call", Unmoved, DOMAIN players' = DOMAIN players, DOMAIN npcs' = DOMAIN npcs,
         \A nid \in DOMAIN npcs' : NpcIs(nid, npcs'[nid])
  PROVE  RunInv'
<1>1. UNCHANGED <<members, foes, inbox, clock, phase, need_sync, ended, step_n, target, landed>>
  BY DEF Elsewhere, Unmoved, tick
<1>2. NpcsAre'
  BY <1>1, NpcsChange DEF RunInv
<1>3. ClocksAre'
  BY <1>1 DEF RunInv, ClocksAre
<1>4. FoesAre'
  BY <1>1 DEF RunInv, FoesAre
<1>5. InboxIs'
  BY <1>1 DEF RunInv, InboxIs
<1>6. MembersKnown'
  BY <1>1 DEF RunInv, MembersKnown, ToldOf
<1> QED BY <1>2, <1>3, <1>4, <1>5, <1>6 DEF RunInv

\* A call that someone leaves for.
LEMMA CallLeft ==
  ASSUME RunInv, Elsewhere, phase = "call", NEW m, NEW f, Leave(m, f), DOMAIN npcs' \subseteq DOMAIN npcs,
         \A nid \in DOMAIN npcs' : NpcIs(nid, npcs'[nid]),
         DOMAIN f \subseteq DOMAIN foes,
         \A nid \in DOMAIN f : f[nid] = foes[nid] /\ (nid \notin DOMAIN npcs' => nid \notin DOMAIN npcs)
  PROVE  RunInv'
<1>1. /\ foes' = f /\ inbox' = Append(inbox, Told(m, f))
      /\ UNCHANGED <<clock, phase, need_sync, ended, step_n, target, landed>>
  BY DEF Elsewhere, Leave, tick
<1>2. Told(m, f).op \in {"sync", "end"}
  BY DEF Told, Sync, End
<1>3. InboxIs' /\ ToldOf'
  BY <1>1, <1>2, ToldInbox DEF RunInv
<1>4. NpcsAre'
  BY <1>1, NpcsChange DEF RunInv
<1>5. ClocksAre' /\ FoesAre'
  BY <1>1 DEF RunInv, ClocksAre, FoesAre
<1> QED BY <1>3, <1>4, <1>5 DEF RunInv, MembersKnown

\* NPCs that stay as they are.
LEMMA SameNpcs ==
  ASSUME RunInv, npcs' = npcs
  PROVE  \A nid \in DOMAIN npcs' : NpcIs(nid, npcs'[nid])
BY DEF RunInv, NpcsAre

\* A strike goes to Lua: it may stun, stagger or kill.
LEMMA StrikesRun ==
  ASSUME RunInv, Strikes
  PROVE  RunInv'
<1> DEFINE pid == Head(calls).pid
           e == Head(calls).e
<1>1. phase = "call" /\ Elsewhere
  BY DEF Strikes, Calling
<1>2. \/ /\ Unmoved /\ npcs' = npcs
         /\ players' \in {players, [players EXCEPT ![pid].dot = cancel_volleys(@, e.target)]}
      \/ /\ Leave(members, Without(foes, e.target))
         /\ npcs' = Without(npcs, e.target)
      \/ /\ Unmoved /\ players' = players
         /\ npcs' = [nid \in DOMAIN npcs |->
              IF nid # e.target THEN npcs[nid]
              ELSE IF e.target \in Bosses THEN add(stun(npcs[nid], e.slot), KickPoise[e.slot]) ELSE stun(npcs[nid], e.slot)]
  BY DEF Strikes
<1> HIDE DEF pid, e
<1>3. CASE /\ Unmoved /\ npcs' = npcs
           /\ players' \in {players, [players EXCEPT ![pid].dot = cancel_volleys(@, e.target)]}
  <2>1. DOMAIN players' = DOMAIN players
    BY <1>3
  <2> QED BY <1>1, <1>3, <2>1, CallKept, SameNpcs
<1>4. CASE /\ Leave(members, Without(foes, e.target))
           /\ npcs' = Without(npcs, e.target)
  <2>1. /\ DOMAIN npcs' = DOMAIN npcs \ {e.target}
        /\ \A nid \in DOMAIN npcs' : npcs'[nid] = npcs[nid]
    BY <1>4 DEF Without
  <2>2. \A nid \in DOMAIN npcs' : NpcIs(nid, npcs'[nid])
    BY <2>1 DEF RunInv, NpcsAre
  <2> DEFINE f == Without(foes, e.target)
  <2>3. DOMAIN f = DOMAIN foes \ {e.target} /\ \A nid \in DOMAIN f : f[nid] = foes[nid]
    BY DEF Without
  <2>4. Leave(members, f)
    BY <1>4
  <2> HIDE DEF f
  <2> QED BY <1>1, <2>1, <2>2, <2>3, <2>4, CallLeft
<1>5. CASE /\ Unmoved /\ players' = players
           /\ npcs' = [nid \in DOMAIN npcs |->
              IF nid # e.target THEN npcs[nid]
              ELSE IF e.target \in Bosses THEN add(stun(npcs[nid], e.slot), KickPoise[e.slot]) ELSE stun(npcs[nid], e.slot)]
  <2>1. ASSUME NEW nid \in DOMAIN npcs PROVE NpcIs(nid, npcs'[nid])
    <3>1. nid \in Npcs /\ NpcIs(nid, npcs[nid]) /\ ClocksAre /\ NpcsAre
      BY DEF RunInv, FoesAre, NpcsAre
    <3>2. NpcIs(nid, stun(npcs[nid], e.slot))
      BY <3>1, StunIs
    <3>3. NpcIs(nid, add(stun(npcs[nid], e.slot), KickPoise[e.slot]))
      BY <3>1, <3>2, AddIs
    <3>4. npcs'[nid] \in {npcs[nid], stun(npcs[nid], e.slot), add(stun(npcs[nid], e.slot), KickPoise[e.slot])}
      BY <1>5
    <3> QED BY <3>1, <3>2, <3>3, <3>4
  <2>2. DOMAIN npcs' = DOMAIN npcs
    BY <1>5
  <2> QED BY <1>1, <1>5, <2>1, <2>2, CallKept
<1> QED BY <1>2, <1>3, <1>4, <1>5

\* A perfect block goes to the meter.
LEMMA PoiseRun ==
  ASSUME RunInv, Poise
  PROVE  RunInv'
<1> DEFINE c == Head(calls)
<1>1. /\ phase = "call" /\ Elsewhere /\ Unmoved /\ players' = players
      /\ npcs' = [nid \in DOMAIN npcs |-> IF nid = c.nid THEN add(npcs[nid], PerfectPoise) ELSE npcs[nid]]
  BY DEF Poise, Calling
<1> HIDE DEF c
<1>2. ASSUME NEW nid \in DOMAIN npcs PROVE NpcIs(nid, npcs'[nid])
  <2>1. nid \in Npcs /\ NpcIs(nid, npcs[nid]) /\ ClocksAre /\ NpcsAre
    BY DEF RunInv, FoesAre, NpcsAre
  <2>2. NpcIs(nid, add(npcs[nid], PerfectPoise))
    BY <2>1, AddIs
  <2>3. npcs'[nid] \in {npcs[nid], add(npcs[nid], PerfectPoise)}
    BY <1>1
  <2> QED BY <2>1, <2>2, <2>3
<1>3. DOMAIN npcs' = DOMAIN npcs
  BY <1>1
<1> QED BY <1>1, <1>2, <1>3, CallKept

\* A blow goes to Lua, someone flees, or nothing is told.
LEMMA BlowsRun ==
  ASSUME RunInv, Blows \/ Flees \/ Tells
  PROVE  RunInv'
<1> DEFINE pid == Head(calls).pid
<1>1. phase = "call" /\ Elsewhere /\ npcs' = npcs
  BY DEF Blows, Flees, Tells, Calling
<1>2. \/ Unmoved /\ players' = players
      \/ Leave(Without(members, pid), foes)
  BY DEF Blows, Flees, Tells
<1> HIDE DEF pid
<1>3. CASE Unmoved /\ players' = players
  BY <1>1, <1>3, CallKept, SameNpcs
<1>4. CASE Leave(Without(members, pid), foes)
  <2> DEFINE m == Without(members, pid)
  <2>1. Leave(m, foes)
    BY <1>4
  <2> HIDE DEF m
  <2> QED BY <1>1, <2>1, CallLeft, SameNpcs
<1> QED BY <1>2, <1>3, <1>4

\* The inbox is read.
LEMMA TakesRun ==
  ASSUME RunInv, _take_inbox
  PROVE  RunInv'
<1> DEFINE s == FoldLeft(Taken, InboxState, inbox)
<1>1. /\ phase = "listen" /\ ended' = s.ended /\ need_sync' = s.need_sync /\ players' = s.players
      /\ phase' = IF s.ended THEN "over" ELSE IF s.need_sync THEN "sync" ELSE "ready"
      /\ inbox' = <<>>
      /\ UNCHANGED <<members, foes, clock, step_n, target, npcs, landed>>
  BY DEF _take_inbox, InboxState, world, tick, history
<1>2. InboxRead(s, Len(inbox)) /\ DOMAIN inbox = 1..Len(inbox)
  BY InboxReadWhole, SequenceHas DEF RunInv, InboxIs
<1> HIDE DEF s
<1>3. /\ DOMAIN s.players = DOMAIN players
      /\ s.ended \/ s.need_sync <=> ended \/ ToldOf
  BY <1>2 DEF InboxRead, ToldOf
<1>4. InboxIs'
  BY <1>1, NoneIs DEF InboxIs, LoopPhases, Quiets
<1>5. ClocksAre' /\ FoesAre'
  BY <1>1 DEF RunInv, ClocksAre, FoesAre
<1>6. NpcsAre'
  BY <1>1, SameNpcs, NpcsChange DEF RunInv
<1>7. MembersKnown'
  BY <1>1, <1>3 DEF RunInv, MembersKnown, ToldOf
<1> QED BY <1>4, <1>5, <1>6, <1>7 DEF RunInv

\* A finite set in order: each element is at one place.
LEMMA InOrder ==
  ASSUME NEW S, IsFiniteSet(S)
  PROVE  /\ IsSequence(SetToSeq(S))
         /\ \A i \in DOMAIN SetToSeq(S) : SetToSeq(S)[i] \in S
         /\ \A x \in S : \E i \in DOMAIN SetToSeq(S) : SetToSeq(S)[i] = x
         /\ \A i, j \in DOMAIN SetToSeq(S) : SetToSeq(S)[i] = SetToSeq(S)[j] => i = j
<1>1. Cardinality(S) \in Nat /\ \E f \in Bijection(1..Cardinality(S), S) : TRUE
  BY FS_CardinalityType DEF ExistsBijection
<1>2. PICK f \in Bijection(1..Cardinality(S), S) : TRUE
  BY <1>1
<1> DEFINE q == SetToSeq(S)
<1>3. f \in [1..Cardinality(S) -> S] /\ IsInjective(f)
  BY <1>2 DEF Bijection, Injection, IsInjective
<1>4. q \in [1..Cardinality(S) -> S] /\ IsInjective(q)
  BY <1>3 DEF SetToSeq
<1> HIDE DEF q
<1>5. q = [i \in 1..Cardinality(S) |-> q[i]] /\ DOMAIN q = 1..Cardinality(S)
  BY <1>4
<1>6. IsSequence(q)
  BY <1>1, <1>5, SequenceMade
<1>7. \A i, j \in DOMAIN q : q[i] = q[j] => i = j
  BY <1>4 DEF IsInjective
<1>8. \A x \in S : \E i \in DOMAIN q : q[i] = x
  <2>1. q \in Injection(1..Cardinality(S), S)
    BY <1>4 DEF Injection, IsInjective
  <2>2. IsFiniteSet(1..Cardinality(S)) /\ Cardinality(1..Cardinality(S)) = Cardinality(S)
    BY <1>1, FS_Interval
  <2>3. q \in Surjection(1..Cardinality(S), S)
    BY <2>1, <2>2, FS_Injection
  <2> QED BY <1>5, <2>3 DEF Surjection
<1>9. \A i \in DOMAIN q : q[i] \in S
  BY <1>4
<1> QED BY <1>6, <1>7, <1>8, <1>9 DEF q

\* The volleys at those who have gone go; whose dots they are does not change.
LEMMA DroppedIs ==
  ASSUME NEW b, NEW q, IsSequence(q)
  PROVE  DOMAIN FoldLeft(NoVolleysAt, b, q) = DOMAIN b
<1>1. PICK g : DroppedTrace(g, b, q)
  BY DroppedRun
<1> DEFINE H == {k \in 0..Len(q) : DOMAIN g[k] = DOMAIN b}
<1>2. Len(q) \in Nat
  BY SequenceHas
<1>6. \A ps, nid : DOMAIN NoVolleysAt(ps, nid) = DOMAIN ps
  BY DEF NoVolleysAt
<1>7. g[0] = b /\ \A i \in 1..Len(q) : DOMAIN g[i] = DOMAIN g[i - 1]
  BY <1>1, <1>6 DEF DroppedTrace
<1>3. 0 \in H /\ \A i \in 1..Len(q) : i - 1 \in H => i \in H
  BY <1>2, <1>7
<1>4. H \in SUBSET (0..Len(q))
  OBVIOUS
<1> HIDE DEF H
<1>5. H = 0..Len(q)
  BY <1>2, <1>3, <1>4, AtEachPlace
<1> QED BY <1>1, <1>2, <1>5 DEF H, DroppedTrace

\* A sync: everyone is as Lua has them, and those who were there keep what they had.
LEMMA SyncsRun ==
  ASSUME RunInv, _loopSyncs
  PROVE  RunInv'
<1>1. CASE ~Fighting /\ phase' = "over" /\ UNCHANGED <<members, foes, clock, inbox, need_sync, step_n, target, npcs, players, landed>>
  <2>1. NpcsAre'
    BY <1>1, SameNpcs, NpcsChange DEF RunInv
  <2>2. ClocksAre' /\ FoesAre'
    BY <1>1 DEF RunInv, ClocksAre, FoesAre
  <2>3. InboxIs' /\ MembersKnown'
    BY <1>1 DEF RunInv, InboxIs, MembersKnown, LoopPhases, Quiets
  <2> QED BY <2>1, <2>2, <2>3 DEF RunInv
<1>2. CASE phase \in {"start", "sync"} /\ phase' = (IF phase = "start" THEN "listen" ELSE "ready") /\ Synced
  <2>1. /\ players' = _sync.players /\ npcs' = _sync.npcs /\ ~need_sync'
        /\ UNCHANGED <<members, foes, clock, inbox, step_n, target, landed>>
    BY <1>2 DEF Synced, world, tick
  <2>2. DOMAIN players' = DOMAIN members
    <3> DEFINE gone == DOMAIN npcs \ DOMAIN foes
               there == Joined([pid \in DOMAIN members |-> NewPlayer(pid, members[pid] + Lead)], players)
    <3>1. players' = FoldLeft(NoVolleysAt, there, SetToSeq(gone))
      BY <2>1 DEF _sync
    <3>2. DOMAIN there = DOMAIN members
      BY DEF Joined
    <3>3. gone \in SUBSET Npcs /\ IsFiniteSet(Npcs)
      BY OwnerAssumption DEF RunInv, FoesAre
    <3> HIDE DEF gone, there
    <3>4. IsSequence(SetToSeq(gone))
      BY <3>3, InOrder, FS_Subset
    <3> QED BY <3>1, <3>2, <3>4, DroppedIs
  <2>3. /\ DOMAIN npcs' = DOMAIN foes
        /\ \A nid \in DOMAIN foes : npcs'[nid] = IF nid \in DOMAIN npcs THEN npcs[nid] ELSE NewNpc(nid, foes[nid])
    BY <2>1 DEF _sync, Joined
  <2>4. ASSUME NEW nid \in DOMAIN npcs' PROVE NpcIs(nid, npcs'[nid])
    <3>1. nid \in Npcs /\ ClocksAre /\ NpcsAre /\ foes[nid] \in Nat /\ (nid \notin DOMAIN npcs => foes[nid] >= step_n)
      BY <2>3 DEF RunInv, FoesAre
    <3>2. CASE nid \in DOMAIN npcs
      BY <2>3, <3>2 DEF RunInv, NpcsAre
    <3>3. CASE nid \notin DOMAIN npcs
      BY <2>3, <3>1, <3>3, NewNpcIs
    <3> QED BY <3>2, <3>3
  <2>5. NpcsAre'
    BY <2>1, <2>4, NpcsChange DEF RunInv
  <2>6. ClocksAre'
    BY <1>2, <2>1 DEF RunInv, ClocksAre
  <2>7. FoesAre'
    BY <2>1, <2>3 DEF RunInv, FoesAre
  <2>8. InboxIs'
    BY <1>2, <2>1 DEF RunInv, InboxIs, LoopPhases, Quiets
  <2>9. MembersKnown'
    BY <2>1, <2>2, <2>3 DEF MembersKnown
  <2> QED BY <2>5, <2>6, <2>7, <2>8, <2>9 DEF RunInv
<1> QED BY <1>1, <1>2 DEF _loopSyncs, world, tick, history

\* Nobody has to be told of anything once a tick's inbox has been read.
LEMMA ToldOfNothing ==
  ASSUME RunInv, phase = "run"
  PROVE  ~ToldOf /\ DOMAIN npcs = DOMAIN foes
<1>1. inbox = <<>> /\ ~need_sync
  BY DEF RunInv, InboxIs, Quiets
<1>2. ~ToldOf
  BY <1>1 DEF ToldOf
<1> QED BY <1>2 DEF RunInv, MembersKnown

\* A boss's step is of its reel and its meter only.
LEMMA BossStepIs ==
  ASSUME NEW nid, NEW npc, NpcIs(nid, npc)
  PROVE  /\ DOMAIN boss_step(npc) = DOMAIN npc /\ boss_step(npc).attacks = npc.attacks
         /\ boss_step(npc).reel \in Nat
BY DEF boss_step, NpcIs

\* What an attack's step makes of it, and whether it lands.
LEMMA TickedIs ==
  ASSUME ClocksAre, NpcsAre, NEW nid \in DOMAIN npcs, nid \in Npcs, NEW k \in DOMAIN Attacks[nid]
  PROVE  /\ DOMAIN Ticked(nid, k, step_n + 1) = {"land", "told", "target"}
         /\ npcs[nid].attacks[k].land \in Nat /\ npcs[nid].attacks[k].land >= step_n + 1
         /\ Ticked(nid, k, step_n + 1).land = IF npcs[nid].attacks[k].land = step_n + 1
              THEN step_n + 1 + Attacks[nid][k].period ELSE npcs[nid].attacks[k].land
<1> DEFINE a == npcs[nid].attacks[k]
           b == Ticked(nid, k, step_n + 1)
<1>1. AttackIs(nid, k, a)
  BY DEF NpcsAre, NpcIs
<1>2. IF Due(a, step_n + 1) THEN b = [land |-> a.land + Attacks[nid][k].period, told |-> FALSE, target |-> ""]
      ELSE \E tells, to : b = [a EXCEPT !.told = tells, !.target = to]
  <2> DEFINE tells == a.told \/ step_n + 1 >= a.land - Attacks[nid][k].warn
             aimed == IF a.told \/ ~tells THEN a.target ELSE First(players, "")
  <2>1. b = IF Due(a, step_n + 1) THEN [land |-> a.land + Attacks[nid][k].period, told |-> FALSE, target |-> ""]
            ELSE [a EXCEPT !.told = tells, !.target = aimed]
    BY DEF Ticked
  <2> HIDE DEF a, b, tells, aimed
  <2> QED BY <2>1
<1> HIDE DEF a, b
<1>3. a.land \in Nat /\ a.land >= step_n + 1 /\ DOMAIN a = {"land", "told", "target"} /\ step_n \in Nat
  BY <1>1 DEF AttackIs, ClocksAre
<1>4. Attacks[nid][k].period \in Nat
  BY PeriodIs
<1>5. CASE a.land = step_n + 1
  <2>1. b = [land |-> a.land + Attacks[nid][k].period, told |-> FALSE, target |-> ""]
    BY <1>2, <1>3, <1>5 DEF Due
  <2>2. DOMAIN b = {"land", "told", "target"} /\ b.land = step_n + 1 + Attacks[nid][k].period
    BY <1>5, <2>1
  <2> QED BY <1>3, <1>5, <2>2 DEF a, b
<1>6. CASE a.land # step_n + 1
  <2>3. ~Due(a, step_n + 1)
    BY <1>3, <1>6 DEF Due
  <2>4. \E tells, to : b = [a EXCEPT !.told = tells, !.target = to]
    BY <1>2, <2>3, Zenon
  <2>1. PICK tells, to : b = [a EXCEPT !.told = tells, !.target = to]
    BY <2>4
  <2>2. DOMAIN b = {"land", "told", "target"} /\ b.land = a.land
    BY <1>3, <2>1
  <2> QED BY <1>3, <1>6, <2>2 DEF a, b
<1> QED BY <1>5, <1>6

\* Which attacks land at a step.
LEMMA LandingIs ==
  ASSUME ClocksAre, NpcsAre, DOMAIN npcs \subseteq Npcs
  PROVE  /\ \A x \in Landing(step_n + 1) : x[1] \in DOMAIN npcs /\ x[2] \in DOMAIN Attacks[x[1]] /\ x = <<x[1], x[2]>>
         /\ \A nid \in DOMAIN npcs : \A k \in DOMAIN Attacks[nid] :
              <<nid, k>> \in Landing(step_n + 1) <=> npcs[nid].attacks[k].land = step_n + 1
<1>1. \A nid \in DOMAIN npcs : DOMAIN npcs[nid].attacks = DOMAIN Attacks[nid]
  BY DEF NpcsAre, NpcIs
<1>2. \A x \in Landing(step_n + 1) : x[1] \in DOMAIN npcs /\ x[2] \in DOMAIN Attacks[x[1]] /\ x = <<x[1], x[2]>>
  BY <1>1 DEF Landing
<1>3. ASSUME NEW nid \in DOMAIN npcs, NEW k \in DOMAIN Attacks[nid]
      PROVE  <<nid, k>> \in Landing(step_n + 1) <=> npcs[nid].attacks[k].land = step_n + 1
  <2>1. <<nid, k>> \in UNION {{m} \X DOMAIN npcs[m].attacks : m \in DOMAIN npcs}
    BY <1>1
  <2>2. <<nid, k>> \in Landing(step_n + 1) <=> Due(npcs[nid].attacks[k], step_n + 1)
    BY <2>1 DEF Landing
  <2>3. npcs[nid].attacks[k].land \in Nat /\ npcs[nid].attacks[k].land >= step_n + 1 /\ step_n \in Nat
    BY TickedIs DEF ClocksAre
  <2> QED BY <2>2, <2>3 DEF Due
<1> QED BY <1>2, <1>3

\* The NPCs of a later step, none of whose attacks is due before it.
LEMMA NpcsLater ==
  ASSUME landed' \in [AttackIds -> Nat], \A x \in AttackIds : landed'[x] <= step_n',
         \A nid \in DOMAIN npcs' : /\ DOMAIN npcs'[nid] = {"join", "meter", "reel", "attacks"} /\ npcs'[nid].reel \in Nat
                                   /\ DOMAIN npcs'[nid].attacks = DOMAIN Attacks[nid],
         \A nid \in DOMAIN npcs' : \A k \in DOMAIN Attacks[nid] :
            /\ DOMAIN npcs'[nid].attacks[k] = {"land", "told", "target"} /\ npcs'[nid].attacks[k].land \in Nat
            /\ npcs'[nid].attacks[k].land > step_n'
            /\ landed'[<<nid, k>>] # 0 => npcs'[nid].attacks[k].land >= landed'[<<nid, k>>] + Attacks[nid][k].period
  PROVE  NpcsAre'
BY DEF NpcsAre, NpcIs, AttackIs

\* A step is run: what lands is due now, and its next is a period later.
LEMMA RunStepRun ==
  ASSUME RunInv, RunStep
  PROVE  /\ RunInv'
         /\ \A x \in DOMAIN landed : landed'[x] # landed[x] /\ landed[x] # 0 =>
              landed'[x] - landed[x] >= Attacks[x[1]][x[2]].period
<1> DEFINE n == step_n + 1
<1>1. /\ phase = "run" /\ step_n < target /\ step_n' = n
      /\ UNCHANGED <<members, foes, clock, phase, inbox, need_sync, target>>
      /\ DOMAIN players' = DOMAIN players
      /\ npcs' = [nid \in DOMAIN npcs |->
                   [boss_step(npcs[nid]) EXCEPT !.attacks = [k \in DOMAIN @ |-> Ticked(nid, k, n)]]]
      /\ landed' = [x \in DOMAIN landed |-> IF x \in Landing(n) THEN n ELSE landed[x]]
  BY DEF RunStep, Behind, _run_step, world
<1>2. ~ToldOf /\ DOMAIN npcs = DOMAIN foes
  BY <1>1, ToldOfNothing
<1>3. ClocksAre /\ FoesAre /\ NpcsAre /\ step_n \in Nat /\ n \in Nat /\ DOMAIN npcs \subseteq Npcs
  BY DEF RunInv, FoesAre, ClocksAre
<1>4. ASSUME NEW nid \in DOMAIN npcs
      PROVE  /\ DOMAIN npcs'[nid] = {"join", "meter", "reel", "attacks"} /\ npcs'[nid].reel \in Nat
             /\ DOMAIN npcs'[nid].attacks = DOMAIN Attacks[nid]
             /\ \A k \in DOMAIN Attacks[nid] : npcs'[nid].attacks[k] = Ticked(nid, k, n)
  <2> DEFINE b == boss_step(npcs[nid])
  <2>1. NpcIs(nid, npcs[nid])
    BY <1>3 DEF NpcsAre
  <2>2. DOMAIN b = {"join", "meter", "reel", "attacks"} /\ b.reel \in Nat /\ DOMAIN b.attacks = DOMAIN Attacks[nid]
    BY <2>1, BossStepIs DEF NpcIs
  <2>3. npcs'[nid] = [b EXCEPT !.attacks = [k \in DOMAIN b.attacks |-> Ticked(nid, k, n)]]
    BY <1>1
  <2> HIDE DEF b, n
  <2> QED BY <2>2, <2>3
<1>5. ASSUME NEW nid \in DOMAIN npcs, NEW k \in DOMAIN Attacks[nid]
      PROVE  /\ DOMAIN Ticked(nid, k, n) = {"land", "told", "target"}
             /\ npcs[nid].attacks[k].land \in Nat /\ npcs[nid].attacks[k].land >= n
             /\ Ticked(nid, k, n).land = IF npcs[nid].attacks[k].land = n THEN n + Attacks[nid][k].period ELSE npcs[nid].attacks[k].land
             /\ <<nid, k>> \in Landing(n) <=> npcs[nid].attacks[k].land = n
             /\ landed[<<nid, k>>] # 0 => npcs[nid].attacks[k].land >= landed[<<nid, k>>] + Attacks[nid][k].period
             /\ <<nid, k>> \in AttackIds /\ Attacks[nid][k].period \in Nat \ {0}
  <2>1. nid \in Npcs
    BY <1>3
  <2>2. /\ DOMAIN Ticked(nid, k, n) = {"land", "told", "target"}
        /\ npcs[nid].attacks[k].land \in Nat /\ npcs[nid].attacks[k].land >= n
        /\ Ticked(nid, k, n).land = IF npcs[nid].attacks[k].land = n THEN n + Attacks[nid][k].period ELSE npcs[nid].attacks[k].land
    BY <1>3, <2>1, TickedIs
  <2>3. <<nid, k>> \in Landing(n) <=> npcs[nid].attacks[k].land = n
    BY <1>3, LandingIs
  <2>4. landed[<<nid, k>>] # 0 => npcs[nid].attacks[k].land >= landed[<<nid, k>>] + Attacks[nid][k].period
    BY <1>3 DEF NpcsAre, NpcIs, AttackIs
  <2> QED BY <2>1, <2>2, <2>3, <2>4, PeriodIs
<1>6. \A x \in Landing(n) : x[1] \in DOMAIN npcs /\ x[2] \in DOMAIN Attacks[x[1]] /\ x = <<x[1], x[2]>>
  BY <1>3, LandingIs
<1>7. landed \in [AttackIds -> Nat] /\ \A x \in AttackIds : landed[x] <= step_n
  BY <1>3 DEF NpcsAre
<1>8. landed' \in [AttackIds -> Nat] /\ \A x \in AttackIds : landed'[x] = IF x \in Landing(n) THEN n ELSE landed[x]
  BY <1>1, <1>3, <1>7
<1> HIDE DEF n
<1>9. \A x \in AttackIds : landed'[x] <= step_n'
  <2>1. n = step_n + 1
    BY DEF n
  <2> QED BY <1>1, <1>3, <1>7, <1>8, <2>1
<1>10. ASSUME NEW nid \in DOMAIN npcs', NEW k \in DOMAIN Attacks[nid]
       PROVE  /\ DOMAIN npcs'[nid].attacks[k] = {"land", "told", "target"} /\ npcs'[nid].attacks[k].land \in Nat
              /\ npcs'[nid].attacks[k].land > step_n'
              /\ landed'[<<nid, k>>] # 0 => npcs'[nid].attacks[k].land >= landed'[<<nid, k>>] + Attacks[nid][k].period
  <2> DEFINE x == <<nid, k>>
             p == Attacks[nid][k].period
             was == npcs[nid].attacks[k].land
             a == npcs'[nid].attacks[k]
  <2>1. nid \in DOMAIN npcs
    BY <1>1
  <2>2. a = Ticked(nid, k, n)
    BY <1>4, <2>1
  <2>3. /\ DOMAIN a = {"land", "told", "target"} /\ was \in Nat /\ was >= n
        /\ a.land = IF was = n THEN n + p ELSE was
        /\ x \in Landing(n) <=> was = n
        /\ landed[x] # 0 => was >= landed[x] + p
        /\ x \in AttackIds /\ p \in Nat \ {0}
    BY <1>5, <2>1, <2>2
  <2>4. landed'[x] = IF x \in Landing(n) THEN n ELSE landed[x]
    BY <1>8, <2>3
  <2>5. step_n' = n
    BY <1>1
  <2> HIDE DEF x, p, was, a
  <2>6. a.land \in Nat /\ a.land > n /\ (landed'[x] # 0 => a.land >= landed'[x] + p)
    <3>1. CASE was = n
      BY <1>3, <2>3, <2>4, <3>1
    <3>2. CASE was # n
      BY <1>3, <2>3, <2>4, <3>2
    <3> QED BY <3>1, <3>2
  <2> QED BY <2>3, <2>5, <2>6 DEF x, p, a
<1>11. NpcsAre'
  <2>1. DOMAIN npcs' = DOMAIN npcs
    BY <1>1
  <2> QED BY <1>4, <1>8, <1>9, <1>10, <2>1, NpcsLater
<1>12. ClocksAre' /\ FoesAre'
  <2>1. n = step_n + 1
    BY DEF n
  <2>2. DOMAIN npcs' = DOMAIN npcs
    BY <1>1
  <2> QED BY <1>1, <1>2, <1>3, <2>1, <2>2 DEF ClocksAre, FoesAre
<1>13. InboxIs' /\ MembersKnown'
  <2>1. DOMAIN npcs' = DOMAIN npcs
    BY <1>1
  <2> QED BY <1>1, <2>1 DEF RunInv, InboxIs, MembersKnown, ToldOf
<1>14. ASSUME NEW x \in DOMAIN landed, landed'[x] # landed[x], landed[x] # 0
       PROVE  landed'[x] - landed[x] >= Attacks[x[1]][x[2]].period
  <2>1. x \in AttackIds /\ x \in Landing(n) /\ landed'[x] = n
    BY <1>7, <1>8, <1>14
  <2>2. x[1] \in DOMAIN npcs /\ x[2] \in DOMAIN Attacks[x[1]] /\ x = <<x[1], x[2]>>
    BY <1>6, <2>1
  <2>3. /\ npcs[x[1]].attacks[x[2]].land = n
        /\ npcs[x[1]].attacks[x[2]].land >= landed[x] + Attacks[x[1]][x[2]].period
        /\ Attacks[x[1]][x[2]].period \in Nat
    BY <1>5, <1>14, <2>1, <2>2
  <2>4. landed[x] \in Nat
    BY <1>7, <2>1
  <2> QED BY <1>3, <2>1, <2>3, <2>4
<1> QED BY <1>11, <1>12, <1>13, <1>14, SMTT(30) DEF RunInv

\* What is due by a step moves past it, by periods.
LEMMA PastIt ==
  ASSUME NEW land \in Nat, NEW n \in Nat, land <= n, NEW p \in Nat \ {0}
  PROVE  LET to == land + p * ((n + p - land) \div p) IN to \in Nat /\ to > n /\ to >= land + p
<1> DEFINE m == n + p - land
           q == m \div p
<1>1. m \in Nat /\ m >= p
  OBVIOUS
<1> HIDE DEF m
<1>2. q \in Nat /\ m = p * q + (m % p) /\ m % p \in 0..(p - 1)
  BY <1>1
<1> HIDE DEF q
<1>3. q # 0
  <2> SUFFICES ASSUME q = 0 PROVE FALSE
    OBVIOUS
  <2>1. p * q = 0
    OBVIOUS
  <2> QED BY <1>1, <1>2, <2>1
<1>4. p * q \in Nat /\ p * q >= p
  BY <1>2, <1>3
<1> DEFINE t == p * q
<1>5. t \in Nat /\ t >= p /\ m = t + (m % p)
  BY <1>2, <1>4
<1> HIDE DEF t
<1>6. land + t \in Nat /\ land + t > n /\ land + t >= land + p
  BY <1>1, <1>2, <1>5 DEF m
<1> QED BY <1>6 DEF t, q, m

\* A skipped attack is due after the step skipped to, and by whole periods.
LEMMA SkippedIs ==
  ASSUME NEW a, DOMAIN a = {"land", "told", "target"}, a.land \in Nat, NEW n \in Nat, NEW p \in Nat \ {0}
  PROVE  /\ DOMAIN Skipped(a, p, n) = {"land", "told", "target"} /\ Skipped(a, p, n).land \in Nat
         /\ Skipped(a, p, n).land > n /\ Skipped(a, p, n).land >= a.land
<1> DEFINE to == a.land + p * ((n + p - a.land) \div p)
           b == Skipped(a, p, n)
<1>1. CASE a.land <= n
  <2>1. to \in Nat /\ to > n /\ to >= a.land + p
    BY <1>1, PastIt
  <2>2. b = [land |-> to, told |-> FALSE, target |-> ""]
    BY <1>1 DEF Skipped
  <2> HIDE DEF to, b
  <2>3. DOMAIN b = {"land", "told", "target"} /\ b.land = to
    BY <2>2
  <2>4. b.land \in Nat /\ b.land > n /\ b.land >= a.land
    BY <2>1, <2>3
  <2> QED BY <2>3, <2>4 DEF b
<1>2. CASE ~(a.land <= n)
  <2>1. b = a
    BY <1>2 DEF Skipped
  <2> QED BY <1>2, <2>1
<1> QED BY <1>1, <1>2

\* The steps of a tick are over; some may be skipped.
LEMMA CaughtRun ==
  ASSUME RunInv, Caught
  PROVE  RunInv'
<1>1. /\ phase = "run" /\ phase' = "call"
      /\ UNCHANGED <<members, foes, clock, inbox, need_sync, target, players, landed>>
      /\ \/ UNCHANGED <<step_n, npcs>>
         \/ _skip_to(target)
  BY DEF Caught, world, tick
<1>2. ~ToldOf /\ DOMAIN npcs = DOMAIN foes
  BY <1>1, ToldOfNothing
<1>3. ClocksAre /\ FoesAre /\ NpcsAre /\ step_n \in Nat /\ target \in Nat /\ step_n <= target /\ DOMAIN npcs \subseteq Npcs
  BY <1>1 DEF RunInv, FoesAre, ClocksAre
<1>4. step_n' \in {step_n, target} /\ DOMAIN npcs' = DOMAIN npcs
  BY <1>1 DEF _skip_to
<1>5. ClocksAre' /\ FoesAre'
  BY <1>1, <1>2, <1>3, <1>4 DEF ClocksAre, FoesAre
<1>6. InboxIs' /\ MembersKnown'
  BY <1>1, <1>4 DEF RunInv, InboxIs, MembersKnown, ToldOf, LoopPhases, Quiets
<1>7. CASE UNCHANGED <<step_n, npcs>>
  <2>1. NpcsAre'
    BY <1>1, <1>7, SameNpcs, NpcsChange DEF RunInv
  <2> QED BY <1>5, <1>6, <2>1 DEF RunInv
<1>8. CASE _skip_to(target)
  <2>1. /\ step_n' = target
        /\ npcs' = [nid \in DOMAIN npcs |->
             [npcs[nid] EXCEPT !.attacks = [k \in DOMAIN @ |-> Skipped(@[k], Attacks[nid][k].period, target)]]]
    BY <1>8 DEF _skip_to
  <2>2. ASSUME NEW nid \in DOMAIN npcs
        PROVE  /\ DOMAIN npcs'[nid] = {"join", "meter", "reel", "attacks"} /\ npcs'[nid].reel \in Nat
               /\ DOMAIN npcs'[nid].attacks = DOMAIN Attacks[nid]
               /\ \A k \in DOMAIN Attacks[nid] :
                    npcs'[nid].attacks[k] = Skipped(npcs[nid].attacks[k], Attacks[nid][k].period, target)
    <3> DEFINE b == npcs[nid]
    <3>1. DOMAIN b = {"join", "meter", "reel", "attacks"} /\ b.reel \in Nat /\ DOMAIN b.attacks = DOMAIN Attacks[nid]
      BY <1>3 DEF NpcsAre, NpcIs
    <3>2. npcs'[nid] = [b EXCEPT !.attacks = [k \in DOMAIN b.attacks |-> Skipped(b.attacks[k], Attacks[nid][k].period, target)]]
      BY <2>1
    <3> HIDE DEF b
    <3>3. /\ DOMAIN npcs'[nid] = {"join", "meter", "reel", "attacks"} /\ npcs'[nid].reel \in Nat
          /\ DOMAIN npcs'[nid].attacks = DOMAIN Attacks[nid]
          /\ \A k \in DOMAIN Attacks[nid] :
               npcs'[nid].attacks[k] = Skipped(b.attacks[k], Attacks[nid][k].period, target)
      BY <3>1, <3>2
    <3> QED BY <3>3 DEF b
  <2>3. ASSUME NEW nid \in DOMAIN npcs, NEW k \in DOMAIN Attacks[nid]
        PROVE  /\ DOMAIN npcs'[nid].attacks[k] = {"land", "told", "target"} /\ npcs'[nid].attacks[k].land \in Nat
               /\ npcs'[nid].attacks[k].land > target
               /\ landed[<<nid, k>>] # 0 => npcs'[nid].attacks[k].land >= landed[<<nid, k>>] + Attacks[nid][k].period
    <3> DEFINE x == <<nid, k>>
               p == Attacks[nid][k].period
               a == npcs[nid].attacks[k]
               b == npcs'[nid].attacks[k]
    <3>1. p \in Nat \ {0} /\ x \in AttackIds
      BY <1>3, PeriodIs
    <3>2. DOMAIN a = {"land", "told", "target"} /\ a.land \in Nat /\ (landed[x] # 0 => a.land >= landed[x] + p)
      BY <1>3 DEF NpcsAre, NpcIs, AttackIs
    <3>3. b = Skipped(a, p, target)
      BY <2>2
    <3>4. landed[x] \in Nat
      BY <1>3, <3>1 DEF NpcsAre
    <3> HIDE DEF x, p, a, b
    <3>5. DOMAIN b = {"land", "told", "target"} /\ b.land \in Nat /\ b.land > target /\ b.land >= a.land
      BY <1>3, <3>1, <3>2, <3>3, SkippedIs
    <3>6. landed[x] # 0 => b.land >= landed[x] + p
      BY <3>1, <3>2, <3>4, <3>5
    <3> QED BY <3>5, <3>6 DEF b, x, p
  <2>4. landed' \in [AttackIds -> Nat] /\ \A x \in AttackIds : landed'[x] <= step_n'
    BY <1>1, <1>3, <2>1 DEF NpcsAre
  <2>5. step_n' = target /\ landed' = landed
    BY <1>1, <2>1
  <2>6. \A nid \in DOMAIN npcs' : /\ DOMAIN npcs'[nid] = {"join", "meter", "reel", "attacks"} /\ npcs'[nid].reel \in Nat
                                 /\ DOMAIN npcs'[nid].attacks = DOMAIN Attacks[nid]
    BY <1>4, <2>2
  <2>7. ASSUME NEW nid \in DOMAIN npcs', NEW k \in DOMAIN Attacks[nid]
        PROVE  /\ DOMAIN npcs'[nid].attacks[k] = {"land", "told", "target"} /\ npcs'[nid].attacks[k].land \in Nat
               /\ npcs'[nid].attacks[k].land > step_n'
               /\ landed'[<<nid, k>>] # 0 => npcs'[nid].attacks[k].land >= landed'[<<nid, k>>] + Attacks[nid][k].period
    <3>1. nid \in DOMAIN npcs
      BY <1>4
    <3>2. /\ DOMAIN npcs'[nid].attacks[k] = {"land", "told", "target"} /\ npcs'[nid].attacks[k].land \in Nat
          /\ npcs'[nid].attacks[k].land > target
          /\ landed[<<nid, k>>] # 0 => npcs'[nid].attacks[k].land >= landed[<<nid, k>>] + Attacks[nid][k].period
      BY <2>3, <3>1
    <3> QED BY <2>5, <3>2
  <2>8. NpcsAre'
    BY <2>4, <2>6, <2>7, NpcsLater
  <2> QED BY <1>5, <1>6, <2>8 DEF RunInv
<1> QED BY <1>1, <1>7, <1>8

\* It holds as the fight begins.
LEMMA RunInit == Init => RunInv
<1> SUFFICES ASSUME Init PROVE RunInv
  OBVIOUS
<1>1. InboxIs
  BY NoneIs DEF Init, InboxIs, LoopPhases, Quiets
<1>2. ClocksAre
  BY DEF Init, ClocksAre
<1>3. FoesAre
  BY OwnerAssumption DEF Init, FoesAre
<1>4. NpcsAre
  <2>1. npcs = <<>> /\ step_n = 0 /\ landed = [x \in AttackIds |-> 0]
    BY DEF Init, AttackIds
  <2>2. DOMAIN npcs = {}
    BY <2>1
  <2> QED BY <2>1, <2>2 DEF NpcsAre
<1>5. MembersKnown
  BY DEF Init, MembersKnown, ToldOf
<1> QED BY <1>1, <1>2, <1>3, <1>4, <1>5 DEF RunInv

\* Every step of the fight keeps it, and lands an attack's blows its period apart.
LEMMA RunNext ==
  ASSUME RunInv, [Next]_vars
  PROVE  /\ RunInv'
         /\ \A x \in DOMAIN landed : landed'[x] # landed[x] /\ landed[x] # 0 =>
              landed'[x] - landed[x] >= Attacks[x[1]][x[2]].period
<1>1. CASE RunStep
  BY <1>1, RunStepRun
<1>2. CASE Tick \/ Begin \/ Publish
  <2>1. landed' = landed
    BY <1>2 DEF Tick, Begin, Publish, history
  <2> QED BY <1>2, <2>1, TurnsRun
<1>3. CASE _take_inbox
  <2>1. landed' = landed
    BY <1>3 DEF _take_inbox, history
  <2> QED BY <1>3, <2>1, TakesRun
<1>4. CASE _loopSyncs
  <2>1. landed' = landed
    BY <1>4 DEF _loopSyncs, Synced, history
  <2> QED BY <1>4, <2>1, SyncsRun
<1>5. CASE Caught
  <2>1. landed' = landed
    BY <1>5 DEF Caught
  <2> QED BY <1>5, <2>1, CaughtRun
<1>6. CASE Strikes \/ Blows \/ Poise \/ Flees \/ Tells
  <2>1. landed' = landed
    BY <1>6 DEF Strikes, Blows, Poise, Flees, Tells, Elsewhere
  <2> QED BY <1>6, <2>1, StrikesRun, BlowsRun, PoiseRun
<1>7. CASE \E pid \in Players : Arrives(pid) \/ Departs(pid)
  <2>1. landed' = landed
    BY <1>7 DEF Arrives, Departs, Moves, history
  <2> QED BY <1>7, <2>1, ArrivesRun
<1>8. CASE \E nid \in Npcs : Appears(nid) \/ Vanishes(nid)
  <2>1. landed' = landed
    BY <1>8 DEF Appears, Vanishes, Moves, history
  <2> QED BY <1>8, <2>1, AppearsRun
<1>9. CASE \E pid, i, at : Receive(pid, i, at)
  <2>1. landed' = landed
    BY <1>9 DEF Receive, history
  <2> QED BY <1>9, <2>1, ReceiveRun
<1>10. CASE UNCHANGED vars
  <2>1. UNCHANGED <<members, foes, clock, phase, inbox, need_sync, ended, step_n, target, players, npcs, landed>>
    BY <1>10 DEF vars
  <2>2. NpcsAre'
    BY <2>1, SameNpcs, NpcsChange DEF RunInv
  <2>3. ClocksAre' /\ FoesAre'
    BY <2>1 DEF RunInv, ClocksAre, FoesAre
  <2>4. InboxIs' /\ MembersKnown'
    BY <2>1 DEF RunInv, InboxIs, MembersKnown, ToldOf
  <2> QED BY <2>1, <2>2, <2>3, <2>4 DEF RunInv
<1>11. \/ \E pid \in Players, at \in 1..step_n + 1 : \E i \in Inputs[pid] : Press(pid, i, at)
       \/ \E pid \in Players : (\E slot \in Slots : use(pid, slot)) \/ (\E act \in Typed[pid] : brace(pid, act))
       => \E pid, i, at : Receive(pid, i, at)
  BY DEF Press, use, brace, Says
<1> QED BY <1>1, <1>2, <1>3, <1>4, <1>5, <1>6, <1>7, <1>8, <1>9, <1>10, <1>11 DEF Next

\* The invariant of the fight's clock, of its members and of its attacks.
THEOREM RunHolds == Spec => []RunInv
BY RunInit, RunNext, PTL DEF Spec

\* The owner steps those whom Lua has in the fight, unless it has yet to be
\* told of a change (_sync, _call).
THEOREM MembersAreKnown == Spec => []MembersKnown
<1>1. RunInv => MembersKnown
  BY DEF RunInv
<1> QED BY <1>1, RunHolds, PTL

\* However the fight stalls, skips steps, is stunned or reels, one attack's
\* blows land at least its period apart (_run_step, _skip_to, _boss_reels, _call).
THEOREM BlowsArePaced == Spec => BlowsPaced
<1>1. RunInv /\ [Next]_vars =>
        [\A x \in DOMAIN landed : landed'[x] # landed[x] /\ landed[x] # 0 =>
           landed'[x] - landed[x] >= Attacks[x[1]][x[2]].period]_vars
  BY RunNext
<1> QED BY <1>1, RunHolds, PTL DEF Spec, BlowsPaced

-----------------------------------------------------------------------------
(* Owner: what a player's window holds. *)

IsSnap(x) == x = [f \in SNAPSHOT |-> x[f]]
EntryIs(e) ==
  /\ DOMAIN e = {"n", "snap", "keys", "acts", "blows", "out"}
  /\ e.n \in Nat \ {0} /\ IsSnap(e.snap) /\ IsSequence(e.acts)

\* A player's steps, in order.
PlayerIs(p) ==
  /\ DOMAIN p = {"join", "dot", "keys", "flee", "history", "acts"}
  /\ IsSequence(p.acts) /\ IsSequence(p.history)
  /\ \A i \in 1..Len(p.history) : EntryIs(p.history[i])
  /\ \A i, j \in 1..Len(p.history) : i < j => p.history[i].n < p.history[j].n

\* The acts of a player's are all of different inputs.
Apart(p) ==
  \A i, j \in 0..Len(p.history) : \A a \in DOMAIN ActsAt(p, i), b \in DOMAIN ActsAt(p, j) :
    ActsAt(p, i)[a].press = ActsAt(p, j)[b].press => i = j /\ a = b

\* An input that came before those that are left of the inbox.
CameBefore(x, k) ==
  x \in 0..inputs /\ \A j \in (k + 1)..Len(inbox) : inbox[j].op = "input" => x < inbox[j].press
AllBefore(p, k) ==
  \A i \in 0..Len(p.history) : \A a \in DOMAIN ActsAt(p, i) : CameBefore(ActsAt(p, i)[a].press, k)

PressesAre ==
  /\ inputs \in Nat
  /\ \A i \in 1..Len(inbox) : inbox[i].op = "input" => inbox[i].at \in Nat /\ CameBefore(inbox[i].press, i)

\* What a client was told of a player's dot is from no later than their window.
ToldOfWindow(p, s) ==
  /\ s.n \in 0..step_n
  /\ \A i \in 1..Len(p.history) : p.history[i].n >= s.n /\ (p.history[i].n = s.n => p.history[i].snap = s.snap)
PlayersAre ==
  /\ DOMAIN members \subseteq Players
  /\ \A pid \in DOMAIN players :
       /\ PlayerIs(players[pid]) /\ Apart(players[pid]) /\ AllBefore(players[pid], 0)
       /\ \A i \in 1..Len(players[pid].history) : players[pid].history[i].n <= step_n
  /\ \A pid \in DOMAIN players \intersect DOMAIN sent : ToldOfWindow(players[pid], sent[pid])

WindowInv == PressesAre /\ PlayersAre

\* A window that is to be replayed: the last steps of a player's, from b + 1.
IsWindow(w, p, b) ==
  /\ b \in 0..(Len(p.history) - 1) /\ IsSequence(w) /\ Len(w) = Len(p.history) - b
  /\ \A i \in 1..Len(w) : w[i] = p.history[b + i]

\* The steps from the one an input was made at are a player's last, and there are some.
LEMMA WindowIs ==
  ASSUME NEW p, PlayerIs(p), NEW at \in Nat, CanRewind(p, at)
  PROVE  \E b : IsWindow(Window(p, at), p, b)
<1> DEFINE h == p.history
           drop == {e \in ToSet(h) : e.n < at}
<1>1. IsSequence(h) /\ Len(h) \in Nat /\ DOMAIN h = 1..Len(h) /\ h \in Seq(ToSet(h))
  BY SequenceHas DEF PlayerIs, IsSequence
<1>2. Len(h) # 0 /\ at <= h[Len(h)].n
  <2>1. h # <<>> /\ at <= Last(h).n
    BY DEF CanRewind
  <2> HIDE DEF h
  <2> QED BY <1>1, <2>1, EmptySeq DEF Last
<1>3. \A i \in 1..Len(h) : h[i] \in drop <=> h[i].n < at
  BY <1>1 DEF ToSet
<1>4. \A i, j \in 1..Len(h) : h[i].n \in Nat /\ (i < j => h[i].n < h[j].n)
  BY DEF PlayerIs, EntryIs
<1> DEFINE X == Seq(ToSet(h))
<1>5. \A x \in X, a \in ToSet(h) : (IF a \in drop THEN x ELSE Append(x, a)) \in X
  <2> DEFINE A == ToSet(h)
  <2> HIDE DEF A
  <2>1. \A x \in Seq(A), a \in A : Append(x, a) \in Seq(A)
    BY AppendProperties
  <2> QED BY <2>1 DEF A
<1>6. <<>> \in X
  OBVIOUS
<1>7. \E g : WithoutTrace(g, X, h, drop)
  <2> HIDE DEF X, h, drop
  <2> QED BY <1>1, <1>5, <1>6, WithoutRun DEF X
<1>8. PICK g : WithoutTrace(g, X, h, drop)
  BY <1>7
<1> DEFINE Ahead(k, b) == /\ b \in 0..k
                          /\ \A i \in 1..b : h[i].n < at
                          /\ \A i \in (b + 1)..k : ~(h[i].n < at)
                          /\ IsSequence(g[k]) /\ Len(g[k]) = k - b
                          /\ \A i \in 1..(k - b) : g[k][i] = h[b + i]
           H == {k \in 0..Len(h) : \E b : Ahead(k, b)}
<1>9. LeftOver(h, drop) = g[Len(h)] /\ g[0] = <<>>
      /\ \A i \in 1..Len(h) : g[i] = IF h[i] \in drop THEN g[i - 1] ELSE Append(g[i - 1], h[i])
  BY <1>8 DEF WithoutTrace
<1> HIDE DEF h, drop, X
<1>10. Ahead(0, 0)
  BY <1>9, NoneIs
<1>11. ASSUME NEW k \in 1..Len(h), NEW b, Ahead(k - 1, b) PROVE \E c : Ahead(k, c)
  <2>0. k \in Nat /\ k - 1 \in Nat /\ b \in Nat /\ b <= k - 1
    BY <1>1, <1>11
  <2>1. CASE h[k].n < at
    <3>1. b = k - 1
      <4> SUFFICES ASSUME b # k - 1 PROVE FALSE
        OBVIOUS
      <4>1. k - 1 \in (b + 1)..(k - 1) /\ k - 1 \in 1..Len(h)
        BY <1>1, <2>0
      <4>2. ~(h[k - 1].n < at) /\ h[k - 1].n < h[k].n
        BY <1>4, <1>11, <4>1, SMTT(30)
      <4> QED BY <1>4, <2>1, <4>1, <4>2
    <3>2. g[k] = g[k - 1]
      BY <1>3, <1>9, <2>1
    <3>3. Ahead(k, k)
      BY <1>11, <2>0, <2>1, <3>1, <3>2
    <3> QED BY <3>3
  <2>2. CASE ~(h[k].n < at)
    <3>1. g[k] = Append(g[k - 1], h[k])
      BY <1>3, <1>9, <2>2
    <3> DEFINE q == g[k - 1]
    <3>2. IsSequence(q) /\ Len(q) = k - 1 - b /\ \A i \in 1..(k - 1 - b) : q[i] = h[b + i]
      BY <1>11
    <3> HIDE DEF q
    <3>3. /\ IsSequence(Append(q, h[k])) /\ Len(Append(q, h[k])) = Len(q) + 1
          /\ Append(q, h[k])[Len(q) + 1] = h[k] /\ \A i \in 1..Len(q) : Append(q, h[k])[i] = q[i]
      BY <3>2, SequenceAppend
    <3>4. IsSequence(g[k]) /\ Len(g[k]) = k - b
      BY <2>0, <3>1, <3>2, <3>3 DEF q
    <3>5. ASSUME NEW i \in 1..(k - b) PROVE g[k][i] = h[b + i]
      <4>1. CASE i = k - b
        BY <2>0, <3>1, <3>2, <3>3, <4>1 DEF q
      <4>2. CASE i # k - b
        <5>1. i \in 1..(k - 1 - b)
          BY <2>0, <4>2
        <5> QED BY <3>1, <3>2, <3>3, <5>1 DEF q
      <4> QED BY <4>1, <4>2
    <3>6. Ahead(k, b)
      BY <1>11, <2>0, <2>2, <3>4, <3>5
    <3> QED BY <3>6
  <2> QED BY <2>1, <2>2
<1>12. H = 0..Len(h)
  <2> HIDE DEF Ahead
  <2>1. H \in SUBSET (0..Len(h)) /\ 0 \in H /\ \A i \in 1..Len(h) : i - 1 \in H => i \in H
    BY <1>1, <1>10, <1>11
  <2> HIDE DEF H
  <2> QED BY <1>1, <2>1, AtEachPlace
<1>13. PICK b : Ahead(Len(h), b)
  <2> HIDE DEF Ahead
  <2> QED BY <1>1, <1>12
<1>14. b \in 0..(Len(h) - 1)
  <2> DEFINE m == Len(h)
  <2>1. m \in Nat /\ m # 0 /\ b \in 0..m /\ at <= h[m].n
    BY <1>1, <1>2, <1>13
  <2>2. b = m => h[m].n < at
    <3> HIDE DEF m
    <3>1. m \in 1..m
      BY <2>1
    <3> QED BY <1>13, <3>1 DEF m
  <2>3. h[m].n \in Nat
    <3> HIDE DEF m
    <3>1. m \in 1..m
      BY <2>1
    <3> QED BY <1>4, <3>1 DEF m
  <2> HIDE DEF m
  <2>4. b \in 0..(m - 1)
    BY <2>1, <2>2, <2>3
  <2> QED BY <2>4, SMTT(30) DEF m
<1>15. Window(p, at) = g[Len(h)]
  BY <1>9 DEF Window, h, drop
<1> QED BY <1>13, <1>14, <1>15 DEF IsWindow, h

\* A snapshot is of its fields only.
LEMMA SnapshotIs == \A d : IsSnap(snapshot(d))
BY DEF IsSnap, snapshot

\* A snapshot holds all that is taken from it.
LEMMA SnapshotRestored ==
  ASSUME NEW x, IsSnap(x)
  PROVE  snapshot(restore(NewDot, x)) = x
<1>1. DOMAIN x = SNAPSHOT
  BY DEF IsSnap
<1>2. SNAPSHOT \subseteq DOMAIN NewDot
  BY DEF SNAPSHOT, NewDot
<1>3. \A f \in SNAPSHOT : restore(NewDot, x)[f] = x[f]
  BY <1>1, <1>2 DEF restore
<1> QED BY <1>3 DEF snapshot, IsSnap

\* An entry of a window after it has been replayed.
Redone(e, f) == EntryIs(f) /\ f.n = e.n /\ f.acts = e.acts

\* One step replayed: its number and acts stay, and it starts where it is replayed from.
LEMMA ReplayedIs ==
  ASSUME NEW pid, NEW clean, NEW r, NEW e, EntryIs(e)
  PROVE  \E f : /\ Replayed(pid, clean, r, e).window = Append(r.window, f)
                /\ Redone(e, f) /\ f.snap = snapshot(r.d)
<1>1. PICK out : Replayed(pid, clean, r, e).window = Append(r.window, [e EXCEPT !.snap = snapshot(r.d), !.out = out])
  BY DEF Replayed
<1> DEFINE f == [e EXCEPT !.snap = snapshot(r.d), !.out = out]
<1>2. IsSnap(snapshot(r.d))
  BY SnapshotIs
<1>3. /\ DOMAIN e = {"n", "snap", "keys", "acts", "blows", "out"} /\ e.n \in Nat \ {0} /\ IsSequence(e.acts)
  BY DEF EntryIs
<1> DEFINE x == snapshot(r.d)
<1> HIDE DEF x
<1>4. f = [e EXCEPT !.snap = x, !.out = out]
  BY DEF x
<1> HIDE DEF f
<1>5. DOMAIN f = DOMAIN e /\ f.n = e.n /\ f.acts = e.acts /\ f.snap = x
  BY <1>3, <1>4
<1>6. Redone(e, f)
  BY <1>2, <1>3, <1>5 DEF Redone, EntryIs, x
<1>7. Replayed(pid, clean, r, e).window = Append(r.window, f)
  BY <1>1 DEF f
<1> QED BY <1>5, <1>6, <1>7 DEF x

\* A window replayed: step for step, and its first from where the replay starts.
LEMMA AgainIs ==
  ASSUME NEW pid, NEW clean, NEW b, b.window = <<>>, NEW entries, IsSequence(entries),
         \A i \in 1..Len(entries) : EntryIs(entries[i])
  PROVE  LET w == Again(pid, clean, b, entries).window IN
         /\ IsSequence(w) /\ Len(w) = Len(entries)
         /\ \A i \in 1..Len(w) : Redone(entries[i], w[i])
         /\ Len(w) # 0 => w[1].snap = snapshot(b.d)
<1>1. PICK g : AgainTrace(g, pid, clean, b, entries)
  BY AgainRun
<1>2. Len(entries) \in Nat
  BY SequenceHas
<1> DEFINE Ok(w, k) == /\ IsSequence(w) /\ Len(w) = k
                       /\ \A i \in 1..k : Redone(entries[i], w[i])
                       /\ k # 0 => w[1].snap = snapshot(b.d)
           H == {k \in 0..Len(entries) : Ok(g[k].window, k)}
<1>3. Ok(g[0].window, 0)
  <2>1. g[0].window = <<>>
    BY <1>1 DEF AgainTrace
  <2>2. IsSequence(<<>>) /\ Len(<<>>) = 0
    BY NoneIs
  <2> QED BY <2>1, <2>2
<1>4. ASSUME NEW k \in 1..Len(entries), Ok(g[k - 1].window, k - 1) PROVE Ok(g[k].window, k)
  <2> DEFINE r == g[k - 1]
             e == entries[k]
  <2>1. EntryIs(e) /\ g[k] = Replayed(pid, clean, r, e)
    BY <1>1 DEF AgainTrace
  <2> HIDE DEF r, e
  <2>2. PICK f : g[k].window = Append(r.window, f) /\ Redone(e, f) /\ f.snap = snapshot(r.d)
    BY <2>1, ReplayedIs
  <2> DEFINE u == r.window
             w == g[k].window
  <2>3. IsSequence(u) /\ Len(u) = k - 1 /\ (\A i \in 1..(k - 1) : Redone(entries[i], u[i]))
        /\ (k - 1 # 0 => u[1].snap = snapshot(b.d))
    BY <1>4 DEF r
  <2>4. w = Append(u, f)
    BY <2>2
  <2> HIDE DEF u, w
  <2>5. IsSequence(w) /\ Len(w) = k /\ w[k] = f /\ \A i \in 1..(k - 1) : w[i] = u[i]
    <3>1. IsSequence(Append(u, f)) /\ Len(Append(u, f)) = Len(u) + 1 /\ Append(u, f)[Len(u) + 1] = f
          /\ \A i \in 1..Len(u) : Append(u, f)[i] = u[i]
      BY <2>3, SequenceAppend
    <3>2. Len(u) + 1 = k
      BY <1>2, <2>3
    <3> QED BY <2>3, <2>4, <3>1, <3>2
  <2>6. \A i \in 1..k : Redone(entries[i], w[i])
    <3>1. \A i \in 1..k : i = k \/ i \in 1..(k - 1)
      BY <1>2
    <3> QED BY <2>2, <2>3, <2>5, <3>1 DEF e
  <2>7. w[1].snap = snapshot(b.d)
    <3>1. CASE k = 1
      <4>1. r = b
        BY <1>1, <3>1 DEF r, AgainTrace
      <4> QED BY <2>2, <2>5, <3>1, <4>1
    <3>2. CASE k # 1
      <4>1. 1 \in 1..(k - 1) /\ k - 1 # 0
        BY <1>2, <3>2
      <4> QED BY <2>3, <2>5, <4>1
    <3> QED BY <3>1, <3>2
  <2> QED BY <2>5, <2>6, <2>7 DEF w
<1>5. H = 0..Len(entries)
  <2> HIDE DEF Ok
  <2>1. H \in SUBSET (0..Len(entries)) /\ 0 \in H /\ \A i \in 1..Len(entries) : i - 1 \in H => i \in H
    BY <1>2, <1>3, <1>4
  <2> HIDE DEF H
  <2> QED BY <1>2, <2>1, AtEachPlace
<1>6. Ok(g[Len(entries)].window, Len(entries))
  <2> HIDE DEF Ok
  <2> QED BY <1>2, <1>5
<1>7. Again(pid, clean, b, entries) = g[Len(entries)]
  BY <1>1 DEF AgainTrace
<1> QED BY <1>6, <1>7

\* A player whose window has as many steps, from as far back and from the same dot.
SameWindow(p, q) ==
  /\ Len(q.history) = Len(p.history)
  /\ \A i \in 1..Len(p.history) : q.history[i].n = p.history[i].n
  /\ Len(p.history) # 0 => q.history[1].snap = p.history[1].snap

\* What may be run again as a window of a player's: its steps, with other acts and keys.
IsRerun(w, p, b) ==
  /\ b \in 0..(Len(p.history) - 1) /\ IsSequence(w) /\ Len(w) = Len(p.history) - b
  /\ \A i \in 1..Len(w) : EntryIs(w[i]) /\ w[i].n = p.history[b + i].n
  /\ w[1].snap = p.history[b + 1].snap

\* A player after a replay: as many steps, and those before it as they were.
LEMMA RewoundIs ==
  ASSUME NEW pid, NEW p, PlayerIs(p), NEW w, NEW b, IsRerun(w, p, b)
  PROVE  LET q == Rewound(pid, p, w).p IN
         /\ PlayerIs(q) /\ SameWindow(p, q) /\ q.acts = p.acts
         /\ \A i \in 1..b : q.history[i].acts = p.history[i].acts
         /\ \A i \in 1..Len(w) : q.history[b + i].acts = w[i].acts
<1> DEFINE h == p.history
           q == Rewound(pid, p, w).p
           clean == AllClean(w)
           start == [d |-> Scratch(p, w), out |-> <<>>, window |-> <<>>]
           r == Again(pid, clean, start, w)
           before == SubSeq(h, 1, Len(h) - Len(w))
           u == r.window
<1>1. /\ IsSequence(h) /\ Len(h) \in Nat /\ IsSequence(p.acts)
      /\ \A i \in 1..Len(h) : EntryIs(h[i])
      /\ \A i, j \in 1..Len(h) : i < j => h[i].n < h[j].n
      /\ DOMAIN p = {"join", "dot", "keys", "flee", "history", "acts"}
  BY SequenceHas DEF PlayerIs
<1>2. /\ b \in 0..(Len(h) - 1) /\ IsSequence(w) /\ Len(w) = Len(h) - b
      /\ \A i \in 1..Len(w) : EntryIs(w[i]) /\ w[i].n = h[b + i].n
      /\ w[1].snap = h[b + 1].snap
  BY DEF IsRerun
<1>3. q = [p EXCEPT !.history = before \o u,
                    !.dot = IF clean THEN r.d ELSE [f \in DOMAIN @ |-> IF f \in REWOUND THEN r.d[f] ELSE @[f]]]
  BY DEF Rewound
<1>4. start.window = <<>> /\ start.d = Scratch(p, w)
  OBVIOUS
<1> HIDE DEF start, clean
<1>5. /\ IsSequence(u) /\ Len(u) = Len(w)
      /\ \A i \in 1..Len(u) : Redone(w[i], u[i])
      /\ Len(u) # 0 => u[1].snap = snapshot(start.d)
  <2>1. IsSequence(w) /\ \A i \in 1..Len(w) : EntryIs(w[i])
    BY <1>2
  <2> QED BY <1>4, <2>1, AgainIs
<1> HIDE DEF r, h, q
<1>6. Len(w) \in 1..Len(h) /\ Len(h) - Len(w) = b /\ b \in Nat /\ b <= Len(h)
  BY <1>1, <1>2
<1>7. u[1].snap = h[b + 1].snap
  <2>1. u[1].snap = snapshot(Scratch(p, w))
    BY <1>1, <1>4, <1>5, <1>6
  <2>2. Head(w) = w[1]
    BY <1>1, <1>2, <1>6
  <2>3. IsSnap(w[1].snap)
    BY <1>1, <1>2, <1>6 DEF EntryIs
  <2> QED BY <1>2, <2>1, <2>2, <2>3, SnapshotRestored DEF Scratch
<1>8. /\ IsSequence(before) /\ Len(before) = b
      /\ \A i \in 1..b : before[i] = h[i]
  <2>1. 1 \in 1..Len(h) + 1 /\ b \in (1 - 1)..Len(h)
    BY <1>1, <1>6
  <2>2. /\ IsSequence(SubSeq(h, 1, b)) /\ Len(SubSeq(h, 1, b)) = b - 1 + 1
        /\ \A i \in 1..(b - 1 + 1) : SubSeq(h, 1, b)[i] = h[1 + i - 1]
    BY <1>1, <2>1, SequencePart
  <2>3. b - 1 + 1 = b /\ \A i \in 1..b : 1 + i - 1 = i
    BY <1>6
  <2> QED BY <1>6, <2>2, <2>3
<1> HIDE DEF before, u
<1> DEFINE v == before \o u
<1>9. /\ IsSequence(v) /\ Len(v) = Len(h)
      /\ \A i \in 1..b : v[i] = h[i]
      /\ \A i \in 1..Len(w) : v[b + i] = u[i]
  <2>1. /\ IsSequence(v) /\ Len(v) = Len(before) + Len(u)
        /\ \A i \in 1..Len(before) : v[i] = before[i]
        /\ \A i \in 1..Len(u) : v[Len(before) + i] = u[i]
    <3>1. IsSequence(before) /\ IsSequence(u)
      BY <1>5, <1>8
    <3> QED BY <3>1, SequenceJoin
  <2> HIDE DEF v
  <2> QED BY <1>1, <1>5, <1>6, <1>8, <2>1
<1> HIDE DEF v
<1>10. \A i \in 1..Len(h) : i \in 1..b \/ (i - b \in 1..Len(w) /\ b + (i - b) = i)
  BY <1>1, <1>6
<1>11. \A i \in 1..Len(h) : EntryIs(v[i]) /\ v[i].n = h[i].n
  <2> TAKE i \in 1..Len(h)
  <2>1. CASE i \in 1..b
    BY <1>1, <1>9, <2>1
  <2>2. CASE i - b \in 1..Len(w) /\ b + (i - b) = i
    <3> DEFINE j == i - b
    <3>1. j \in 1..Len(w) /\ b + j = i
      BY <2>2
    <3> HIDE DEF j
    <3> QED BY <1>2, <1>5, <1>9, <3>1 DEF Redone
  <2> QED BY <1>10, <2>1, <2>2
<1>12. \A i \in 1..Len(w) : v[b + i].acts = w[i].acts
  BY <1>5, <1>9 DEF Redone
<1>13. v[1].snap = h[1].snap
  <2>1. CASE b = 0
    <3>1. b + 1 = 1 /\ 1 \in 1..Len(w)
      BY <1>6, <2>1
    <3> QED BY <1>7, <1>9, <3>1
  <2>2. CASE b # 0
    <3>1. 1 \in 1..b
      BY <1>6, <2>2
    <3> QED BY <1>9, <3>1
  <2> QED BY <2>1, <2>2
<1>14. DOMAIN q = DOMAIN p /\ q.history = v /\ q.acts = p.acts
  BY <1>1, <1>3 DEF v
<1>15. PlayerIs(q)
  BY <1>1, <1>9, <1>11, <1>14 DEF PlayerIs
<1>16. SameWindow(p, q)
  BY <1>9, <1>11, <1>13, <1>14 DEF SameWindow, h
<1> QED BY <1>9, <1>12, <1>14, <1>15, <1>16 DEF q, h

SameActs(p, q) == \A i \in 0..Len(p.history) : ActsAt(q, i) = ActsAt(p, i)

\* What an input may make of a player: one more act, of that input.
OneMore(p, q, press) ==
  \E at \in 0..Len(p.history) :
    /\ \A i \in 0..Len(p.history) : i # at => ActsAt(q, i) = ActsAt(p, i)
    /\ \E a : a.press = press /\ ActsAt(q, at) = Append(ActsAt(p, at), a)
Answered(p, q, press) ==
  PlayerIs(q) /\ SameWindow(p, q) /\ (SameActs(p, q) \/ OneMore(p, q, press))

\* A window's own steps may be run again.
LEMMA WindowRerun ==
  ASSUME NEW p, PlayerIs(p), NEW w, NEW b, IsWindow(w, p, b), NEW x, x = [i \in 1..Len(w) |-> x[i]],
         \A i \in 1..Len(w) : EntryIs(x[i]) /\ x[i].n = w[i].n /\ x[i].snap = w[i].snap
  PROVE  IsRerun(x, p, b) /\ Len(x) = Len(w)
<1>1. Len(w) \in Nat /\ Len(w) # 0 /\ Len(w) = Len(p.history) - b /\ b \in 0..(Len(p.history) - 1)
      /\ \A i \in 1..Len(w) : w[i] = p.history[b + i]
  <2>1. Len(p.history) \in Nat
    BY SequenceHas DEF PlayerIs
  <2> QED BY <2>1, SequenceHas DEF IsWindow
<1>2. IsSequence(x) /\ Len(x) = Len(w)
  BY <1>1, SequenceMade
<1>3. 1 \in 1..Len(w)
  BY <1>1
<1> QED BY <1>1, <1>2, <1>3 DEF IsRerun

\* What a window's steps are in the history.
LEMMA WindowEntry ==
  ASSUME NEW p, PlayerIs(p), NEW w, NEW b, IsWindow(w, p, b)
  PROVE  /\ DOMAIN w = 1..Len(w) /\ Len(w) \in Nat /\ Len(w) >= 1
         /\ \A i \in 1..Len(w) : b + i \in 1..Len(p.history) /\ EntryIs(w[i]) /\ w[i] = p.history[b + i]
<1>1. Len(p.history) \in Nat /\ \A i \in 1..Len(p.history) : EntryIs(p.history[i])
  BY SequenceHas DEF PlayerIs
<1>2. /\ DOMAIN w = 1..Len(w) /\ Len(w) \in Nat /\ Len(w) = Len(p.history) - b /\ b \in 0..(Len(p.history) - 1)
      /\ \A i \in 1..Len(w) : w[i] = p.history[b + i]
  BY SequenceHas DEF IsWindow
<1>3. Len(w) >= 1 /\ \A i \in 1..Len(w) : b + i \in 1..Len(p.history)
  BY <1>1, <1>2
<1>4. ASSUME NEW i \in 1..Len(w)
      PROVE  b + i \in 1..Len(p.history) /\ EntryIs(w[i]) /\ w[i] = p.history[b + i]
  <2>1. w[i] = p.history[b + i] /\ b + i \in 1..Len(p.history)
    BY <1>2, <1>3
  <2>2. EntryIs(p.history[b + i])
    BY <1>1, <2>1
  <2> QED BY <2>1, <2>2
<1> QED BY <1>2, <1>3, <1>4

HeldAs(w, keys) == [i \in DOMAIN w |-> [w[i] EXCEPT !.keys = keys]]

\* So may its steps with other keys.
LEMMA HeldIs ==
  ASSUME NEW p, PlayerIs(p), NEW w, NEW b, IsWindow(w, p, b), NEW keys,
         NEW x, x = [i \in DOMAIN w |-> [w[i] EXCEPT !.keys = keys]]
  PROVE  IsRerun(x, p, b) /\ Len(x) = Len(w) /\ \A i \in 1..Len(w) : x[i].acts = w[i].acts
<1>1. DOMAIN w = 1..Len(w) /\ \A i \in 1..Len(w) : EntryIs(w[i])
  BY WindowEntry
<1>2. \A i \in 1..Len(w) : x[i] = [w[i] EXCEPT !.keys = keys]
  BY <1>1
<1>3. x = [i \in 1..Len(w) |-> x[i]]
  BY <1>1
<1>4. ASSUME NEW i \in 1..Len(w) PROVE EntryIs(x[i]) /\ x[i].n = w[i].n /\ x[i].snap = w[i].snap /\ x[i].acts = w[i].acts
  <2> DEFINE e == w[i]
             f == x[i]
  <2>1. EntryIs(e) /\ f = [e EXCEPT !.keys = keys]
    BY <1>1, <1>2
  <2> HIDE DEF e, f
  <2>2. DOMAIN f = DOMAIN e /\ f.n = e.n /\ f.snap = e.snap /\ f.acts = e.acts
    BY <2>1 DEF EntryIs
  <2>3. EntryIs(f)
    BY <2>1, <2>2 DEF EntryIs
  <2> QED BY <2>2, <2>3 DEF e, f
<1>5. IsRerun(x, p, b) /\ Len(x) = Len(w)
  BY <1>3, <1>4, WindowRerun, ZenonT(60)
<1> QED BY <1>4, <1>5

ActedAs(x, w, act) == x = [w EXCEPT ![1].acts = Append(w[1].acts, act)]

\* So may its steps with one act more in the first.
LEMMA ActedIs ==
  ASSUME NEW p, PlayerIs(p), NEW w, NEW b, IsWindow(w, p, b), NEW act,
         NEW x, ActedAs(x, w, act)
  PROVE  /\ IsRerun(x, p, b) /\ Len(x) = Len(w) /\ x[1].acts = Append(w[1].acts, act)
         /\ \A i \in 1..Len(w) : i # 1 => x[i].acts = w[i].acts
<1>1. DOMAIN w = 1..Len(w) /\ Len(w) >= 1 /\ Len(w) \in Nat /\ \A i \in 1..Len(w) : EntryIs(w[i])
  BY WindowEntry
<1> DEFINE e == w[1]
           f == [e EXCEPT !.acts = Append(e.acts, act)]
<1>2. DOMAIN x = DOMAIN w /\ x[1] = f /\ \A i \in 1..Len(w) : i # 1 => x[i] = w[i]
  BY <1>1 DEF ActedAs
<1>3. x = [i \in 1..Len(w) |-> x[i]]
  BY <1>1 DEF ActedAs
<1>4. EntryIs(e)
  BY <1>1
<1> HIDE DEF e
<1>5. IsSequence(Append(e.acts, act))
  BY <1>4, SequenceAppend DEF EntryIs
<1>6. DOMAIN f = DOMAIN e /\ f.n = e.n /\ f.snap = e.snap /\ f.acts = Append(e.acts, act)
  BY <1>4 DEF EntryIs
<1> HIDE DEF f
<1>7. EntryIs(f)
  BY <1>4, <1>5, <1>6 DEF EntryIs
<1>8. \A i \in 1..Len(w) : EntryIs(x[i]) /\ x[i].n = w[i].n /\ x[i].snap = w[i].snap
  BY <1>1, <1>2, <1>6, <1>7 DEF e
<1>9. IsRerun(x, p, b) /\ Len(x) = Len(w)
  BY <1>3, <1>8, WindowRerun
<1> QED BY <1>2, <1>6, <1>9 DEF e

\* A replay with the acts there were.
LEMMA RewoundHeld ==
  ASSUME NEW pid, NEW p, PlayerIs(p), NEW at \in Nat, CanRewind(p, at), NEW keys
  PROVE  LET q == Rewound(pid, p, HeldAs(Window(p, at), keys)).p
         IN PlayerIs(q) /\ SameWindow(p, q) /\ SameActs(p, q)
<1> DEFINE w == Window(p, at)
           x == HeldAs(w, keys)
           q == Rewound(pid, p, x).p
<1>1. PICK b : IsWindow(w, p, b)
  BY WindowIs
<1> HIDE DEF w
<1>6. x = [i \in DOMAIN w |-> [w[i] EXCEPT !.keys = keys]]
  BY DEF HeldAs
<1> HIDE DEF x
<1>2. IsRerun(x, p, b) /\ Len(x) = Len(w) /\ \A i \in 1..Len(w) : x[i].acts = w[i].acts
  BY <1>1, <1>6, HeldIs, SMTT(30)
<1>3. /\ PlayerIs(q) /\ SameWindow(p, q) /\ q.acts = p.acts
      /\ \A i \in 1..b : q.history[i].acts = p.history[i].acts
      /\ \A i \in 1..Len(x) : q.history[b + i].acts = x[i].acts
  <2>1. IsRerun(x, p, b)
    BY <1>2
  <2> HIDE DEF IsRerun
  <2> QED BY <2>1, RewoundIs
<1> HIDE DEF q
<1>4. /\ b \in Nat /\ Len(w) = Len(p.history) - b /\ Len(p.history) \in Nat
      /\ \A i \in 1..Len(w) : w[i] = p.history[b + i]
  <2>1. Len(p.history) \in Nat
    BY SequenceHas DEF PlayerIs
  <2> QED BY <1>1, <2>1 DEF IsWindow
<1>5. ASSUME NEW i \in 0..Len(p.history) PROVE ActsAt(q, i) = ActsAt(p, i)
  <2>1. CASE i = 0
    BY <1>3, <2>1 DEF ActsAt
  <2>2. CASE i \in 1..b
    BY <1>3, <1>4, <2>2 DEF ActsAt
  <2>3. CASE i > b /\ i # 0
    <3> DEFINE j == i - b
    <3>1. j \in 1..Len(w) /\ b + j = i
      BY <1>4, <2>3
    <3> HIDE DEF j
    <3> QED BY <1>2, <1>3, <1>4, <2>3, <3>1 DEF ActsAt
  <2> QED BY <1>4, <2>1, <2>2, <2>3
<1> QED BY <1>3, <1>5 DEF SameActs, q, x, w

\* A replay with one act more.
LEMMA RewoundActed ==
  ASSUME NEW pid, NEW p, PlayerIs(p), NEW at \in Nat, CanRewind(p, at), NEW act
  PROVE  Answered(p, Rewound(pid, p, [Window(p, at) EXCEPT ![1].acts = Append(@, act)]).p, act.press)
<1> DEFINE w == Window(p, at)
           x == [w EXCEPT ![1].acts = Append(@, act)]
           q == Rewound(pid, p, x).p
<1>1. PICK b : IsWindow(w, p, b)
  BY WindowIs
<1> HIDE DEF w
<1>10. ActedAs(x, w, act)
  BY DEF ActedAs
<1> HIDE DEF x
<1>2. /\ IsRerun(x, p, b) /\ Len(x) = Len(w) /\ x[1].acts = Append(w[1].acts, act)
      /\ \A i \in 1..Len(w) : i # 1 => x[i].acts = w[i].acts
  BY <1>1, <1>10, ActedIs
<1>3. /\ PlayerIs(q) /\ SameWindow(p, q) /\ q.acts = p.acts
      /\ \A i \in 1..b : q.history[i].acts = p.history[i].acts
      /\ \A i \in 1..Len(x) : q.history[b + i].acts = x[i].acts
  <2>1. IsRerun(x, p, b)
    BY <1>2
  <2> HIDE DEF IsRerun
  <2> QED BY <2>1, RewoundIs
<1> HIDE DEF q
<1>4. /\ b \in Nat /\ Len(w) = Len(p.history) - b /\ Len(p.history) \in Nat /\ b + 1 \in 1..Len(p.history)
      /\ \A i \in 1..Len(w) : w[i] = p.history[b + i]
  <2>1. Len(p.history) \in Nat
    BY SequenceHas DEF PlayerIs
  <2> QED BY <1>1, <2>1, SMTT(30) DEF IsWindow
<1>5. ASSUME NEW i \in 0..Len(p.history), i # b + 1 PROVE ActsAt(q, i) = ActsAt(p, i)
  <2>1. CASE i = 0
    BY <1>3, <2>1 DEF ActsAt
  <2>2. CASE i \in 1..b
    BY <1>3, <1>4, <2>2 DEF ActsAt
  <2>3. CASE i > b /\ i # 0
    <3> DEFINE j == i - b
    <3>1. j \in 1..Len(w) /\ b + j = i /\ j # 1
      BY <1>4, <1>5, <2>3
    <3> HIDE DEF j
    <3> QED BY <1>2, <1>3, <1>4, <2>3, <3>1 DEF ActsAt
  <2> QED BY <1>4, <2>1, <2>2, <2>3
<1>6. ActsAt(q, b + 1) = Append(ActsAt(p, b + 1), act)
  <2>1. 1 \in 1..Len(w) /\ b + 1 # 0
    BY <1>4
  <2> QED BY <1>2, <1>3, <1>4, <2>1 DEF ActsAt
<1>7. b + 1 \in 0..Len(p.history)
  BY <1>4
<1>8. OneMore(p, q, act.press)
  BY <1>5, <1>6, <1>7 DEF OneMore
<1>9. Answered(p, q, act.press)
  BY <1>3, <1>8 DEF Answered
<1> QED BY <1>9 DEF q, x, w

IsPair(q) == DOMAIN q = {"p", "late"}

\* A player with other keys, or about to flee.
LEMMA OtherKeys ==
  ASSUME NEW p, PlayerIs(p), NEW q, DOMAIN q = DOMAIN p, q.history = p.history, q.acts = p.acts
  PROVE  PlayerIs(q) /\ SameWindow(p, q) /\ SameActs(p, q)
BY DEF PlayerIs, SameWindow, SameActs, ActsAt

\* What was answered stays so when the player before was the same but for keys.
LEMMA AnsweredAfter ==
  ASSUME NEW p, NEW q, NEW r, NEW press, PlayerIs(p), SameWindow(p, q), SameActs(p, q), Answered(q, r, press)
  PROVE  Answered(p, r, press)
<1>1. Len(p.history) \in Nat
  BY SequenceHas DEF PlayerIs
<1>2. SameWindow(p, r)
  BY <1>1 DEF Answered, SameWindow
<1>3. CASE SameActs(q, r)
  <2>1. SameActs(p, r)
    BY <1>3 DEF SameWindow, SameActs
  <2> QED BY <1>2, <2>1 DEF Answered
<1>4. CASE OneMore(q, r, press)
  <2>1. PICK at \in 0..Len(p.history) :
          /\ \A i \in 0..Len(p.history) : i # at => ActsAt(r, i) = ActsAt(q, i)
          /\ \E a : a.press = press /\ ActsAt(r, at) = Append(ActsAt(q, at), a)
    BY <1>4 DEF OneMore, SameWindow
  <2>2. \A i \in 0..Len(p.history) : ActsAt(q, i) = ActsAt(p, i)
    BY DEF SameActs
  <2>3. OneMore(p, r, press)
    BY <2>1, <2>2 DEF OneMore
  <2> QED BY <1>2, <2>3 DEF Answered
<1> QED BY <1>3, <1>4 DEF Answered

\* Held keys give no act.
LEMMA SteerIs ==
  ASSUME NEW pid, NEW q, IsPair(q), PlayerIs(q.p), NEW m, m.at \in Nat
  PROVE  IsPair(Steer(pid, q, m)) /\ PlayerIs(Steer(pid, q, m).p)
         /\ SameWindow(q.p, Steer(pid, q, m).p) /\ SameActs(q.p, Steer(pid, q, m).p)
<1> DEFINE w == Window(q.p, m.at)
           rewound == Rewound(pid, q.p, HeldAs(w, m.keys))
           s == IF m.keys \notin {"same", q.p.keys} /\ CanRewind(q.p, m.at) THEN Also(q, rewound) ELSE q
           r == Steer(pid, q, m)
<1>1. r = [s EXCEPT !.p.keys = IF m.keys = "same" THEN @ ELSE m.keys]
  BY DEF Steer, HeldAs
<1>2. CanRewind(q.p, m.at) => PlayerIs(rewound.p) /\ SameWindow(q.p, rewound.p) /\ SameActs(q.p, rewound.p)
  BY RewoundHeld
<1> HIDE DEF rewound
<1>3. IsPair(s) /\ PlayerIs(s.p) /\ SameWindow(q.p, s.p) /\ SameActs(q.p, s.p)
  <2>1. CASE m.keys \notin {"same", q.p.keys} /\ CanRewind(q.p, m.at)
    BY <1>2, <2>1 DEF Also, IsPair
  <2>2. CASE ~(m.keys \notin {"same", q.p.keys} /\ CanRewind(q.p, m.at))
    <3>1. s = q
      BY <2>2
    <3> QED BY <3>1 DEF SameWindow, SameActs
  <2> QED BY <2>1, <2>2
<1> HIDE DEF s, r
<1>4. IsPair(r) /\ DOMAIN r.p = DOMAIN s.p /\ r.p.history = s.p.history /\ r.p.acts = s.p.acts
  BY <1>1, <1>3 DEF IsPair, PlayerIs
<1>5. PlayerIs(r.p) /\ SameWindow(s.p, r.p) /\ SameActs(s.p, r.p)
  BY <1>3, <1>4, OtherKeys
<1>6. SameWindow(q.p, r.p)
  <2>1. Len(s.p.history) = Len(q.p.history) /\ Len(q.p.history) \in Nat
    BY <1>3, SequenceHas DEF SameWindow, PlayerIs
  <2> QED BY <1>3, <1>5, <2>1 DEF SameWindow
<1>7. SameActs(q.p, r.p)
  <2>1. Len(s.p.history) = Len(q.p.history)
    BY <1>3 DEF SameWindow
  <2> QED BY <1>3, <1>5, <2>1 DEF SameActs
<1> QED BY <1>4, <1>5, <1>6, <1>7 DEF r

\* An act that waits for the next step.
LEMMA WaitsIs ==
  ASSUME NEW p, PlayerIs(p), NEW act, NEW q, DOMAIN q = DOMAIN p, q.history = p.history, q.acts = Append(p.acts, act)
  PROVE  Answered(p, q, act.press)
<1>1. IsSequence(Append(p.acts, act)) /\ Len(p.history) \in Nat
  BY SequenceAppend, SequenceHas DEF PlayerIs
<1>2. PlayerIs(q)
  BY <1>1 DEF PlayerIs
<1>3. SameWindow(p, q)
  BY DEF SameWindow
<1>4. \A i \in 0..Len(p.history) : i # 0 => ActsAt(q, i) = ActsAt(p, i)
  BY DEF ActsAt
<1>5. ActsAt(q, 0) = Append(ActsAt(p, 0), act)
  BY DEF ActsAt
<1>6. 0 \in 0..Len(p.history)
  BY <1>1
<1>7. OneMore(p, q, act.press)
  BY <1>4, <1>5, <1>6 DEF OneMore
<1> QED BY <1>2, <1>3, <1>7 DEF Answered

\* An act is given once: in the window or for the next step.
LEMMA DoIs ==
  ASSUME NEW pid, NEW q, IsPair(q), PlayerIs(q.p), NEW at \in Nat, NEW act
  PROVE  Answered(q.p, Do(pid, q, at, act).p, act.press)
<1> DEFINE r == Do(pid, q, at, act)
<1>1. CASE CanRewind(q.p, at) /\ AllClean(Window(q.p, at))
  <2>1. r.p = Rewound(pid, q.p, [Window(q.p, at) EXCEPT ![1].acts = Append(@, act)]).p
    BY <1>1 DEF Do, Also
  <2> QED BY <1>1, <2>1, RewoundActed
<1>2. CASE ~(CanRewind(q.p, at) /\ AllClean(Window(q.p, at)))
  <2>1. r = [q EXCEPT !.p.acts = Append(@, act)]
    BY <1>2 DEF Do
  <2> HIDE DEF r
  <2>2. DOMAIN r.p = DOMAIN q.p /\ r.p.history = q.p.history /\ r.p.acts = Append(q.p.acts, act)
    BY <2>1 DEF IsPair, PlayerIs
  <2>3. Answered(q.p, r.p, act.press)
    BY <2>2, WaitsIs
  <2> QED BY <2>3 DEF r
<1> QED BY <1>1, <1>2

\* Any input gives at most one act, of that input.
LEMMA InputIs ==
  ASSUME NEW q, IsPair(q), PlayerIs(q.p), NEW m, m.at \in Nat
  PROVE  Answered(q.p, _input(q, m).p, m.press)
<1> DEFINE act == [kind |-> m.act, slot |-> m.slot, target |-> _target(m.aim), press |-> m.press]
           unblock == [act EXCEPT !.kind = "unblock"]
           s == Steer(m.pid, q, m)
           r == _input(q, m)
<1>1. IsPair(s) /\ PlayerIs(s.p) /\ SameWindow(q.p, s.p) /\ SameActs(q.p, s.p)
  BY SteerIs
<1>2. act.press = m.press /\ unblock.press = m.press
  OBVIOUS
<1>3. \/ r = s \/ r = [s EXCEPT !.p.flee = TRUE]
      \/ r = [s EXCEPT !.p.keys = "none", !.p.acts = Append(@, unblock)]
      \/ r = [s EXCEPT !.late = Append(@, [kind |-> "refused", pid |-> m.pid])]
      \/ r = Do(m.pid, s, m.at, act)
  <2> HIDE DEF s
  <2> QED BY DEF _input, s
<1> HIDE DEF s, r, act, unblock
<1>4. Answered(s.p, r.p, m.press)
  <2>1. CASE r = s \/ r = [s EXCEPT !.p.flee = TRUE] \/ r = [s EXCEPT !.late = Append(@, [kind |-> "refused", pid |-> m.pid])]
    <3>1. DOMAIN r.p = DOMAIN s.p /\ r.p.history = s.p.history /\ r.p.acts = s.p.acts
      BY <1>1, <2>1 DEF IsPair, PlayerIs
    <3> QED BY <1>1, <3>1, OtherKeys DEF Answered
  <2>2. CASE r = [s EXCEPT !.p.keys = "none", !.p.acts = Append(@, unblock)]
    <3>1. DOMAIN r.p = DOMAIN s.p /\ r.p.history = s.p.history /\ r.p.acts = Append(s.p.acts, unblock)
      BY <1>1, <2>2 DEF IsPair, PlayerIs
    <3> QED BY <1>1, <1>2, <3>1, WaitsIs
  <2>3. CASE r = Do(m.pid, s, m.at, act)
    BY <1>1, <1>2, <2>3, DoIs
  <2> QED BY <1>3, <2>1, <2>2, <2>3
<1> QED BY <1>1, <1>4, AnsweredAfter DEF r

\* What came before this message came before the next.
LEMMA BeforeLater ==
  ASSUME NEW x, NEW k \in Nat, CameBefore(x, k)
  PROVE  CameBefore(x, k + 1)
<1>1. \A j : j \in (k + 1 + 1)..Len(inbox) => j \in (k + 1)..Len(inbox)
  OBVIOUS
<1> QED BY <1>1 DEF CameBefore

\* So for all the acts of a player.
LEMMA AllBeforeLater ==
  ASSUME NEW p, NEW k \in Nat, AllBefore(p, k)
  PROVE  AllBefore(p, k + 1)
BY BeforeLater DEF AllBefore

\* Where the acts of a player are.
LEMMA ActsIs ==
  ASSUME NEW p, PlayerIs(p), NEW i \in 0..Len(p.history)
  PROVE  IsSequence(ActsAt(p, i)) /\ Len(ActsAt(p, i)) \in Nat /\ DOMAIN ActsAt(p, i) = 1..Len(ActsAt(p, i))
<1>0. Len(p.history) \in Nat
  BY SequenceHas DEF PlayerIs
<1>1. CASE i = 0
  <2>1. ActsAt(p, i) = p.acts
    BY <1>1 DEF ActsAt
  <2> QED BY <2>1, SequenceHas DEF PlayerIs
<1>2. CASE i # 0
  <2>1. i \in 1..Len(p.history) /\ ActsAt(p, i) = p.history[i].acts
    BY <1>0, <1>2 DEF ActsAt
  <2>2. IsSequence(p.history[i].acts)
    BY <2>1 DEF PlayerIs, EntryIs
  <2> QED BY <2>1, <2>2, SequenceHas
<1> QED BY <1>1, <1>2

\* One act more, of an input that came after those of the others, is apart from them.
LEMMA AnsweredApart ==
  ASSUME InboxIs, PressesAre, NEW k \in Nat, k + 1 \in 1..Len(inbox), inbox[k + 1].op = "input",
         NEW p, PlayerIs(p), Apart(p), AllBefore(p, k), NEW q, Answered(p, q, inbox[k + 1].press)
  PROVE  Apart(q) /\ AllBefore(q, k + 1)
<1> DEFINE press == inbox[k + 1].press
<1>1. CameBefore(press, k + 1)
  BY DEF PressesAre
<1>2. Len(q.history) = Len(p.history)
  BY DEF Answered, SameWindow
<1>3. Len(inbox) \in Nat
  BY SequenceHas DEF InboxIs
<1>4. \A x : CameBefore(x, k) => x # press /\ CameBefore(x, k + 1)
  <2> TAKE x
  <2> HAVE CameBefore(x, k)
  <2>1. k + 1 \in (k + 1)..Len(inbox)
    BY <1>3
  <2>2. x \in Nat /\ x < inbox[k + 1].press
    BY <2>1 DEF CameBefore, PressesAre
  <2>3. press \in Nat
    BY <1>1 DEF CameBefore, PressesAre
  <2> QED BY <2>2, <2>3, BeforeLater
<1> HIDE DEF press
<1>5. CASE SameActs(p, q)
  <2>1. \A i \in 0..Len(p.history) : ActsAt(q, i) = ActsAt(p, i)
    BY <1>5 DEF SameActs
  <2>2. Apart(q)
    BY <1>2, <2>1 DEF Apart
  <2>3. AllBefore(q, k + 1)
    BY <1>2, <1>4, <2>1 DEF AllBefore
  <2> QED BY <2>2, <2>3
<1>6. CASE OneMore(p, q, press)
  <2>1. PICK at \in 0..Len(p.history) :
          /\ \A i \in 0..Len(p.history) : i # at => ActsAt(q, i) = ActsAt(p, i)
          /\ \E act : act.press = press /\ ActsAt(q, at) = Append(ActsAt(p, at), act)
    BY <1>6 DEF OneMore
  <2>2. PICK act : act.press = press /\ ActsAt(q, at) = Append(ActsAt(p, at), act)
    BY <2>1
  <2> DEFINE was == ActsAt(p, at)
             now == ActsAt(q, at)
             new == Len(was) + 1
  <2>3. IsSequence(was) /\ Len(was) \in Nat /\ DOMAIN was = 1..Len(was) /\ now = Append(was, act)
    BY <2>2, ActsIs
  <2> HIDE DEF was, now
  <2>4. /\ IsSequence(Append(was, act)) /\ Len(Append(was, act)) = Len(was) + 1
        /\ Append(was, act)[Len(was) + 1] = act
        /\ \A i \in 1..Len(was) : Append(was, act)[i] = was[i]
    BY <2>3, SequenceAppend
  <2>5. DOMAIN now = 1..new /\ now[new] = act /\ \A a \in DOMAIN was : a \in DOMAIN now /\ now[a] = was[a]
    BY <2>3, <2>4, SequenceHas
  <2>6. \A a \in DOMAIN now : (a = new /\ now[a].press = press) \/ (a \in DOMAIN was /\ now[a] = was[a])
    BY <2>2, <2>3, <2>5
  <2> HIDE DEF new
  <2>7. ASSUME NEW i \in 0..Len(p.history), NEW a \in DOMAIN ActsAt(q, i)
        PROVE  \/ i = at /\ a = new /\ ActsAt(q, i)[a].press = press
               \/ a \in DOMAIN ActsAt(p, i) /\ ActsAt(q, i)[a] = ActsAt(p, i)[a]
    BY <2>1, <2>6 DEF was, now
  <2>8. \A i \in 0..Len(p.history) : \A a \in DOMAIN ActsAt(p, i) :
          ActsAt(p, i)[a].press # press /\ CameBefore(ActsAt(p, i)[a].press, k + 1)
    BY <1>4 DEF AllBefore
  <2>9. Apart(q)
    <3>1. ASSUME NEW i \in 0..Len(p.history), NEW j \in 0..Len(p.history),
                 NEW a \in DOMAIN ActsAt(q, i), NEW b \in DOMAIN ActsAt(q, j),
                 ActsAt(q, i)[a].press = ActsAt(q, j)[b].press
          PROVE  i = j /\ a = b
      <4>1. CASE a \in DOMAIN ActsAt(p, i) /\ ActsAt(q, i)[a] = ActsAt(p, i)[a]
        <5>1. b \in DOMAIN ActsAt(p, j) /\ ActsAt(q, j)[b] = ActsAt(p, j)[b]
          BY <2>7, <2>8, <3>1, <4>1
        <5> QED BY <3>1, <4>1, <5>1 DEF Apart
      <4>2. CASE i = at /\ a = new /\ ActsAt(q, i)[a].press = press
        <5>1. j = at /\ b = new
          BY <2>7, <2>8, <3>1, <4>2
        <5> QED BY <4>2, <5>1
      <4> QED BY <2>7, <4>1, <4>2
    <3> QED BY <1>2, <3>1 DEF Apart
  <2>10. AllBefore(q, k + 1)
    <3>1. CameBefore(press, k + 1)
      BY <1>1 DEF press
    <3>2. \A i \in 0..Len(p.history) : \A a \in DOMAIN ActsAt(q, i) : CameBefore(ActsAt(q, i)[a].press, k + 1)
      BY <2>7, <2>8, <3>1
    <3> QED BY <1>2, <3>2 DEF AllBefore
  <2> QED BY <2>9, <2>10
<1> QED BY <1>5, <1>6 DEF Answered, press

\* A player while the inbox is read.
PlayerAt(p, was, k) == PlayerIs(p) /\ SameWindow(was, p) /\ Apart(p) /\ AllBefore(p, k)

\* One more message read keeps a player one.
LEMMA PlayerAtNext ==
  ASSUME InboxIs, PressesAre, NEW k \in Nat, k + 1 \in 1..Len(inbox), inbox[k + 1].op = "input",
         NEW p, NEW was, PlayerIs(was), PlayerAt(p, was, k), NEW out
  PROVE  PlayerAt(_input([p |-> p, late |-> out], inbox[k + 1]).p, was, k + 1)
<1> DEFINE q == [p |-> p, late |-> out]
           m == inbox[k + 1]
           r == _input(q, m).p
<1>1. IsPair(q) /\ q.p = p
  BY DEF IsPair
<1>2. m.at \in Nat
  BY DEF PressesAre
<1> HIDE DEF q
<1>3. Answered(p, r, m.press)
  BY <1>1, <1>2, InputIs DEF PlayerAt
<1> HIDE DEF r
<1>4. Apart(r) /\ AllBefore(r, k + 1)
  BY <1>3, AnsweredApart DEF PlayerAt
<1>5. SameWindow(was, r) /\ PlayerIs(r)
  <2>1. Len(was.history) \in Nat
    BY SequenceHas DEF PlayerIs
  <2> QED BY <1>3, <2>1 DEF Answered, SameWindow, PlayerAt
<1>6. PlayerAt(r, was, k + 1)
  BY <1>4, <1>5 DEF PlayerAt
<1> QED BY <1>6 DEF r, q

\* The whole inbox read keeps every player one.
LEMMA InboxReadPlayers ==
  ASSUME InboxIs, PressesAre, PlayersAre
  PROVE  LET s == FoldLeft(Taken, InboxState, inbox) IN
         DOMAIN s.players = DOMAIN players /\ \A pid \in DOMAIN players : PlayerAt(s.players[pid], players[pid], Len(inbox))
<1>1. IsSequence(inbox) /\ Len(inbox) \in Nat /\ DOMAIN inbox = 1..Len(inbox)
  BY SequenceHas DEF InboxIs
<1>2. PICK g : TakenTrace(g, InboxState, inbox)
  BY <1>1, TakenRun
<1> DEFINE Ok(s, k) == /\ Reading(s) /\ DOMAIN s.players = DOMAIN players
                       /\ \A pid \in DOMAIN players : PlayerAt(s.players[pid], players[pid], k)
           H == {k \in 0..Len(inbox) : Ok(g[k], k)}
<1>3. Ok(g[0], 0)
  <2>1. g[0] = InboxState
    BY <1>2 DEF TakenTrace
  <2>2. Reading(g[0]) /\ g[0].players = players
    BY <2>1 DEF Reading, InboxState
  <2>3. \A pid \in DOMAIN players : PlayerAt(players[pid], players[pid], 0)
    BY DEF PlayersAre, PlayerAt, SameWindow
  <2> QED BY <2>2, <2>3
<1>4. ASSUME NEW k \in 1..Len(inbox), Ok(g[k - 1], k - 1) PROVE Ok(g[k], k)
  <2> DEFINE s == g[k - 1]
             m == inbox[k]
             l == k - 1
  <2>1. g[k] = Taken(s, m) /\ m.op \in {"input", "sync", "end"} /\ k = l + 1 /\ l \in Nat
    BY <1>1, <1>2 DEF TakenTrace, InboxIs
  <2>2. Ok(s, l)
    BY <1>4
  <2> HIDE DEF s, l
  <2>3. ASSUME NEW pid \in DOMAIN players PROVE PlayerAt(s.players[pid], players[pid], k)
    <3>1. PlayerAt(s.players[pid], players[pid], l)
      BY <2>2
    <3> QED BY <2>1, <3>1, AllBeforeLater DEF PlayerAt
  <2>4. CASE m.op = "end" \/ m.op = "sync" \/ m.pid \notin DOMAIN s.players
    <3>1. g[k] = s \/ g[k] = [s EXCEPT !.ended = TRUE] \/ g[k] = [s EXCEPT !.need_sync = TRUE]
      BY <2>1, <2>4 DEF Taken
    <3>2. Reading(g[k]) /\ g[k].players = s.players
      BY <2>2, <3>1 DEF Reading
    <3> QED BY <2>2, <2>3, <3>2
  <2>5. CASE m.op = "input" /\ m.pid \in DOMAIN s.players
    <3> DEFINE q == _input([p |-> s.players[m.pid], late |-> s.late], m)
    <3>1. g[k] = [s EXCEPT !.players[m.pid] = q.p, !.late = q.late]
      BY <2>1, <2>5 DEF Taken
    <3>2. PlayerAt(q.p, players[m.pid], k)
      <4> DEFINE p == s.players[m.pid]
                 was == players[m.pid]
                 late0 == s.late
      <4>1. PlayerAt(p, was, l) /\ PlayerIs(was)
        BY <2>2, <2>5 DEF PlayersAre
      <4> HIDE DEF p, was, late0, m
      <4>2. k = l + 1 /\ m = inbox[l + 1] /\ l + 1 \in 1..Len(inbox) /\ inbox[l + 1].op = "input" /\ l \in Nat
        BY <2>1, <2>5 DEF m
      <4>3. PlayerAt(_input([p |-> p, late |-> late0], inbox[l + 1]).p, was, l + 1)
        BY <4>1, <4>2, PlayerAtNext
      <4> QED BY <4>2, <4>3 DEF p, was, late0
    <3> HIDE DEF q, m
    <3>3. Reading(g[k]) /\ DOMAIN g[k].players = DOMAIN s.players
      BY <2>2, <3>1 DEF Reading
    <3>4. \A pid \in DOMAIN players : g[k].players[pid] = IF pid = m.pid THEN q.p ELSE s.players[pid]
      BY <2>2, <2>5, <3>1 DEF Reading
    <3> QED BY <2>2, <2>3, <3>2, <3>3, <3>4
  <2> QED BY <2>1, <2>4, <2>5
<1>5. H = 0..Len(inbox)
  <2> HIDE DEF Ok
  <2>1. H \in SUBSET (0..Len(inbox)) /\ 0 \in H /\ \A i \in 1..Len(inbox) : i - 1 \in H => i \in H
    BY <1>1, <1>3, <1>4
  <2> HIDE DEF H
  <2> QED BY <1>1, <2>1, AtEachPlace
<1>6. Ok(g[Len(inbox)], Len(inbox))
  <2> HIDE DEF Ok
  <2> QED BY <1>1, <1>5
<1>7. FoldLeft(Taken, InboxState, inbox) = g[Len(inbox)]
  BY <1>2 DEF TakenTrace
<1> QED BY <1>6, <1>7

\* A window after a step: the step has been added, and it may begin later.
StepAdded(p, q, entry, c) ==
  /\ DOMAIN q = DOMAIN p /\ q.acts = <<>>
  /\ EntryIs(entry) /\ entry.n = step_n + 1 /\ entry.acts = p.acts
  /\ c \in 1..(Len(p.history) + 1)
  /\ IsSequence(q.history) /\ Len(q.history) = Len(p.history) + 2 - c /\ Len(q.history) <= REWIND_STEPS
  /\ \A i \in 1..Len(q.history) :
       q.history[i] = IF c + i - 1 = Len(p.history) + 1 THEN entry ELSE p.history[c + i - 1]

\* A player's part of a step adds that step, or is nothing before they have joined.
LEMMA PlayerStepIs ==
  ASSUME NEW pid, NEW p, PlayerIs(p), step_n \in Nat, NEW mine
  PROVE  LET q == PlayerStep(pid, p, step_n + 1, mine).p IN q = p \/ \E entry, c : StepAdded(p, q, entry, c)
<1> DEFINE q == PlayerStep(pid, p, step_n + 1, mine).p
           blows == [i \in DOMAIN mine |-> Attacks[mine[i][1]][mine[i][2]].blow]
           s == Stepped(p.dot, p.keys, p.acts, blows)
           out == _reportable(pid, s.ev, mine)
           entry == [n |-> step_n + 1, snap |-> snapshot(p.dot), keys |-> p.keys, acts |-> p.acts, blows |-> blows, out |-> out]
           h == p.history
           window == Append(h, entry)
           c == AtLeast(1, Len(window) - REWIND_STEPS + 1)
<1>1. CASE step_n + 1 <= p.join
  BY <1>1 DEF PlayerStep
<1>2. CASE ~(step_n + 1 <= p.join)
  <2>1. q = [p EXCEPT !.dot = s.d, !.acts = <<>>, !.flee = FALSE, !.history = SubSeq(window, c, Len(window))]
    BY <1>2 DEF PlayerStep
  <2>2. EntryIs(entry) /\ entry.n = step_n + 1 /\ entry.acts = p.acts
    <3> HIDE DEF blows, out
    <3>1. IsSnap(snapshot(p.dot)) /\ IsSequence(p.acts)
      BY SnapshotIs DEF PlayerIs
    <3> DEFINE x == snapshot(p.dot)
    <3> HIDE DEF x
    <3>2. entry = [n |-> step_n + 1, snap |-> x, keys |-> p.keys, acts |-> p.acts, blows |-> blows, out |-> out]
      BY DEF x
    <3> HIDE DEF entry
    <3>3. /\ DOMAIN entry = {"n", "snap", "keys", "acts", "blows", "out"}
          /\ entry.n = step_n + 1 /\ entry.snap = x /\ entry.acts = p.acts
      BY <3>2
    <3> QED BY <3>1, <3>3 DEF EntryIs, x
  <2>3. IsSequence(h) /\ Len(h) \in Nat /\ DOMAIN p = {"join", "dot", "keys", "flee", "history", "acts"}
    BY SequenceHas DEF PlayerIs
  <2> HIDE DEF entry, s, h
  <2>4. IsSequence(window) /\ Len(window) = Len(h) + 1 /\ window[Len(h) + 1] = entry /\ \A i \in 1..Len(h) : window[i] = h[i]
    BY <2>3, SequenceAppend
  <2> HIDE DEF window
  <2>13. REWIND_STEPS \in Nat \ {0} /\ c = AtLeast(1, (Len(h) + 1) - REWIND_STEPS + 1)
    BY <2>4, OwnerAssumption
  <2>5. c \in 1..(Len(h) + 1)
    BY <2>3, <2>13 DEF AtLeast
  <2>12. Len(h) + 2 - c <= REWIND_STEPS
    <3> HIDE DEF c
    <3>1. c \in Int /\ c >= (Len(h) + 1) - REWIND_STEPS + 1
      BY <2>3, <2>13 DEF AtLeast
    <3> QED BY <2>3, <2>13, <3>1
  <2> DEFINE l == Len(window)
             part == SubSeq(window, c, l)
  <2>6. l = Len(h) + 1 /\ l \in Nat /\ c \in 1..l + 1 /\ l \in (c - 1)..l
    BY <2>3, <2>4, <2>5
  <2> HIDE DEF c
  <2>7. /\ IsSequence(part) /\ Len(part) = l - c + 1
        /\ \A i \in 1..(l - c + 1) : part[i] = window[c + i - 1]
    BY <2>4, <2>6, SequencePart
  <2>8. DOMAIN q = DOMAIN p /\ q.acts = <<>> /\ q.history = part
    BY <2>1, <2>3
  <2> HIDE DEF part, l, q
  <2>9. Len(part) = Len(h) + 2 - c
    BY <2>3, <2>5, <2>6, <2>7
  <2>10. ASSUME NEW i \in 1..Len(part)
         PROVE  part[i] = IF c + i - 1 = Len(h) + 1 THEN entry ELSE h[c + i - 1]
    <3>1. i \in 1..(l - c + 1) /\ (c + i - 1 = Len(h) + 1 \/ c + i - 1 \in 1..Len(h))
      BY <2>3, <2>5, <2>6, <2>7
    <3>2. part[i] = window[c + i - 1]
      BY <2>7, <3>1
    <3> QED BY <2>4, <3>1, <3>2
  <2>11. StepAdded(p, q, entry, c)
    BY <2>2, <2>5, <2>7, <2>8, <2>9, <2>10, <2>12 DEF StepAdded, h
  <2> QED BY <2>11 DEF q
<1> QED BY <1>1, <1>2

\* A player's window after a step.
LEMMA StepAddedIs ==
  ASSUME ClocksAre, NEW p, PlayerIs(p), Apart(p), AllBefore(p, 0), \A i \in 1..Len(p.history) : p.history[i].n <= step_n,
         NEW q, NEW entry, NEW c, StepAdded(p, q, entry, c)
  PROVE  /\ PlayerIs(q) /\ Apart(q) /\ AllBefore(q, 0)
         /\ \A i \in 1..Len(q.history) : q.history[i].n <= step_n + 1
         /\ \A s : ToldOfWindow(p, s) => \A i \in 1..Len(q.history) :
              q.history[i].n >= s.n /\ (q.history[i].n = s.n => q.history[i].snap = s.snap)
<1> DEFINE h == p.history
           g == q.history
           l == Len(h)
           At(i) == c + i - 1
<1>1. /\ l \in Nat /\ DOMAIN p = {"join", "dot", "keys", "flee", "history", "acts"} /\ IsSequence(p.acts)
      /\ \A i \in 1..l : EntryIs(h[i]) /\ h[i].n <= step_n
      /\ \A i, j \in 1..l : i < j => h[i].n < h[j].n
  BY SequenceHas DEF PlayerIs
<1>2. /\ DOMAIN q = DOMAIN p /\ q.acts = <<>> /\ EntryIs(entry) /\ entry.n = step_n + 1 /\ entry.acts = p.acts
      /\ c \in 1..(l + 1) /\ IsSequence(g) /\ Len(g) = l + 2 - c
      /\ \A i \in 1..Len(g) : g[i] = IF At(i) = l + 1 THEN entry ELSE h[At(i)]
  BY DEF StepAdded
<1>3. step_n \in Nat
  BY DEF ClocksAre
<1> HIDE DEF g, h, l
<1>4. \A i \in 1..Len(g) : At(i) \in 1..(l + 1) /\ (At(i) # l + 1 => At(i) \in 1..l)
  BY <1>1, <1>2
<1>5. \A i, j \in 1..Len(g) : At(i) \in Nat /\ (i < j => At(i) < At(j)) /\ (At(i) = At(j) => i = j)
  BY <1>1, <1>2
<1> HIDE DEF At
<1>6. \A i \in 1..Len(g) : /\ EntryIs(g[i]) /\ g[i].n <= step_n + 1
                           /\ At(i) # l + 1 => g[i] = h[At(i)] /\ g[i].n <= step_n
                           /\ At(i) = l + 1 => g[i] = entry /\ g[i].n = step_n + 1
  <2> TAKE i \in 1..Len(g)
  <2>1. CASE At(i) = l + 1
    BY <1>2, <1>3, <2>1
  <2>2. CASE At(i) # l + 1
    <3>1. g[i] = h[At(i)] /\ At(i) \in 1..l
      BY <1>2, <1>4, <2>2
    <3>2. EntryIs(g[i]) /\ g[i].n <= step_n /\ g[i].n \in Nat
      BY <1>1, <3>1 DEF EntryIs
    <3> QED BY <1>3, <2>2, <3>1, <3>2
  <2> QED BY <2>1, <2>2
<1>7. ASSUME NEW i \in 1..Len(g), NEW j \in 1..Len(g), i < j PROVE g[i].n < g[j].n
  <2>1. At(i) < At(j) /\ At(i) \in 1..l
    <3>1. At(i) < At(j) /\ At(i) \in Nat /\ At(j) \in Nat
      BY <1>5, <1>7
    <3> QED BY <1>1, <1>4, <3>1
  <2>2. At(i) # l + 1
    BY <1>1, <2>1
  <2>3. g[i] = h[At(i)] /\ g[i].n <= step_n /\ g[i].n \in Nat
    BY <1>6, <2>2 DEF EntryIs
  <2>4. CASE At(j) = l + 1
    BY <1>3, <1>6, <2>3, <2>4
  <2>5. CASE At(j) # l + 1
    <3>1. At(j) \in 1..l /\ g[j] = h[At(j)]
      BY <1>4, <1>6, <2>5
    <3> QED BY <1>1, <2>1, <2>3, <3>1
  <2> QED BY <2>4, <2>5
<1>8. PlayerIs(q)
  <2>1. IsSequence(q.acts)
    BY <1>2, NoneIs
  <2> QED BY <1>1, <1>2, <1>6, <1>7, <2>1 DEF PlayerIs, g
<1>9. ActsAt(q, 0) = <<>> /\ DOMAIN ActsAt(q, 0) = {}
  <2>1. ActsAt(q, 0) = <<>>
    BY <1>2 DEF ActsAt
  <2> QED BY <2>1
<1> DEFINE Of(i) == IF At(i) = l + 1 THEN 0 ELSE At(i)
<1>10. \A i \in 1..Len(g) : Of(i) \in 0..l /\ ActsAt(q, i) = ActsAt(p, Of(i))
  <2> TAKE i \in 1..Len(g)
  <2>0. i # 0
    BY <1>1, <1>2
  <2>1. ActsAt(q, i) = g[i].acts
    BY <2>0 DEF ActsAt, g
  <2>2. CASE At(i) = l + 1
    BY <1>1, <1>2, <1>6, <2>1, <2>2 DEF ActsAt
  <2>3. CASE At(i) # l + 1
    <3>1. At(i) \in 1..l /\ g[i] = h[At(i)] /\ At(i) # 0
      BY <1>1, <1>4, <1>6, <2>3
    <3> QED BY <1>1, <2>1, <2>3, <3>1 DEF ActsAt, h
  <2> QED BY <2>2, <2>3
<1>11. \A i, j \in 1..Len(g) : Of(i) = Of(j) => i = j
  <2>1. \A i \in 1..Len(g) : At(i) # 0
    BY <1>1, <1>4
  <2> QED BY <1>5, <2>1
<1> HIDE DEF Of
<1>12. \A i : i \in 0..Len(g) => i = 0 \/ i \in 1..Len(g)
  BY <1>1, <1>2
<1>13. Apart(q)
  <2>1. ASSUME NEW i \in 0..Len(g), NEW j \in 0..Len(g), NEW a \in DOMAIN ActsAt(q, i), NEW b \in DOMAIN ActsAt(q, j),
               ActsAt(q, i)[a].press = ActsAt(q, j)[b].press
        PROVE  i = j /\ a = b
    <3>1. i \in 1..Len(g) /\ j \in 1..Len(g)
      BY <1>9, <1>12
    <3>2. Of(i) = Of(j) /\ a = b
      BY <1>10, <2>1, <3>1 DEF Apart, l, h
    <3> QED BY <1>11, <3>1, <3>2
  <2> QED BY <2>1 DEF Apart, g
<1>14. AllBefore(q, 0)
  <2>1. ASSUME NEW i \in 0..Len(g), NEW a \in DOMAIN ActsAt(q, i) PROVE CameBefore(ActsAt(q, i)[a].press, 0)
    <3>1. i \in 1..Len(g)
      BY <1>9, <1>12
    <3> QED BY <1>10, <3>1 DEF AllBefore, l, h
  <2> QED BY <2>1 DEF AllBefore, g
<1>15. ASSUME NEW s, ToldOfWindow(p, s), NEW i \in 1..Len(g)
       PROVE  g[i].n >= s.n /\ (g[i].n = s.n => g[i].snap = s.snap)
  <2>1. s.n \in Nat /\ s.n <= step_n /\ \A k \in 1..l : h[k].n >= s.n /\ (h[k].n = s.n => h[k].snap = s.snap)
    BY <1>3, <1>15 DEF ToldOfWindow, h, l
  <2>2. CASE At(i) = l + 1
    <3>1. g[i].n = step_n + 1
      BY <1>6, <2>2
    <3> QED BY <1>3, <2>1, <3>1
  <2>3. CASE At(i) # l + 1
    BY <1>4, <1>6, <2>1, <2>3
  <2> QED BY <2>2, <2>3
<1> QED BY <1>6, <1>8, <1>13, <1>14, <1>15 DEF g

\* A message more, whose input is after those there were.
LEMMA InboxGrows ==
  ASSUME InboxIs, PressesAre, NEW m, inbox' = Append(inbox, m),
         \/ m.op # "input" /\ inputs' = inputs
         \/ m.op = "input" /\ m.at \in Nat /\ m.press = inputs + 1 /\ inputs' = inputs + 1
  PROVE  PressesAre' /\ \A x : CameBefore(x, 0) => CameBefore(x, 0)'
<1> DEFINE l == Len(inbox)
<1>1. l \in Nat /\ IsSequence(inbox)
  BY SequenceHas DEF InboxIs
<1>2. /\ IsSequence(inbox') /\ Len(inbox') = l + 1 /\ inbox'[l + 1] = m
      /\ \A i \in 1..l : inbox'[i] = inbox[i]
  BY <1>1, SequenceAppend
<1>3. inputs \in Nat /\ inputs' \in Nat /\ inputs' >= inputs
  BY DEF PressesAre
<1> HIDE DEF l
<1>4. ASSUME NEW k \in 0..l, NEW x, CameBefore(x, k) PROVE CameBefore(x, k)'
  <2>1. x \in 0..inputs /\ \A j \in (k + 1)..l : inbox[j].op = "input" => x < inbox[j].press
    BY <1>4 DEF CameBefore, l
  <2>2. ASSUME NEW j \in (k + 1)..(l + 1), inbox'[j].op = "input" PROVE x < inbox'[j].press
    <3>1. CASE j = l + 1
      <4>1. m.op = "input" /\ m.press = inputs + 1
        BY <1>2, <2>2, <3>1
      <4> QED BY <1>2, <1>3, <2>1, <3>1, <4>1
    <3>2. CASE j # l + 1
      <4>1. j \in (k + 1)..l /\ j \in 1..l
        BY <1>1, <3>2
      <4> QED BY <1>2, <2>1, <2>2, <4>1
    <3> QED BY <3>1, <3>2
  <2>3. x \in 0..inputs'
    BY <1>3, <2>1
  <2> QED BY <1>2, <2>2, <2>3 DEF CameBefore
<1>5. ASSUME NEW i \in 1..(l + 1), inbox'[i].op = "input"
      PROVE  inbox'[i].at \in Nat /\ CameBefore(inbox[i].press, i)'
  <2>1. CASE i = l + 1
    <3>1. m.at \in Nat /\ m.press = inputs + 1 /\ inputs' = inputs + 1
      BY <1>2, <1>5, <2>1
    <3>2. inbox'[i].press \in 0..inputs'
      BY <1>2, <1>3, <2>1, <3>1
    <3>3. (i + 1)..Len(inbox') = {}
      BY <1>1, <1>2, <2>1
    <3> QED BY <1>2, <2>1, <3>1, <3>2, <3>3 DEF CameBefore
  <2>2. CASE i # l + 1
    <3>1. i \in 1..l /\ i \in 0..l /\ inbox'[i] = inbox[i]
      BY <1>1, <1>2, <2>2
    <3>2. inbox[i].at \in Nat /\ CameBefore(inbox[i].press, i)
      BY <1>5, <3>1 DEF PressesAre, l
    <3>3. CameBefore(inbox[i].press, i)'
      <4> DEFINE x == inbox[i].press
      <4>1. CameBefore(x, i) /\ inbox'[i].press = x
        BY <3>1, <3>2
      <4> HIDE DEF x
      <4>2. /\ x \in 0..inputs'
            /\ \A j \in (i + 1)..Len(inbox') : inbox'[j].op = "input" => x < inbox'[j].press
        BY <1>4, <3>1, <4>1 DEF CameBefore
      <4> QED BY <4>1, <4>2 DEF CameBefore
    <3> QED BY <3>1, <3>2, <3>3
  <2> QED BY <2>1, <2>2
<1>6. PressesAre'
  BY <1>2, <1>3, <1>5 DEF PressesAre
<1>7. 0 \in 0..l
  BY <1>1
<1> QED BY <1>4, <1>6, <1>7

\* The same messages, or none.
LEMMA InboxSame ==
  ASSUME InboxIs, PressesAre, inputs' = inputs, inbox' = inbox \/ inbox' = <<>>
  PROVE  PressesAre' /\ \A x : CameBefore(x, 0) => CameBefore(x, 0)'
<1>1. CASE inbox' = inbox
  BY <1>1 DEF PressesAre, CameBefore
<1>2. CASE inbox' = <<>>
  <2>1. Len(inbox') = 0 /\ \A k : k \in 1..0 => FALSE
    BY <1>2
  <2>2. inputs \in Nat
    BY DEF PressesAre
  <2>3. (0 + 1)..0 = {}
    OBVIOUS
  <2>4. \A x : CameBefore(x, 0) => CameBefore(x, 0)'
    BY <2>1, <2>3 DEF CameBefore
  <2> QED BY <2>1, <2>2, <2>4 DEF PressesAre
<1> QED BY <1>1, <1>2

\* A player whose acts and steps are as they were.
Keeps(p, q) == DOMAIN q = DOMAIN p /\ q.history = p.history /\ q.acts = p.acts

\* Players who are kept are still players.
LEMMA PlayersKept ==
  ASSUME ClocksAre, PlayersAre, step_n' \in Nat, step_n' >= step_n, DOMAIN members' \subseteq Players,
         \A x : CameBefore(x, 0) => CameBefore(x, 0)',
         DOMAIN players' \subseteq DOMAIN players, \A pid \in DOMAIN players' : Keeps(players[pid], players'[pid]),
         \A pid \in DOMAIN players' \intersect DOMAIN sent' : pid \in DOMAIN sent /\ sent'[pid] = sent[pid]
  PROVE  PlayersAre'
<1>1. step_n \in Nat
  BY DEF ClocksAre
<1>2. ASSUME NEW pid \in DOMAIN players'
      PROVE  /\ PlayerIs(players'[pid]) /\ Apart(players'[pid]) /\ AllBefore(players[pid], 0)'
             /\ \A i \in 1..Len(players'[pid].history) : players'[pid].history[i].n <= step_n'
  <2> DEFINE p == players[pid]
             q == players'[pid]
  <2>1. PlayerIs(p) /\ Apart(p) /\ AllBefore(p, 0) /\ \A i \in 1..Len(p.history) : p.history[i].n <= step_n
    BY DEF PlayersAre
  <2>2. Keeps(p, q)
    OBVIOUS
  <2>9. q = players'[pid]
    OBVIOUS
  <2> HIDE DEF p, q
  <2>3. PlayerIs(q) /\ SameActs(p, q) /\ q.history = p.history
    BY <2>1, <2>2, OtherKeys DEF Keeps
  <2>4. \A i \in 0..Len(p.history) : ActsAt(q, i) = ActsAt(p, i)
    BY <2>3 DEF SameActs
  <2>5. Apart(q)
    BY <2>1, <2>3, <2>4 DEF Apart
  <2>6. \A i \in 0..Len(q.history) : \A a \in DOMAIN ActsAt(q, i) : CameBefore(ActsAt(p, i)[a].press, 0) /\ ActsAt(p, i) = ActsAt(q, i)
    BY <2>1, <2>3, <2>4 DEF AllBefore
  <2>7. \A i \in 1..Len(q.history) : q.history[i].n <= step_n'
    <3> TAKE i \in 1..Len(q.history)
    <3>1. p.history[i].n <= step_n /\ p.history[i].n \in Nat
      BY <2>1, <2>3 DEF PlayerIs, EntryIs
    <3> QED BY <1>1, <2>3, <3>1
  <2>8. \A i \in 0..Len(q.history) : \A a \in DOMAIN ActsAt(q, i) :
          /\ ActsAt(q, i)[a].press \in 0..inputs'
          /\ \A j \in (0 + 1)..Len(inbox') : inbox'[j].op = "input" => ActsAt(q, i)[a].press < inbox'[j].press
    <3> TAKE i \in 0..Len(q.history)
    <3> TAKE a \in DOMAIN ActsAt(q, i)
    <3> DEFINE x == ActsAt(q, i)[a].press
    <3>1. CameBefore(x, 0)
      BY <2>6
    <3> HIDE DEF x
    <3>2. PICK y : y = x /\ CameBefore(y, 0)
      BY <3>1
    <3>4. CameBefore(y, 0)'
      BY <3>2
    <3>5. y \in 0..inputs' /\ \A j \in (0 + 1)..Len(inbox') : inbox'[j].op = "input" => y < inbox'[j].press
      BY <3>4 DEF CameBefore
    <3>3. x \in 0..inputs' /\ \A j \in (0 + 1)..Len(inbox') : inbox'[j].op = "input" => x < inbox'[j].press
      BY <3>2, <3>5
    <3> QED BY <3>3 DEF x
  <2>10. AllBefore(players[pid], 0)'
    BY <2>8, <2>9 DEF AllBefore, CameBefore, ActsAt
  <2> QED BY <2>3, <2>5, <2>7, <2>9, <2>10
<1>3. ASSUME NEW pid \in DOMAIN players' \intersect DOMAIN sent'
      PROVE  /\ sent'[pid].n \in 0..step_n'
             /\ \A i \in 1..Len(players'[pid].history) :
                  /\ players'[pid].history[i].n >= sent'[pid].n
                  /\ players'[pid].history[i].n = sent'[pid].n => players'[pid].history[i].snap = sent'[pid].snap
  <2>1. ToldOfWindow(players[pid], sent[pid]) /\ sent'[pid] = sent[pid] /\ players'[pid].history = players[pid].history
    BY DEF PlayersAre, Keeps
  <2>2. sent[pid].n \in 0..step_n'
    BY <1>1, <2>1 DEF ToldOfWindow
  <2> QED BY <2>1, <2>2 DEF ToldOfWindow
<1>4. \A pid \in DOMAIN players' : PlayerIs(players[pid])' /\ Apart(players[pid])'
  BY <1>2 DEF PlayerIs, Apart, ActsAt
<1>5. \A pid \in DOMAIN players' \intersect DOMAIN sent' : ToldOfWindow(players[pid], sent[pid])'
  BY <1>3 DEF ToldOfWindow
<1> QED BY <1>2, <1>4, <1>5 DEF PlayersAre

\* What gives no acts, takes no step and forgets nothing.
LEMMA WindowKept ==
  ASSUME RunInv, WindowInv, UNCHANGED <<inputs, sent>>,
         inbox' = inbox \/ \E m, f : inbox' = Append(inbox, Told(m, f)),
         step_n' \in Nat, step_n' >= step_n, DOMAIN members' \subseteq Players,
         DOMAIN players' \subseteq DOMAIN players, \A pid \in DOMAIN players' : Keeps(players[pid], players'[pid])
  PROVE  WindowInv'
<1>1. InboxIs /\ PressesAre /\ ClocksAre /\ PlayersAre
  BY DEF RunInv, WindowInv
<1>2. PressesAre' /\ \A x : CameBefore(x, 0) => CameBefore(x, 0)'
  <2>1. CASE inbox' = inbox
    BY <1>1, <2>1, InboxSame
  <2>2. CASE \E m, f : inbox' = Append(inbox, Told(m, f))
    <3>1. PICK m, f : inbox' = Append(inbox, Told(m, f))
      BY <2>2
    <3>2. Told(m, f).op # "input"
      BY DEF Told, Sync, End
    <3> DEFINE t == Told(m, f)
    <3>3. inbox' = Append(inbox, t) /\ t.op # "input"
      BY <3>1, <3>2
    <3> HIDE DEF t
    <3> QED BY <1>1, <3>3, InboxGrows
  <2> QED BY <2>1, <2>2
<1>3. \A pid \in DOMAIN players' \intersect DOMAIN sent' : pid \in DOMAIN sent /\ sent'[pid] = sent[pid]
  OBVIOUS
<1>4. PlayersAre'
  BY <1>1, <1>2, <1>3, PlayersKept
<1> QED BY <1>2, <1>4 DEF WindowInv

\* Whoever stays as they are is kept.
LEMMA KeepsSame == \A p : Keeps(p, p)
BY DEF Keeps

\* Their volleys may go.
LEMMA KeepsDot == \A p, q : DOMAIN q = DOMAIN p /\ (\A f \in DOMAIN p : f # "dot" => q[f] = p[f])
                     /\ PlayerIs(p) => Keeps(p, q)
BY DEF Keeps, PlayerIs

\* So it is for all the volleys at an NPC.
LEMMA NoVolleysKeeps ==
  ASSUME NEW ps, NEW nid, NEW pid \in DOMAIN ps, PlayerIs(ps[pid])
  PROVE  Keeps(ps[pid], NoVolleysAt(ps, nid)[pid])
<1> DEFINE p == ps[pid]
           q == NoVolleysAt(ps, nid)[pid]
           d == cancel_volleys(p.dot, nid)
<1>1. q = [p EXCEPT !.dot = d]
  BY DEF NoVolleysAt
<1> HIDE DEF q, d, p
<1>2. DOMAIN q = DOMAIN p /\ \A f \in DOMAIN p : f # "dot" => q[f] = p[f]
  BY <1>1
<1>3. PlayerIs(p)
  BY DEF p
<1>4. Keeps(p, q)
  BY <1>2, <1>3, KeepsDot
<1> QED BY <1>4 DEF p, q

\* What the invariants say of any state.
LEMMA StepUnchanged ==
  ASSUME RunInv, WindowInv
  PROVE  step_n \in Nat /\ DOMAIN members \subseteq Players /\ \A pid \in DOMAIN players : PlayerIs(players[pid])
BY DEF RunInv, WindowInv, ClocksAre, PlayersAre

\* A tick of the clock, its start, and its end.
LEMMA TurnsWindow ==
  ASSUME RunInv, WindowInv, Tick \/ Begin \/ Caught
  PROVE  WindowInv'
<1>1. UNCHANGED <<members, inbox, inputs, sent, players>>
  BY DEF Tick, Begin, Caught, world, clients, history
<1>2. step_n' \in {step_n, target}
  BY DEF Tick, Begin, Caught, _skip_to
<1>3. (Tick \/ Begin) => step_n' = step_n
  BY DEF Tick, Begin
<1>4. Caught => phase = "run"
  BY DEF Caught
<1>5. step_n' \in Nat /\ step_n' >= step_n
  BY <1>2, <1>3, <1>4 DEF RunInv, ClocksAre
<1> QED BY <1>1, <1>5, StepUnchanged, KeepsSame, WindowKept

\* A change of the membership, told of.
LEMMA MovesWindow ==
  ASSUME RunInv, WindowInv, NEW m, NEW f, Moves(m, f), DOMAIN m \subseteq Players
  PROVE  WindowInv'
<1>1. UNCHANGED <<inputs, sent, players, step_n>> /\ members' = m /\ inbox' = Append(inbox, Told(m, f))
  BY DEF Moves, clients, history
<1> QED BY <1>1, StepUnchanged, KeepsSame, WindowKept

\* Players and NPCs come and go.
LEMMA ChangesWindow ==
  ASSUME RunInv, WindowInv,
         \/ \E pid \in Players : Arrives(pid) \/ Departs(pid)
         \/ \E nid \in Npcs : Appears(nid) \/ Vanishes(nid)
  PROVE  WindowInv'
<1>1. PICK m, f : Moves(m, f) /\ DOMAIN m \subseteq Players
  <2>1. CASE \E pid \in Players : Arrives(pid) \/ Departs(pid)
    <3>1. PICK pid \in Players : Arrives(pid) \/ Departs(pid)
      BY <2>1
    <3>2. DOMAIN With(members, pid, clock) \subseteq Players /\ DOMAIN Without(members, pid) \subseteq Players
      BY StepUnchanged DEF With, Without
    <3> QED BY <3>1, <3>2 DEF Arrives, Departs
  <2>2. CASE \E nid \in Npcs : Appears(nid) \/ Vanishes(nid)
    BY <2>2, StepUnchanged DEF Appears, Vanishes
  <2> QED BY <2>1, <2>2
<1> QED BY <1>1, MovesWindow

\* What a call to Lua makes of players: they go, or their volleys do.
LEMMA CallsKeep ==
  ASSUME RunInv, WindowInv, Strikes \/ Blows \/ Poise \/ Flees \/ Tells
  PROVE  DOMAIN players' \subseteq DOMAIN players /\ \A x \in DOMAIN players' : Keeps(players[x], players'[x])
<1> DEFINE pid == Head(calls).pid
           t == Head(calls).e.target
<1>1. players' \in {players, Without(players, pid), NoVolleysAt(players, t),
                    [players EXCEPT ![pid].dot = cancel_volleys(@, t)]}
  BY DEF Strikes, Blows, Poise, Flees, Tells
<1> HIDE DEF pid, t
<1>2. DOMAIN players' \subseteq DOMAIN players /\ \A x \in DOMAIN players' : Keeps(players[x], players'[x])
  <2>1. CASE players' = players
    BY <2>1, KeepsSame
  <2>2. CASE players' = Without(players, pid)
    BY <2>2, KeepsSame DEF Without
  <2>3. CASE players' = NoVolleysAt(players, t)
    <3>1. DOMAIN players' = DOMAIN players
      BY <2>3 DEF NoVolleysAt
    <3> QED BY <2>3, <3>1, StepUnchanged, NoVolleysKeeps
  <2>4. CASE players' = [players EXCEPT ![pid].dot = cancel_volleys(@, t)]
    <3>1. DOMAIN players' = DOMAIN players
      BY <2>4
    <3>2. ASSUME NEW x \in DOMAIN players PROVE Keeps(players[x], players'[x])
      <4>1. CASE x # pid
        <5>1. players'[x] = players[x]
          BY <2>4, <4>1
        <5> QED BY <5>1, KeepsSame
      <4>2. CASE x = pid
        <5> DEFINE p == players[x]
                   q == players'[x]
                   d == cancel_volleys(p.dot, t)
        <5>1. q = [p EXCEPT !.dot = d]
          BY <2>4, <4>2
        <5>2. PlayerIs(p)
          BY StepUnchanged
        <5> HIDE DEF p, q, d
        <5>3. DOMAIN q = DOMAIN p /\ \A f \in DOMAIN p : f # "dot" => q[f] = p[f]
          BY <5>1
        <5>4. Keeps(p, q)
          BY <5>2, <5>3, KeepsDot
        <5> QED BY <5>4 DEF p, q
      <4> QED BY <4>1, <4>2
    <3> QED BY <3>1, <3>2
  <2> QED BY <1>1, <2>1, <2>2, <2>3, <2>4
<1> QED BY <1>2

\* The calls to Lua.
LEMMA CallsWindow ==
  ASSUME RunInv, WindowInv, Strikes \/ Blows \/ Poise \/ Flees \/ Tells
  PROVE  WindowInv'
<1> DEFINE pid == Head(calls).pid
<1>1. UNCHANGED <<inputs, sent, step_n>>
  BY DEF Strikes, Blows, Poise, Flees, Tells, Elsewhere, clients
<1>2. \/ Unmoved
      \/ \E m, f : Leave(m, f) /\ m \in {members, Without(members, pid)}
  BY DEF Strikes, Blows, Poise, Flees, Tells
<1>3. /\ DOMAIN members' \subseteq Players
      /\ inbox' = inbox \/ \E m, f : inbox' = Append(inbox, Told(m, f))
  <2>1. CASE Unmoved
    BY <2>1, StepUnchanged DEF Unmoved
  <2>2. CASE \E m, f : Leave(m, f) /\ m \in {members, Without(members, pid)}
    <3>1. PICK m, f : Leave(m, f) /\ m \in {members, Without(members, pid)}
      BY <2>2
    <3>2. DOMAIN Without(members, pid) \subseteq DOMAIN members
      BY DEF Without
    <3> QED BY <3>1, <3>2, StepUnchanged DEF Leave
  <2> QED BY <1>2, <2>1, <2>2
<1> QED BY <1>1, <1>3, CallsKeep, StepUnchanged, WindowKept

\* An input is put in the inbox.
LEMMA ReceiveWindow ==
  ASSUME RunInv, WindowInv, NEW pid, NEW i, NEW at \in Nat, Receive(pid, i, at)
  PROVE  WindowInv'
<1> DEFINE m == [op |-> "input", pid |-> pid, keys |-> i.keys, act |-> i.act, slot |-> i.slot,
                 aim |-> i.aim, at |-> at, press |-> inputs + 1]
<1>1. /\ inbox' = Append(inbox, m) /\ inputs' = inputs + 1
      /\ UNCHANGED <<members, sent, players, step_n>>
  BY DEF Receive, world, history
<1>2. m.op = "input" /\ m.at \in Nat /\ m.press = inputs + 1
  OBVIOUS
<1> HIDE DEF m
<1>3. InboxIs /\ PressesAre /\ ClocksAre /\ PlayersAre
  BY DEF RunInv, WindowInv
<1>4. PressesAre' /\ \A x : CameBefore(x, 0) => CameBefore(x, 0)'
  BY <1>1, <1>2, <1>3, InboxGrows
<1>5. \A x \in DOMAIN players' : Keeps(players[x], players'[x])
  BY <1>1, KeepsSame
<1>6. PlayersAre'
  BY <1>1, <1>3, <1>4, <1>5, StepUnchanged, PlayersKept
<1> QED BY <1>4, <1>6 DEF WindowInv

\* The acts of a player's are of inputs there have been.
OfInputs(p) == \A i \in 0..Len(p.history) : \A a \in DOMAIN ActsAt(p, i) : ActsAt(p, i)[a].press \in 0..inputs

\* Acts of inputs that came before are.
LEMMA BeforeOfInputs == \A p, k : AllBefore(p, k) => OfInputs(p)
BY DEF AllBefore, CameBefore, OfInputs

\* Players made anew, while there is nothing in the inbox.
LEMMA PlayersAnew ==
  ASSUME DOMAIN members' \subseteq Players, inputs' = inputs, inbox' = <<>>,
         \A pid \in DOMAIN players' : /\ PlayerIs(players'[pid]) /\ Apart(players'[pid]) /\ OfInputs(players'[pid])
                                      /\ \A i \in 1..Len(players'[pid].history) : players'[pid].history[i].n <= step_n',
         \A pid \in DOMAIN players' \intersect DOMAIN sent' :
           /\ sent'[pid].n \in 0..step_n'
           /\ \A i \in 1..Len(players'[pid].history) :
                /\ players'[pid].history[i].n >= sent'[pid].n
                /\ players'[pid].history[i].n = sent'[pid].n => players'[pid].history[i].snap = sent'[pid].snap
  PROVE  PlayersAre'
<1>1. Len(inbox') = 0 /\ (0 + 1)..0 = {}
  OBVIOUS
<1>2. \A pid \in DOMAIN players' : \A i \in 0..Len(players'[pid].history) : \A a \in DOMAIN ActsAt(players'[pid], i) :
        ActsAt(players'[pid], i)[a].press \in 0..inputs'
  BY DEF OfInputs
<1>3. \A pid \in DOMAIN players' : AllBefore(players[pid], 0)'
  BY <1>1, <1>2 DEF AllBefore, CameBefore, ActsAt
<1>4. \A pid \in DOMAIN players' : PlayerIs(players[pid])' /\ Apart(players[pid])'
  BY DEF PlayerIs, Apart, ActsAt
<1>5. \A pid \in DOMAIN players' \intersect DOMAIN sent' : ToldOfWindow(players[pid], sent[pid])'
  BY DEF ToldOfWindow
<1> QED BY <1>3, <1>4, <1>5 DEF PlayersAre

\* The inbox is read.
LEMMA TakesWindow ==
  ASSUME RunInv, WindowInv, _take_inbox
  PROVE  WindowInv'
<1> DEFINE s == FoldLeft(Taken, InboxState, inbox)
<1>1. /\ players' = s.players /\ inbox' = <<>>
      /\ UNCHANGED <<members, step_n, sent, inputs>>
  BY DEF _take_inbox, InboxState, world, history, clients
<1>2. InboxIs /\ PressesAre /\ ClocksAre /\ PlayersAre
  BY DEF RunInv, WindowInv
<1>3. DOMAIN s.players = DOMAIN players /\ \A pid \in DOMAIN players : PlayerAt(s.players[pid], players[pid], Len(inbox))
  BY <1>2, InboxReadPlayers
<1> HIDE DEF s
<1>4. ASSUME NEW pid \in DOMAIN players'
      PROVE  /\ PlayerIs(players'[pid]) /\ Apart(players'[pid]) /\ OfInputs(players'[pid])
             /\ \A i \in 1..Len(players'[pid].history) : players'[pid].history[i].n <= step_n'
             /\ pid \in DOMAIN sent' =>
                  /\ sent'[pid].n \in 0..step_n'
                  /\ \A i \in 1..Len(players'[pid].history) :
                       /\ players'[pid].history[i].n >= sent'[pid].n
                       /\ players'[pid].history[i].n = sent'[pid].n => players'[pid].history[i].snap = sent'[pid].snap
  <2> DEFINE p == players[pid]
             q == players'[pid]
             t == sent[pid]
  <2>1. /\ PlayerIs(p) /\ PlayerAt(q, p, Len(inbox)) /\ \A i \in 1..Len(p.history) : p.history[i].n <= step_n
        /\ pid \in DOMAIN sent => ToldOfWindow(p, t)
    BY <1>1, <1>2, <1>3 DEF PlayersAre
  <2> HIDE DEF p, q, t
  <2>2. PlayerIs(q) /\ Apart(q) /\ OfInputs(q) /\ SameWindow(p, q)
    BY <2>1, BeforeOfInputs DEF PlayerAt
  <2>3. Len(p.history) \in Nat /\ \A i \in 1..Len(p.history) : p.history[i].n \in Nat /\ (1 < i => p.history[1].n < p.history[i].n)
    <3>1. Len(p.history) \in Nat
      BY <2>1, SequenceHas DEF PlayerIs
    <3>2. \A i \in 1..Len(p.history) : 1 \in 1..Len(p.history)
      BY <3>1
    <3> QED BY <2>1, <3>1, <3>2 DEF PlayerIs, EntryIs
  <2>4. \A i \in 1..Len(q.history) : i \in 1..Len(p.history) /\ q.history[i].n = p.history[i].n
    BY <2>2 DEF SameWindow
  <2>5. ASSUME pid \in DOMAIN sent, NEW i \in 1..Len(q.history)
        PROVE  q.history[i].n >= t.n /\ (q.history[i].n = t.n => q.history[i].snap = t.snap)
    <3>1. ToldOfWindow(p, t)
      BY <2>1, <2>5
    <3>2. p.history[i].n >= t.n /\ t.n \in Nat /\ i \in 1..Len(p.history) /\ q.history[i].n = p.history[i].n
      BY <2>4, <3>1 DEF ToldOfWindow
    <3>3. CASE i = 1
      <4>1. q.history[1].snap = p.history[1].snap
        BY <2>2, <2>3, <3>2, <3>3 DEF SameWindow
      <4> QED BY <3>1, <3>2, <3>3, <4>1 DEF ToldOfWindow
    <3>4. CASE i # 1
      <4>1. 1 < i /\ 1 \in 1..Len(p.history)
        BY <2>3, <3>2, <3>4
      <4>2. p.history[1].n >= t.n /\ p.history[1].n < p.history[i].n /\ p.history[1].n \in Nat /\ p.history[i].n \in Nat
        BY <2>3, <3>1, <3>2, <4>1 DEF ToldOfWindow
      <4> QED BY <3>2, <4>2
    <3> QED BY <3>3, <3>4
  <2>6. \A i \in 1..Len(q.history) : q.history[i].n <= step_n'
    BY <1>1, <2>1, <2>4
  <2>7. pid \in DOMAIN sent => t.n \in 0..step_n
    BY <2>1 DEF ToldOfWindow
  <2> QED BY <1>1, <2>2, <2>5, <2>6, <2>7 DEF p, q, t
<1>5. PlayersAre'
  BY <1>1, <1>4, StepUnchanged, PlayersAnew
<1>6. PressesAre'
  BY <1>1, <1>2, InboxSame
<1> QED BY <1>5, <1>6 DEF WindowInv

\* A step is run.
LEMMA RunStepWindow ==
  ASSUME RunInv, WindowInv, RunStep
  PROVE  WindowInv'
<1>1. /\ phase = "run" /\ step_n' = step_n + 1
      /\ UNCHANGED <<members, inbox, sent, inputs>>
      /\ players' = [pid \in DOMAIN players |-> PlayerStep(pid, players[pid], step_n + 1, LandingOn(pid, step_n + 1)).p]
  BY DEF RunStep, _run_step, world, clients
<1>2. InboxIs /\ PressesAre /\ ClocksAre /\ PlayersAre /\ step_n \in Nat
  BY DEF RunInv, WindowInv, ClocksAre
<1>3. inbox' = <<>>
  BY <1>1, <1>2 DEF InboxIs, Quiets
<1>4. ASSUME NEW pid \in DOMAIN players'
      PROVE  /\ PlayerIs(players'[pid]) /\ Apart(players'[pid]) /\ OfInputs(players'[pid])
             /\ \A i \in 1..Len(players'[pid].history) : players'[pid].history[i].n <= step_n'
             /\ pid \in DOMAIN sent' =>
                  /\ sent'[pid].n \in 0..step_n'
                  /\ \A i \in 1..Len(players'[pid].history) :
                       /\ players'[pid].history[i].n >= sent'[pid].n
                       /\ players'[pid].history[i].n = sent'[pid].n => players'[pid].history[i].snap = sent'[pid].snap
  <2> DEFINE p == players[pid]
             mine == LandingOn(pid, step_n + 1)
             q == PlayerStep(pid, p, step_n + 1, mine).p
             t == sent[pid]
  <2>1. /\ PlayerIs(p) /\ Apart(p) /\ AllBefore(p, 0) /\ \A i \in 1..Len(p.history) : p.history[i].n <= step_n
        /\ pid \in DOMAIN sent => ToldOfWindow(p, t)
        /\ players'[pid] = q
    BY <1>1, <1>2 DEF PlayersAre
  <2> HIDE DEF p, mine, t
  <2>2. q = p \/ \E entry, c : StepAdded(p, q, entry, c)
    BY <1>2, <2>1, PlayerStepIs
  <2> HIDE DEF q
  <2>3. CASE q = p
    <3>1. OfInputs(p)
      BY <2>1, BeforeOfInputs
    <3>2. \A i \in 1..Len(p.history) : p.history[i].n <= step_n + 1
      <4> TAKE i \in 1..Len(p.history)
      <4>1. p.history[i].n \in Nat /\ p.history[i].n <= step_n
        BY <2>1 DEF PlayerIs, EntryIs
      <4> QED BY <1>2, <4>1
    <3>3. pid \in DOMAIN sent => t.n \in 0..(step_n + 1)
      BY <1>2, <2>1 DEF ToldOfWindow
    <3> QED BY <1>1, <2>1, <2>3, <3>1, <3>2, <3>3 DEF ToldOfWindow, t
  <2>4. CASE \E entry, c : StepAdded(p, q, entry, c)
    <3>1. PICK entry, c : StepAdded(p, q, entry, c)
      BY <2>4
    <3>2. /\ PlayerIs(q) /\ Apart(q) /\ AllBefore(q, 0)
          /\ \A i \in 1..Len(q.history) : q.history[i].n <= step_n + 1
          /\ \A s : ToldOfWindow(p, s) => \A i \in 1..Len(q.history) :
               q.history[i].n >= s.n /\ (q.history[i].n = s.n => q.history[i].snap = s.snap)
      BY <1>2, <2>1, <3>1, StepAddedIs
    <3>3. pid \in DOMAIN sent => t.n \in 0..(step_n + 1)
      BY <1>2, <2>1 DEF ToldOfWindow
    <3>4. pid \in DOMAIN sent => \A i \in 1..Len(q.history) :
               q.history[i].n >= t.n /\ (q.history[i].n = t.n => q.history[i].snap = t.snap)
      BY <2>1, <3>2
    <3>5. OfInputs(q)
      BY <3>2, BeforeOfInputs
    <3> QED BY <1>1, <2>1, <3>2, <3>3, <3>4, <3>5 DEF t
  <2> QED BY <2>2, <2>3, <2>4
<1>5. PlayersAre'
  BY <1>1, <1>3, <1>4, StepUnchanged, PlayersAnew
<1>6. PressesAre'
  BY <1>1, <1>2, InboxSame
<1> QED BY <1>5, <1>6 DEF WindowInv

\* The state is published: each dot as its window begins.
LEMMA PublishWindow ==
  ASSUME RunInv, WindowInv, Publish
  PROVE  WindowInv'
<1>1. /\ sent' = [pid \in DOMAIN players |-> state(players[pid])]
      /\ UNCHANGED <<members, inbox, inputs, step_n, players>>
  BY DEF Publish, world, clients
<1>2. InboxIs /\ PressesAre /\ ClocksAre /\ PlayersAre /\ step_n \in Nat
  BY DEF RunInv, WindowInv, ClocksAre
<1>3. ASSUME NEW pid \in DOMAIN players
      PROVE  ToldOfWindow(players[pid], state(players[pid]))
  <2> DEFINE p == players[pid]
             s == state(p)
             h == p.history
  <2>1. PlayerIs(p) /\ \A i \in 1..Len(h) : h[i].n <= step_n
    BY <1>2 DEF PlayersAre
  <2>5. IsSequence(h) /\ (\A i \in 1..Len(h) : EntryIs(h[i])) /\ \A i, j \in 1..Len(h) : i < j => h[i].n < h[j].n
    BY <2>1 DEF PlayerIs
  <2>6. s = IF h = <<>> THEN [n |-> 0, snap |-> snapshot(p.dot)] ELSE [n |-> Head(h).n, snap |-> Head(h).snap]
    BY DEF state
  <2> HIDE DEF p, s, h
  <2>2. CASE h = <<>>
    <3>1. s.n = 0 /\ Len(h) = 0 /\ 1..0 = {}
      BY <2>2, <2>6
    <3> QED BY <1>2, <3>1 DEF ToldOfWindow, p, s, h
  <2>3. CASE h # <<>>
    <3>1. Len(h) \in Nat /\ Len(h) # 0
      BY <2>3, <2>5, SequenceHas, EmptySeq DEF IsSequence
    <3>2. Head(h) = h[1]
      BY <2>5, <3>1
    <3>3. s.n = h[1].n /\ s.snap = h[1].snap
      BY <2>3, <2>6, <3>2
    <3>4. 1 \in 1..Len(h) /\ h[1].n \in Nat /\ h[1].n <= step_n
      BY <2>1, <2>5, <3>1 DEF EntryIs
    <3>5. \A i \in 1..Len(h) : h[i].n >= s.n /\ (h[i].n = s.n => h[i].snap = s.snap)
      <4> TAKE i \in 1..Len(h)
      <4>1. CASE i = 1
        BY <3>3, <3>4, <4>1
      <4>2. CASE i # 1
        <5>1. 1 < i
          BY <3>1, <4>2
        <5>2. h[1].n < h[i].n /\ h[i].n \in Nat
          BY <2>5, <3>4, <5>1 DEF EntryIs
        <5> QED BY <3>3, <3>4, <5>2
      <4> QED BY <4>1, <4>2
    <3>6. s.n \in 0..step_n
      BY <1>2, <3>3, <3>4
    <3>7. ToldOfWindow(p, s)
      BY <3>5, <3>6 DEF ToldOfWindow, h
    <3> QED BY <3>7 DEF p, s
  <2> QED BY <2>2, <2>3
<1>4. PressesAre' /\ \A x : CameBefore(x, 0) => CameBefore(x, 0)'
  BY <1>1, <1>2, InboxSame, SMTT(30)
<1>5. \A pid \in DOMAIN players' : PlayerIs(players[pid])' /\ Apart(players[pid])' /\ AllBefore(players[pid], 0)'
        /\ \A i \in 1..Len(players'[pid].history) : players'[pid].history[i].n <= step_n'
  BY <1>1, <1>2 DEF PlayersAre, PlayerIs, Apart, ActsAt, AllBefore, CameBefore
<1>6. \A pid \in DOMAIN players' \intersect DOMAIN sent' : ToldOfWindow(players[pid], sent[pid])'
  BY <1>1, <1>3 DEF ToldOfWindow
<1>7. PlayersAre'
  BY <1>1, <1>5, <1>6, StepUnchanged DEF PlayersAre
<1> QED BY <1>4, <1>7 DEF WindowInv

\* A player who is kept has the window and the acts they had.
LEMMA KeepsGood ==
  ASSUME NEW p, NEW q, PlayerIs(p), Keeps(p, q)
  PROVE  /\ PlayerIs(q) /\ q.history = p.history
         /\ Apart(p) => Apart(q)
         /\ OfInputs(p) => OfInputs(q)
<1>1. PlayerIs(q) /\ SameActs(p, q) /\ q.history = p.history
  BY OtherKeys DEF Keeps
<1>2. \A i \in 0..Len(p.history) : ActsAt(q, i) = ActsAt(p, i)
  BY <1>1 DEF SameActs
<1>3. Apart(p) => Apart(q)
  BY <1>1, <1>2 DEF Apart
<1>4. OfInputs(p) => OfInputs(q)
  BY <1>1, <1>2 DEF OfInputs
<1> QED BY <1>1, <1>3, <1>4

\* The volleys at those who have gone go, and nothing else of a player's.
LEMMA DroppedKeeps ==
  ASSUME NEW b, NEW q, IsSequence(q), \A pid \in DOMAIN b : PlayerIs(b[pid])
  PROVE  \A pid \in DOMAIN b : Keeps(b[pid], FoldLeft(NoVolleysAt, b, q)[pid])
<1>1. PICK g : DroppedTrace(g, b, q)
  BY DroppedRun
<1> DEFINE K(ps) == DOMAIN ps = DOMAIN b /\ \A pid \in DOMAIN b : Keeps(b[pid], ps[pid])
           H == {k \in 0..Len(q) : K(g[k])}
<1>2. Len(q) \in Nat
  BY SequenceHas
<1>3. g[0] = b /\ \A i \in 1..Len(q) : g[i] = NoVolleysAt(g[i - 1], q[i])
  BY <1>1 DEF DroppedTrace
<1>4. K(b)
  BY KeepsSame
<1>5. ASSUME NEW i \in 1..Len(q), K(g[i - 1]) PROVE K(g[i])
  <2> DEFINE ps == g[i - 1]
             nid == q[i]
  <2>1. g[i] = NoVolleysAt(ps, nid) /\ K(ps)
    BY <1>3, <1>5
  <2> HIDE DEF ps, nid
  <2>2. DOMAIN NoVolleysAt(ps, nid) = DOMAIN ps
    BY DEF NoVolleysAt
  <2>3. ASSUME NEW pid \in DOMAIN b PROVE Keeps(b[pid], NoVolleysAt(ps, nid)[pid])
    <3>1. PlayerIs(b[pid]) /\ Keeps(b[pid], ps[pid]) /\ pid \in DOMAIN ps
      BY <2>1
    <3>2. PlayerIs(ps[pid])
      BY <3>1, KeepsGood
    <3>3. Keeps(ps[pid], NoVolleysAt(ps, nid)[pid])
      BY <3>1, <3>2, NoVolleysKeeps
    <3> QED BY <3>1, <3>3 DEF Keeps
  <2> QED BY <2>1, <2>2, <2>3
<1>6. H \in SUBSET (0..Len(q)) /\ 0 \in H /\ \A i \in 1..Len(q) : i - 1 \in H => i \in H
  <2> HIDE DEF K
  <2> QED BY <1>2, <1>3, <1>4, <1>5
<1> HIDE DEF H
<1>7. H = 0..Len(q)
  BY <1>2, <1>6, AtEachPlace
<1>8. K(g[Len(q)])
  BY <1>2, <1>7 DEF H
<1> QED BY <1>1, <1>8 DEF DroppedTrace

\* A player who has just joined: the strike that began the fight is not of a press.
LEMMA NewPlayerIs ==
  ASSUME NEW pid \in Players, NEW join, inputs \in Nat
  PROVE  LET p == NewPlayer(pid, join)
         IN PlayerIs(p) /\ Apart(p) /\ OfInputs(p) /\ Len(p.history) = 0
<1> DEFINE p == NewPlayer(pid, join)
           acts == IF pid \in opened THEN <<>> ELSE Opening[pid]
<1>1. /\ DOMAIN p = {"join", "dot", "keys", "flee", "history", "acts"}
      /\ p.history = <<>> /\ p.acts = acts
  BY DEF NewPlayer
<1>2. acts = <<>> \/ (acts = <<acts[1]>> /\ acts[1].press = 0)
  BY OwnerAssumption
<1> HIDE DEF p, acts
<1>3. IsSequence(acts) /\ (acts = <<>> => Len(acts) = 0) /\ (acts = <<acts[1]>> => Len(acts) = 1)
  <2>1. CASE acts = <<>>
    BY <2>1, NoneIs
  <2>2. CASE acts = <<acts[1]>>
    <3>1. <<acts[1]>> \in Seq({acts[1]})
      OBVIOUS
    <3>2. IsSequence(acts) /\ Len(acts) = 1
      BY <2>2, <3>1, SequenceOf
    <3> QED BY <2>2, <3>2
  <2> QED BY <1>2, <2>1, <2>2
<1>4. Len(acts) \in Nat /\ DOMAIN acts = 1..Len(acts)
  BY <1>3, SequenceHas
<1>5. \A a, b \in DOMAIN acts : a = b /\ acts[a].press = 0
  <2>1. CASE acts = <<>>
    BY <1>3, <1>4, <2>1
  <2>2. CASE acts = <<acts[1]>> /\ acts[1].press = 0
    <3>1. \A a \in DOMAIN acts : a = 1
      <4>1. DOMAIN acts = 1..1
        BY <1>3, <1>4, <2>2
      <4> QED BY <4>1
    <3> QED BY <2>2, <3>1
  <2> QED BY <1>2, <2>1, <2>2
<1>6. IsSequence(p.history) /\ Len(p.history) = 0
  BY <1>1, NoneIs
<1>7. \A i : i \in 1..0 => FALSE
  OBVIOUS
<1>8. PlayerIs(p)
  BY <1>1, <1>3, <1>6, <1>7 DEF PlayerIs
<1>9. \A i \in 0..Len(p.history) : i = 0 /\ ActsAt(p, i) = acts
  BY <1>1, <1>6 DEF ActsAt
<1>10. Apart(p)
  BY <1>5, <1>9 DEF Apart
<1>11. OfInputs(p)
  <2>1. 0 \in 0..inputs
    OBVIOUS
  <2> QED BY <1>5, <1>9, <2>1 DEF OfInputs
<1> QED BY <1>6, <1>8, <1>10, <1>11 DEF p

\* What a sync makes of players: those who stay keep what they had, those who
\* are new start afresh.
LEMMA SyncedIs ==
  ASSUME RunInv, WindowInv, players' = _sync.players
  PROVE  /\ DOMAIN players' = DOMAIN members
         /\ \A pid \in DOMAIN members : \E p :
              /\ Keeps(p, players'[pid])
              /\ p = IF pid \in DOMAIN players THEN players[pid] ELSE NewPlayer(pid, members[pid] + Lead)
<1>1. PlayersAre /\ inputs \in Nat
  BY DEF WindowInv, PressesAre
<1> DEFINE gone == DOMAIN npcs \ DOMAIN foes
           there == Joined([pid \in DOMAIN members |-> NewPlayer(pid, members[pid] + Lead)], players)
           order == SetToSeq(gone)
<1>2. players' = FoldLeft(NoVolleysAt, there, order)
  BY DEF _sync
<1>3. /\ DOMAIN there = DOMAIN members
      /\ \A pid \in DOMAIN members :
           there[pid] = IF pid \in DOMAIN players THEN players[pid] ELSE NewPlayer(pid, members[pid] + Lead)
  BY DEF Joined
<1>4. IsSequence(order)
  <2>1. gone \in SUBSET Npcs /\ IsFiniteSet(Npcs)
    BY OwnerAssumption DEF RunInv, FoesAre
  <2> HIDE DEF gone
  <2> QED BY <2>1, InOrder, FS_Subset
<1> HIDE DEF gone, there, order
<1>5. \A pid \in DOMAIN there : PlayerIs(there[pid])
  <2> TAKE pid \in DOMAIN there
  <2>1. pid \in Players /\ pid \in DOMAIN members
    BY <1>1, <1>3 DEF PlayersAre
  <2>2. CASE pid \in DOMAIN players
    BY <1>1, <1>3, <2>1, <2>2 DEF PlayersAre
  <2>3. CASE pid \notin DOMAIN players
    <3> DEFINE p == NewPlayer(pid, members[pid] + Lead)
    <3>1. there[pid] = p
      BY <1>3, <2>1, <2>3
    <3>2. PlayerIs(p)
      BY <1>1, <2>1, NewPlayerIs
    <3> HIDE DEF p
    <3> QED BY <3>1, <3>2
  <2> QED BY <2>2, <2>3
<1>6. DOMAIN players' = DOMAIN there /\ \A pid \in DOMAIN there : Keeps(there[pid], players'[pid])
  BY <1>2, <1>4, <1>5, DroppedIs, DroppedKeeps
<1> QED BY <1>3, <1>6

\* A sync: players go and come.
LEMMA SyncsWindow ==
  ASSUME RunInv, WindowInv, _loopSyncs
  PROVE  WindowInv'
<1>1. CASE UNCHANGED <<members, inbox, inputs, sent, players, step_n>>
  BY <1>1, StepUnchanged, KeepsSame, WindowKept
<1>2. CASE phase \in {"start", "sync"} /\ Synced
  <2>1. /\ players' = _sync.players
        /\ sent' = [pid \in DOMAIN sent \intersect DOMAIN members \intersect DOMAIN players |-> sent[pid]]
        /\ UNCHANGED <<members, inbox, inputs, step_n>>
    BY <1>2 DEF Synced, world, clients
  <2>2. InboxIs /\ PressesAre /\ ClocksAre /\ PlayersAre /\ step_n \in Nat /\ inputs \in Nat
    BY DEF RunInv, WindowInv, ClocksAre, PressesAre
  <2>3. inbox' = <<>>
    BY <1>2, <2>1, <2>2 DEF InboxIs, Quiets
  <2>4. ASSUME NEW pid \in DOMAIN players'
        PROVE  /\ PlayerIs(players'[pid]) /\ Apart(players'[pid]) /\ OfInputs(players'[pid])
               /\ \A i \in 1..Len(players'[pid].history) : players'[pid].history[i].n <= step_n'
               /\ pid \in DOMAIN sent' =>
                    /\ sent'[pid].n \in 0..step_n'
                    /\ \A i \in 1..Len(players'[pid].history) :
                         /\ players'[pid].history[i].n >= sent'[pid].n
                         /\ players'[pid].history[i].n = sent'[pid].n => players'[pid].history[i].snap = sent'[pid].snap
    <3>1. pid \in DOMAIN members /\ pid \in Players
      BY <2>1, <2>2, SyncedIs DEF PlayersAre
    <3> DEFINE fresh == NewPlayer(pid, members[pid] + Lead)
    <3>2. PICK p : /\ Keeps(p, players'[pid])
                   /\ p = IF pid \in DOMAIN players THEN players[pid] ELSE fresh
      BY <2>1, <3>1, SyncedIs
    <3>3. PlayerIs(p) /\ Apart(p) /\ OfInputs(p) /\ \A i \in 1..Len(p.history) : p.history[i].n <= step_n
      <4>1. CASE pid \in DOMAIN players
        BY <2>2, <3>2, <4>1, BeforeOfInputs DEF PlayersAre
      <4>2. CASE pid \notin DOMAIN players
        <5>1. PlayerIs(fresh) /\ Apart(fresh) /\ OfInputs(fresh) /\ Len(fresh.history) = 0
          BY <2>2, <3>1, NewPlayerIs
        <5> HIDE DEF fresh
        <5>2. \A i : i \in 1..0 => FALSE
          OBVIOUS
        <5> QED BY <3>2, <4>2, <5>1, <5>2
      <4> QED BY <4>1, <4>2
    <3>4. pid \in DOMAIN sent' => ToldOfWindow(p, sent[pid]) /\ sent'[pid] = sent[pid]
      BY <2>1, <2>2, <3>2 DEF PlayersAre
    <3> DEFINE q == players'[pid]
    <3>5. q = players'[pid] /\ Keeps(p, q)
      BY <3>2
    <3> HIDE DEF q
    <3>6. PlayerIs(q) /\ Apart(q) /\ OfInputs(q) /\ q.history = p.history
      BY <3>3, <3>5, KeepsGood
    <3>7. pid \in DOMAIN sent' =>
                    /\ sent'[pid].n \in 0..step_n'
                    /\ \A i \in 1..Len(q.history) :
                         /\ q.history[i].n >= sent'[pid].n
                         /\ q.history[i].n = sent'[pid].n => q.history[i].snap = sent'[pid].snap
      BY <2>1, <3>4, <3>6 DEF ToldOfWindow
    <3> QED BY <2>1, <3>3, <3>5, <3>6, <3>7
  <2>5. PlayersAre'
    BY <2>1, <2>3, <2>4, StepUnchanged, PlayersAnew
  <2>6. PressesAre'
    BY <2>1, <2>2, InboxSame
  <2> QED BY <2>5, <2>6 DEF WindowInv
<1> QED BY <1>1, <1>2 DEF _loopSyncs, world, history, clients

\* It holds as the fight begins.
LEMMA WindowInit == Init => WindowInv
<1> SUFFICES ASSUME Init PROVE WindowInv
  OBVIOUS
<1>1. PressesAre
  <2>1. Len(inbox) = 0 /\ \A i : i \in 1..0 => FALSE
    BY DEF Init
  <2> QED BY <2>1 DEF Init, PressesAre
<1>2. PlayersAre
  <2>1. DOMAIN players = {} /\ DOMAIN members \subseteq Players
    BY OwnerAssumption DEF Init
  <2> QED BY <2>1 DEF PlayersAre
<1> QED BY <1>1, <1>2 DEF WindowInv

\* Every step of the fight keeps it.
LEMMA WindowNext ==
  ASSUME RunInv, WindowInv, [Next]_vars
  PROVE  WindowInv'
<1>1. CASE Tick \/ Begin \/ Caught
  BY <1>1, TurnsWindow
<1>2. CASE _take_inbox
  BY <1>2, TakesWindow
<1>3. CASE _loopSyncs
  BY <1>3, SyncsWindow
<1>4. CASE RunStep
  BY <1>4, RunStepWindow
<1>5. CASE Publish
  BY <1>5, PublishWindow
<1>6. CASE Strikes \/ Blows \/ Poise \/ Flees \/ Tells
  BY <1>6, CallsWindow
<1>7. CASE \/ \E pid \in Players : Arrives(pid) \/ Departs(pid)
           \/ \E nid \in Npcs : Appears(nid) \/ Vanishes(nid)
  BY <1>7, ChangesWindow
<1>8. CASE \E pid, i : \E at \in Nat : Receive(pid, i, at)
  BY <1>8, ReceiveWindow
<1>9. CASE UNCHANGED vars
  <2>1. UNCHANGED <<members, inbox, inputs, sent, players, step_n>>
    BY <1>9 DEF vars
  <2> QED BY <2>1, StepUnchanged, KeepsSame, WindowKept
<1>10. ASSUME NEW pid \in Players, NEW at \in 1..step_n + 1, NEW i \in Inputs[pid], Press(pid, i, at)
       PROVE  \E x, j : \E n \in Nat : Receive(x, j, n)
  <2>1. at \in Nat
    BY StepUnchanged
  <2> QED BY <1>10, <2>1 DEF Press
<1>11. ASSUME NEW pid \in Players, (\E slot \in Slots : use(pid, slot)) \/ (\E act \in Typed[pid] : brace(pid, act))
       PROVE  \E x, j : \E n \in Nat : Receive(x, j, n)
  <2>1. PICK act, slot : Says(pid, act, slot)
    BY <1>11 DEF use, brace
  <2> QED BY <2>1 DEF Says
<1> QED BY <1>1, <1>2, <1>3, <1>4, <1>5, <1>6, <1>7, <1>8, <1>9, <1>10, <1>11 DEF Next

\* The invariant of a player's window.
THEOREM WindowHolds == Spec => []WindowInv
<1>1. RunInv /\ WindowInv /\ [Next]_vars => WindowInv'
  BY WindowNext
<1> QED BY <1>1, WindowInit, RunHolds, PTL DEF Spec

\* An act is done once: it waits for the next step, or is in one step of the
\* window, and never both, whatever is replayed (_input, _rewind).
THEOREM ActsAreOnce == Spec => []ActsOnce
<1>1. WindowInv => ActsOnce
  BY DEF WindowInv, PlayersAre, Apart, ActsOnce
<1> QED BY <1>1, WindowHolds, PTL

\* What a client was told a dot was at the start of its window stays what
\* the owner would replay from: a late input changes nothing before it
\* (_rewind, _publish).
THEOREM WindowIsFixed == Spec => []WindowFixed
<1>1. ASSUME WindowInv PROVE WindowFixed
  <2>1. PlayersAre
    BY <1>1 DEF WindowInv
  <2>2. ASSUME NEW pid \in DOMAIN players \intersect DOMAIN sent, NEW i \in DOMAIN players[pid].history,
               players[pid].history[i].n = sent[pid].n
        PROVE  players[pid].history[i].snap = sent[pid].snap
    <3>1. IsSequence(players[pid].history) /\ ToldOfWindow(players[pid], sent[pid])
      BY <2>1 DEF PlayersAre, PlayerIs
    <3>2. i \in 1..Len(players[pid].history)
      BY <3>1, SequenceHas
    <3> QED BY <2>2, <3>1, <3>2 DEF ToldOfWindow
  <2> QED BY <2>2 DEF WindowFixed
<1> QED BY <1>1, WindowHolds, PTL

-----------------------------------------------------------------------------
(* Owner: bosses that reel. *)

\* While a boss reels at step n none of its attacks is due, unless its reel
\* was counted while steps were skipped.
WaitsOut(npc, n) == npc.reel > 0 => \A k \in DOMAIN npc.attacks : npc.attacks[k].land >= n + npc.reel
ReelInv == stalled \in BOOLEAN /\ (stalled \/ \A nid \in DOMAIN npcs : WaitsOut(npcs[nid], step_n))

\* A boss whose meter fills waits with what was due.
LEMMA AddWaits ==
  ASSUME ClocksAre, NEW nid, NEW npc, NpcIs(nid, npc), WaitsOut(npc, step_n), NEW amount
  PROVE  WaitsOut(add(npc, amount), step_n)
<1>1. npc.reel \in Nat /\ \A k \in DOMAIN npc.attacks : npc.attacks[k].land \in Nat
  BY DEF NpcIs, AttackIs
<1>2. CASE npc.reel > 0
  BY <1>2 DEF add
<1>3. CASE npc.reel = 0 /\ npc.meter + amount >= FullMeter
  <2> DEFINE boss == [npc EXCEPT !.meter = 0, !.reel = ReelSteps]
             end == step_n + boss.reel
             other == _boss_reels(boss)
  <2>1. DOMAIN boss = {"join", "meter", "reel", "attacks"} /\ boss.attacks = npc.attacks /\ boss.reel = ReelSteps
    BY DEF NpcIs
  <2>2. other = [boss EXCEPT !.attacks = [k \in DOMAIN boss.attacks |->
                   IF boss.attacks[k].land < end THEN [land |-> end, told |-> FALSE, target |-> ""] ELSE boss.attacks[k]]]
    BY DEF _boss_reels
  <2>3. add(npc, amount) = other
    BY <1>3 DEF add
  <2>4. end \in Nat
    BY <2>1, OwnerAssumption, SMTT(30) DEF ClocksAre
  <2> HIDE DEF other, boss
  <2>5. /\ other.reel = boss.reel /\ DOMAIN other.attacks = DOMAIN boss.attacks
        /\ \A k \in DOMAIN boss.attacks : other.attacks[k] =
             IF boss.attacks[k].land < end THEN [land |-> end, told |-> FALSE, target |-> ""] ELSE boss.attacks[k]
    BY <2>1, <2>2
  <2>6. boss.attacks = npc.attacks /\ end = step_n + other.reel
    BY <2>1, <2>5
  <2> HIDE DEF end
  <2>7. ASSUME NEW k \in DOMAIN other.attacks PROVE other.attacks[k].land >= end
    <3>1. npc.attacks[k].land \in Nat
      BY <1>1, <2>5, <2>6
    <3>2. other.attacks[k] = IF npc.attacks[k].land < end THEN [land |-> end, told |-> FALSE, target |-> ""] ELSE npc.attacks[k]
      BY <2>5, <2>6
    <3>3. CASE npc.attacks[k].land < end
      <4>1. other.attacks[k] = [land |-> end, told |-> FALSE, target |-> ""]
        BY <3>2, <3>3
      <4> DEFINE b == other.attacks[k]
      <4>2. b = [land |-> end, told |-> FALSE, target |-> ""]
        BY <4>1
      <4> HIDE DEF b
      <4>3. b.land = end
        BY <4>2
      <4> QED BY <2>4, <4>3 DEF b
    <3>4. CASE ~(npc.attacks[k].land < end)
      <4>1. other.attacks[k] = npc.attacks[k]
        BY <3>2, <3>4
      <4> QED BY <2>4, <3>1, <3>4, <4>1
    <3> QED BY <3>3, <3>4
  <2> QED BY <2>3, <2>6, <2>7 DEF WaitsOut
<1>4. CASE npc.reel = 0 /\ ~(npc.meter + amount >= FullMeter)
  <2>1. add(npc, amount) = [npc EXCEPT !.meter = @ + amount]
    BY <1>4 DEF add
  <2>2. add(npc, amount).reel = 0
    BY <1>4, <2>1 DEF NpcIs
  <2> QED BY <2>2 DEF WaitsOut
<1> QED BY <1>1, <1>2, <1>3, <1>4

\* A stun only makes it wait longer (_call).
LEMMA StunWaits ==
  ASSUME ClocksAre, NEW nid, NEW npc, NpcIs(nid, npc), WaitsOut(npc, step_n), NEW slot
  PROVE  WaitsOut(stun(npc, slot), step_n)
<1> DEFINE other == [npc EXCEPT !.attacks = [k \in DOMAIN @ |-> [npc.attacks[k] EXCEPT !.land = npc.attacks[k].land + StunSteps]]]
<1>1. StunSteps \in Nat /\ step_n \in Nat /\ npc.reel \in Nat
  BY OwnerAssumption DEF ClocksAre, NpcIs
<1>2. \A k \in DOMAIN npc.attacks : DOMAIN npc.attacks[k] = {"land", "told", "target"} /\ npc.attacks[k].land \in Nat
  BY DEF NpcIs, AttackIs
<1>3. /\ other.reel = npc.reel /\ DOMAIN other.attacks = DOMAIN npc.attacks
      /\ \A k \in DOMAIN npc.attacks : other.attacks[k] = [npc.attacks[k] EXCEPT !.land = npc.attacks[k].land + StunSteps]
  BY DEF NpcIs
<1>4. stun(npc, slot) \in {npc, other}
  BY DEF stun
<1> HIDE DEF other
<1>5. ASSUME NEW k \in DOMAIN npc.attacks PROVE other.attacks[k].land >= npc.attacks[k].land /\ other.attacks[k].land \in Nat
  <2> DEFINE a == npc.attacks[k]
             b == other.attacks[k]
  <2>1. b = [a EXCEPT !.land = a.land + StunSteps] /\ DOMAIN a = {"land", "told", "target"} /\ a.land \in Nat
    BY <1>2, <1>3
  <2> HIDE DEF a, b
  <2>2. b.land = a.land + StunSteps
    BY <2>1
  <2>3. b.land >= a.land /\ b.land \in Nat
    BY <1>1, <2>1, <2>2
  <2> QED BY <2>3 DEF a, b
<1>6. WaitsOut(other, step_n)
  BY <1>1, <1>2, <1>3, <1>5 DEF WaitsOut
<1> QED BY <1>4, <1>6

\* NPCs that stay as they were, do not reel, or wait.
LEMMA ReelKept ==
  ASSUME ReelInv, UNCHANGED <<stalled, step_n>>,
         ~stalled => \A nid \in DOMAIN npcs' : \/ nid \in DOMAIN npcs /\ npcs'[nid] = npcs[nid]
                                               \/ WaitsOut(npcs'[nid], step_n)
  PROVE  ReelInv'
<1>1. CASE stalled
  BY <1>1 DEF ReelInv
<1>2. CASE ~stalled
  <2>1. \A nid \in DOMAIN npcs' : WaitsOut(npcs'[nid], step_n)
    BY <1>2 DEF ReelInv
  <2>2. \A nid \in DOMAIN npcs' : WaitsOut(npcs[nid], step_n)'
    BY <2>1 DEF WaitsOut
  <2> QED BY <1>2, <2>2 DEF ReelInv
<1> QED BY <1>1, <1>2

\* The calls to Lua.
LEMMA CallsReel ==
  ASSUME RunInv, ReelInv, Strikes \/ Blows \/ Poise \/ Flees \/ Tells
  PROVE  ReelInv'
<1>1. UNCHANGED <<stalled, step_n>>
  BY DEF Strikes, Blows, Poise, Flees, Tells, Elsewhere
<1> DEFINE e == Head(calls).e
           c == Head(calls).nid
<1>2. \/ npcs' = npcs
      \/ npcs' = Without(npcs, e.target)
      \/ npcs' = [nid \in DOMAIN npcs |->
              IF nid # e.target THEN npcs[nid]
              ELSE IF e.target \in Bosses THEN add(stun(npcs[nid], e.slot), KickPoise[e.slot]) ELSE stun(npcs[nid], e.slot)]
      \/ npcs' = [nid \in DOMAIN npcs |-> IF nid = c THEN add(npcs[nid], PerfectPoise) ELSE npcs[nid]]
  BY DEF Strikes, Blows, Poise, Flees, Tells
<1> HIDE DEF e, c
<1>3. ASSUME NEW nid \in DOMAIN npcs, ~stalled
      PROVE  /\ \A slot : WaitsOut(stun(npcs[nid], slot), step_n)
             /\ \A slot, amount : WaitsOut(add(stun(npcs[nid], slot), amount), step_n)
             /\ \A amount : WaitsOut(add(npcs[nid], amount), step_n)
  <2>1. nid \in Npcs /\ NpcIs(nid, npcs[nid]) /\ WaitsOut(npcs[nid], step_n) /\ ClocksAre /\ NpcsAre
    BY <1>3 DEF RunInv, NpcsAre, FoesAre, ReelInv
  <2>2. \A slot : WaitsOut(stun(npcs[nid], slot), step_n) /\ NpcIs(nid, stun(npcs[nid], slot))
    BY <2>1, StunWaits, StunIs
  <2>3. \A slot, amount : WaitsOut(add(stun(npcs[nid], slot), amount), step_n)
    BY <2>1, <2>2, AddWaits
  <2>4. \A amount : WaitsOut(add(npcs[nid], amount), step_n)
    BY <2>1, AddWaits
  <2> QED BY <2>2, <2>3, <2>4
<1>4. ASSUME NEW nid \in DOMAIN npcs', ~stalled
      PROVE  \/ nid \in DOMAIN npcs /\ npcs'[nid] = npcs[nid]
             \/ WaitsOut(npcs'[nid], step_n)
  <2>1. nid \in DOMAIN npcs
    BY <1>2 DEF Without
  <2>2. \/ npcs'[nid] = npcs[nid]
        \/ npcs'[nid] \in {add(stun(npcs[nid], e.slot), KickPoise[e.slot]), stun(npcs[nid], e.slot), add(npcs[nid], PerfectPoise)}
    BY <1>2, <2>1 DEF Without
  <2> QED BY <1>3, <1>4, <2>1, <2>2
<1> QED BY <1>1, <1>4, ReelKept

\* A sync: NPCs that are new do not reel.
LEMMA SyncsReel ==
  ASSUME RunInv, ReelInv, _loopSyncs
  PROVE  ReelInv'
<1>1. UNCHANGED <<stalled, step_n>>
  BY DEF _loopSyncs, Synced, history
<1>2. \/ npcs' = npcs
      \/ npcs' = _sync.npcs
  BY DEF _loopSyncs, Synced
<1>3. ASSUME NEW nid \in DOMAIN npcs' PROVE (nid \in DOMAIN npcs /\ npcs'[nid] = npcs[nid]) \/ WaitsOut(npcs'[nid], step_n)
  <2>1. CASE npcs' = npcs
    BY <2>1
  <2>2. CASE npcs' = _sync.npcs
    <3>1. /\ DOMAIN npcs' = DOMAIN foes
          /\ npcs'[nid] = IF nid \in DOMAIN npcs THEN npcs[nid] ELSE NewNpc(nid, foes[nid])
      BY <2>2 DEF _sync, Joined
    <3>2. NewNpc(nid, foes[nid]).reel = 0
      BY DEF NewNpc
    <3>3. WaitsOut(NewNpc(nid, foes[nid]), step_n)
      BY <3>2 DEF WaitsOut
    <3> QED BY <3>1, <3>3
  <2> QED BY <1>2, <2>1, <2>2
<1> QED BY <1>1, <1>3, ReelKept

\* Steps that are skipped pass for the attacks, and not for a reel.
LEMMA CaughtReel ==
  ASSUME RunInv, ReelInv, Caught
  PROVE  ReelInv'
<1>1. CASE UNCHANGED <<step_n, npcs, stalled>>
  BY <1>1, ReelKept
<1>2. CASE _skip_to(target)
  <2>1. /\ stalled' = (stalled \/ \E nid \in DOMAIN npcs : npcs[nid].reel > 0)
        /\ npcs' = [nid \in DOMAIN npcs |->
             [npcs[nid] EXCEPT !.attacks = [k \in DOMAIN @ |-> Skipped(@[k], Attacks[nid][k].period, target)]]]
    BY <1>2 DEF _skip_to
  <2>2. stalled' \in BOOLEAN
    BY <2>1 DEF ReelInv
  <2>3. ASSUME ~stalled', NEW nid \in DOMAIN npcs' PROVE npcs'[nid].reel = 0
    <3>1. nid \in DOMAIN npcs /\ ~(npcs[nid].reel > 0)
      BY <2>1, <2>3
    <3>2. NpcIs(nid, npcs[nid])
      BY <3>1 DEF RunInv, NpcsAre
    <3> DEFINE npc == npcs[nid]
               new == [k \in DOMAIN npc.attacks |-> Skipped(npc.attacks[k], Attacks[nid][k].period, target)]
    <3>3. npcs'[nid] = [npc EXCEPT !.attacks = new]
      BY <2>1, <3>1
    <3> HIDE DEF npc, new
    <3>4. NpcIs(nid, npc) /\ ~(npc.reel > 0)
      BY <3>1, <3>2 DEF npc
    <3>5. npc.reel = 0
      BY <3>4 DEF NpcIs
    <3> QED BY <3>3, <3>4, <3>5 DEF NpcIs
  <2>4. ~stalled' => \A nid \in DOMAIN npcs' : WaitsOut(npcs[nid], step_n)'
    BY <2>3 DEF WaitsOut
  <2> QED BY <2>2, <2>4 DEF ReelInv
<1> QED BY <1>1, <1>2 DEF Caught

\* A step: a reel is a step shorter, and none of a boss's attacks is due in it
\* but in its last.
LEMMA RunStepReel ==
  ASSUME RunInv, ReelInv, RunStep
  PROVE  /\ ReelInv'
         /\ \A x \in DOMAIN landed : landed'[x] # landed[x] /\ npcs[x[1]].reel > 1 => stalled
<1>1. /\ step_n' = step_n + 1
      /\ stalled' = (stalled /\ \E nid \in DOMAIN npcs : npcs[nid].reel > 1)
      /\ npcs' = [nid \in DOMAIN npcs |->
                   [boss_step(npcs[nid]) EXCEPT !.attacks = [k \in DOMAIN @ |-> Ticked(nid, k, step_n + 1)]]]
      /\ landed' = [x \in DOMAIN landed |-> IF x \in Landing(step_n + 1) THEN step_n + 1 ELSE landed[x]]
  BY DEF RunStep, _run_step
<1>2. ClocksAre /\ NpcsAre /\ step_n \in Nat /\ DOMAIN npcs \subseteq Npcs
  BY DEF RunInv, FoesAre, ClocksAre
<1>3. ASSUME NEW nid \in DOMAIN npcs
      PROVE  /\ npcs[nid].reel \in Nat
             /\ npcs'[nid].reel = IF npcs[nid].reel > 0 THEN npcs[nid].reel - 1 ELSE 0
             /\ DOMAIN npcs'[nid].attacks = DOMAIN Attacks[nid] /\ DOMAIN npcs[nid].attacks = DOMAIN Attacks[nid]
             /\ \A k \in DOMAIN Attacks[nid] : npcs'[nid].attacks[k] = Ticked(nid, k, step_n + 1)
  <2> DEFINE npc == npcs[nid]
             b == boss_step(npc)
             new == [k \in DOMAIN b.attacks |-> Ticked(nid, k, step_n + 1)]
  <2>1. NpcIs(nid, npc)
    BY <1>2 DEF NpcsAre
  <2>2. npcs'[nid] = [b EXCEPT !.attacks = new]
    BY <1>1
  <2> HIDE DEF npc
  <2>3. DOMAIN b = {"join", "meter", "reel", "attacks"} /\ b.attacks = npc.attacks
    BY <2>1, BossStepIs DEF NpcIs
  <2>4. npc.reel \in Nat /\ b.reel = IF npc.reel > 0 THEN npc.reel - 1 ELSE 0
    BY <2>1 DEF boss_step, NpcIs
  <2>5. DOMAIN npc.attacks = DOMAIN Attacks[nid]
    BY <2>1 DEF NpcIs
  <2> HIDE DEF b
  <2>6. npcs'[nid].reel = b.reel /\ DOMAIN npcs'[nid].attacks = DOMAIN npc.attacks
        /\ \A k \in DOMAIN npc.attacks : npcs'[nid].attacks[k] = Ticked(nid, k, step_n + 1)
    BY <2>2, <2>3
  <2> QED BY <2>4, <2>5, <2>6 DEF npc
<1>4. ASSUME ~stalled', NEW nid \in DOMAIN npcs' PROVE WaitsOut(npcs'[nid], step_n + 1)
  <2>1. nid \in DOMAIN npcs /\ nid \in Npcs
    BY <1>1, <1>2
  <2>2. CASE ~(npcs[nid].reel > 1)
    <3>1. npcs'[nid].reel = 0
      BY <1>3, <2>1, <2>2
    <3> QED BY <3>1 DEF WaitsOut
  <2>3. CASE npcs[nid].reel > 1
    <3>1. ~stalled
      BY <1>1, <1>4, <2>1, <2>3
    <3>2. WaitsOut(npcs[nid], step_n)
      BY <2>1, <3>1 DEF ReelInv
    <3>3. ASSUME NEW k \in DOMAIN Attacks[nid]
          PROVE  npcs'[nid].attacks[k].land >= step_n + 1 + npcs'[nid].reel
      <4> DEFINE r == npcs[nid].reel
                 to == npcs[nid].attacks[k].land
                 q == npcs'[nid].reel
      <4>1. r \in Nat /\ r > 1 /\ to >= step_n + r /\ q = r - 1
        BY <1>3, <2>1, <2>3, <3>2 DEF WaitsOut
      <4>2. /\ to \in Nat
            /\ Ticked(nid, k, step_n + 1).land = IF to = step_n + 1 THEN step_n + 1 + Attacks[nid][k].period ELSE to
        BY <1>2, <2>1, TickedIs
      <4>3. npcs'[nid].attacks[k].land = Ticked(nid, k, step_n + 1).land
        BY <1>3, <2>1
      <4> HIDE DEF r, to, q
      <4>4. npcs'[nid].attacks[k].land = to
        BY <1>2, <4>1, <4>2, <4>3
      <4>5. to >= step_n + 1 + q
        BY <1>2, <4>1, <4>2
      <4> QED BY <4>4, <4>5 DEF q
    <3> QED BY <1>3, <2>1, <3>3 DEF WaitsOut
  <2> QED BY <2>2, <2>3
<1>5. ReelInv'
  <2>1. stalled' \in BOOLEAN
    BY <1>1 DEF ReelInv
  <2>2. ~stalled' => \A nid \in DOMAIN npcs' : WaitsOut(npcs[nid], step_n)'
    BY <1>1, <1>4 DEF WaitsOut
  <2> QED BY <2>1, <2>2 DEF ReelInv
<1>6. ASSUME NEW x \in DOMAIN landed, landed'[x] # landed[x], npcs[x[1]].reel > 1, ~stalled PROVE FALSE
  <2>1. x \in Landing(step_n + 1)
    BY <1>1, <1>6
  <2>2. x[1] \in DOMAIN npcs /\ x[2] \in DOMAIN Attacks[x[1]] /\ npcs[x[1]].attacks[x[2]].land = step_n + 1
    BY <1>2, <2>1, LandingIs
  <2>3. WaitsOut(npcs[x[1]], step_n)
    BY <1>6, <2>2 DEF ReelInv
  <2>4. npcs[x[1]].reel \in Nat /\ npcs[x[1]].attacks[x[2]].land >= step_n + npcs[x[1]].reel
    BY <1>3, <1>6, <2>2, <2>3 DEF WaitsOut
  <2> QED BY <1>2, <1>6, <2>2, <2>4
<1> QED BY <1>5, <1>6

\* Every step of the fight keeps it.
LEMMA ReelNext ==
  ASSUME RunInv, ReelInv, [Next]_vars
  PROVE  /\ ReelInv'
         /\ \A x \in DOMAIN landed : landed'[x] # landed[x] /\ npcs[x[1]].reel > 1 => stalled
<1>1. CASE RunStep
  BY <1>1, RunStepReel
<1>2. CASE ~RunStep
  <2>1. landed' = landed
    BY <1>2 DEF Next, vars, Tick, Begin, Publish, Caught, _take_inbox, _loopSyncs, Synced, Strikes, Blows, Poise, Flees, Tells,
         Elsewhere, Arrives, Departs, Appears, Vanishes, Moves, Press, use, brace, Says, Receive, history
  <2>2. CASE ~(Caught \/ _loopSyncs \/ Strikes \/ Blows \/ Poise \/ Flees \/ Tells)
    <3>1. UNCHANGED <<npcs, step_n, stalled>>
      BY <1>2, <2>2 DEF Next, vars, Tick, Begin, Publish, _take_inbox, Arrives, Departs, Appears, Vanishes, Moves,
           Press, use, brace, Says, Receive, history
    <3>2. ReelInv'
      BY <3>1, ReelKept
    <3> QED BY <2>1, <3>2
  <2>3. Caught \/ _loopSyncs \/ Strikes \/ Blows \/ Poise \/ Flees \/ Tells => ReelInv'
    BY CaughtReel, SyncsReel, CallsReel
  <2> QED BY <2>1, <2>2, <2>3, SMTT(30)
<1> QED BY <1>1, <1>2

\* No attack of a boss lands while it reels, but where steps were skipped:
\* those pass for its attacks and not for its reeling (_boss_reels).
THEOREM ReelingBossesWait == Spec => ReelingWaits
<1>1. Init => ReelInv
  <2> SUFFICES ASSUME Init PROVE ReelInv
    OBVIOUS
  <2>1. DOMAIN npcs = {} /\ stalled = FALSE
    BY DEF Init
  <2> QED BY <2>1 DEF ReelInv
<1>2. RunInv /\ ReelInv /\ [Next]_vars => ReelInv'
  BY ReelNext
<1>3. RunInv /\ ReelInv /\ [Next]_vars =>
        [\A x \in DOMAIN landed : landed'[x] # landed[x] /\ npcs[x[1]].reel > 1 => stalled]_vars
  BY ReelNext
<1> QED BY <1>1, <1>2, <1>3, RunHolds, PTL DEF Spec, ReelingWaits

-----------------------------------------------------------------------------
(* Owner: its bounds. *)

\* The clock and a window have their lengths, and nobody is a player but players.
BoundsInv ==
  /\ clock <= MaxStep /\ ran \in 0..MAX_CATCH_UP
  /\ DOMAIN players \subseteq Players /\ DOMAIN sent \subseteq Players
  /\ \A pid \in DOMAIN players : Len(players[pid].history) <= REWIND_STEPS

\* Players whose windows are as long as they were.
LEMMA BoundsKept ==
  ASSUME BoundsInv, UNCHANGED <<clock, ran>>, DOMAIN sent' \subseteq Players, DOMAIN players' \subseteq DOMAIN players,
         \A pid \in DOMAIN players' : Len(players'[pid].history) = Len(players[pid].history)
  PROVE  BoundsInv'
<1>1. ASSUME NEW pid \in DOMAIN players' PROVE Len(players'[pid].history) <= REWIND_STEPS
  <2>1. Len(players[pid].history) <= REWIND_STEPS /\ Len(players'[pid].history) = Len(players[pid].history)
    BY DEF BoundsInv
  <2> QED BY <2>1
<1> QED BY <1>1 DEF BoundsInv

\* The inbox is read.
LEMMA TakesBounds ==
  ASSUME RunInv, WindowInv, BoundsInv, _take_inbox
  PROVE  BoundsInv'
<1> DEFINE s == FoldLeft(Taken, InboxState, inbox)
<1>1. players' = s.players /\ UNCHANGED <<clock, ran, sent>>
  BY DEF _take_inbox, InboxState, tick, history
<1>2. DOMAIN s.players = DOMAIN players /\ \A pid \in DOMAIN players : PlayerAt(s.players[pid], players[pid], Len(inbox))
  BY InboxReadPlayers DEF RunInv, WindowInv
<1> HIDE DEF s
<1>3. DOMAIN players' = DOMAIN players /\ \A pid \in DOMAIN players' : Len(players'[pid].history) = Len(players[pid].history)
  BY <1>1, <1>2 DEF PlayerAt, SameWindow
<1> QED BY <1>1, <1>3, BoundsKept DEF BoundsInv

\* A sync.
LEMMA SyncsBounds ==
  ASSUME RunInv, WindowInv, BoundsInv, _loopSyncs
  PROVE  BoundsInv'
<1>1. CASE UNCHANGED <<clock, ran, sent, players>>
  BY <1>1, BoundsKept DEF BoundsInv
<1>2. CASE Synced
  <2>1. players' = _sync.players /\ DOMAIN sent' \subseteq DOMAIN sent /\ UNCHANGED <<clock, ran>>
    BY <1>2 DEF Synced, tick
  <2>2. DOMAIN players' = DOMAIN members /\ DOMAIN members \subseteq Players
    BY <2>1, SyncedIs, StepUnchanged
  <2>3. ASSUME NEW pid \in DOMAIN players' PROVE Len(players'[pid].history) <= REWIND_STEPS
    <3>1. PICK p : /\ Keeps(p, players'[pid])
                   /\ p = IF pid \in DOMAIN players THEN players[pid] ELSE NewPlayer(pid, members[pid] + Lead)
      BY <2>1, <2>2, <2>3, SyncedIs
    <3>2. CASE pid \in DOMAIN players
      BY <3>1, <3>2 DEF Keeps, BoundsInv
    <3>3. CASE pid \notin DOMAIN players
      <4>1. p.history = <<>>
        BY <3>1, <3>3 DEF NewPlayer
      <4>2. Len(players'[pid].history) = 0 /\ REWIND_STEPS \in Nat
        BY <3>1, <4>1, OwnerAssumption DEF Keeps
      <4> QED BY <4>2
    <3> QED BY <3>2, <3>3
  <2> QED BY <2>1, <2>2, <2>3 DEF BoundsInv
<1> QED BY <1>1, <1>2 DEF _loopSyncs, tick, history

\* A step is run: a window that is full begins a step later.
LEMMA RunStepBounds ==
  ASSUME RunInv, WindowInv, BoundsInv, RunStep
  PROVE  BoundsInv'
<1>1. /\ ran < MAX_CATCH_UP /\ ran' = ran + 1 /\ UNCHANGED <<clock, sent>>
      /\ players' = [pid \in DOMAIN players |-> PlayerStep(pid, players[pid], step_n + 1, LandingOn(pid, step_n + 1)).p]
  BY DEF RunStep, _run_step, Behind
<1>2. step_n \in Nat /\ \A pid \in DOMAIN players : PlayerIs(players[pid])
  BY StepUnchanged
<1>3. ASSUME NEW pid \in DOMAIN players PROVE Len(players'[pid].history) <= REWIND_STEPS
  <2> DEFINE p == players[pid]
             mine == LandingOn(pid, step_n + 1)
             q == PlayerStep(pid, p, step_n + 1, mine).p
  <2>1. players'[pid] = q /\ PlayerIs(p) /\ Len(p.history) <= REWIND_STEPS
    BY <1>1, <1>2 DEF BoundsInv
  <2> HIDE DEF p, mine
  <2>2. q = p \/ \E entry, c : StepAdded(p, q, entry, c)
    BY <1>2, <2>1, PlayerStepIs
  <2> HIDE DEF q
  <2>3. Len(q.history) <= REWIND_STEPS
    BY <2>1, <2>2 DEF StepAdded
  <2> QED BY <2>1, <2>3
<1>4. ran' \in 0..MAX_CATCH_UP
  <2>1. MAX_CATCH_UP \in Nat /\ ran \in 0..MAX_CATCH_UP
    BY OwnerAssumption DEF BoundsInv
  <2> QED BY <1>1, <2>1
<1> QED BY <1>1, <1>3, <1>4 DEF BoundsInv

\* Every step of the fight keeps it.
LEMMA BoundsNext ==
  ASSUME RunInv, WindowInv, BoundsInv, [Next]_vars
  PROVE  BoundsInv'
<1>1. CASE _take_inbox
  BY <1>1, TakesBounds
<1>2. CASE _loopSyncs
  BY <1>2, SyncsBounds
<1>3. CASE RunStep
  BY <1>3, RunStepBounds
<1>4. CASE Strikes \/ Blows \/ Poise \/ Flees \/ Tells
  <2>1. UNCHANGED <<clock, ran, sent>>
    BY <1>4 DEF Strikes, Blows, Poise, Flees, Tells, Elsewhere, tick
  <2>2. DOMAIN players' \subseteq DOMAIN players /\ \A x \in DOMAIN players' : Keeps(players[x], players'[x])
    BY <1>4, CallsKeep
  <2>3. \A pid \in DOMAIN players' : Len(players'[pid].history) = Len(players[pid].history)
    BY <2>2 DEF Keeps
  <2> QED BY <2>1, <2>2, <2>3, BoundsKept DEF BoundsInv
<1>5. CASE Tick
  <2>1. clock < MaxStep /\ clock' = clock + 1 /\ UNCHANGED <<ran, sent, players>>
    BY <1>5 DEF Tick, tick, history
  <2>2. clock \in Nat /\ MaxStep \in Nat
    BY OwnerAssumption DEF RunInv, ClocksAre
  <2>3. clock' <= MaxStep
    BY <2>1, <2>2
  <2> QED BY <2>1, <2>3 DEF BoundsInv
<1>6. CASE Begin
  <2>1. ran' = 0 /\ UNCHANGED <<clock, sent, players>>
    BY <1>6 DEF Begin, history
  <2>2. 0 \in 0..MAX_CATCH_UP
    BY OwnerAssumption
  <2> QED BY <2>1, <2>2 DEF BoundsInv
<1>7. CASE Publish
  <2>1. DOMAIN sent' = DOMAIN players /\ UNCHANGED <<clock, ran, players>>
    BY <1>7 DEF Publish, tick
  <2> QED BY <2>1 DEF BoundsInv
<1>8. CASE UNCHANGED <<clock, ran, sent, players>>
  BY <1>8 DEF BoundsInv
<1>9. ASSUME \/ Caught \/ UNCHANGED vars
             \/ \E pid \in Players : Arrives(pid) \/ Departs(pid)
             \/ \E nid \in Npcs : Appears(nid) \/ Vanishes(nid)
             \/ \E pid \in Players, at \in 1..step_n + 1 : \E i \in Inputs[pid] : Press(pid, i, at)
             \/ \E pid \in Players : (\E slot \in Slots : use(pid, slot)) \/ (\E act \in Typed[pid] : brace(pid, act))
      PROVE  UNCHANGED <<clock, ran, sent, players>>
  BY <1>9 DEF vars, Caught, Arrives, Departs, Appears, Vanishes, Moves, Press, use, brace, Says, Receive, tick, history
<1> QED BY <1>1, <1>2, <1>3, <1>4, <1>5, <1>6, <1>7, <1>8, <1>9 DEF Next

\* Who is in the fight are players and NPCs, no step is past the clock's bound,
\* and no window is longer than the steps that may be replayed.
THEOREM OwnerTyped == Spec => []TypeOK
<1>1. Init => BoundsInv
  <2> SUFFICES ASSUME Init PROVE BoundsInv
    OBVIOUS
  <2>1. clock = 0 /\ ran = 0 /\ DOMAIN players = {} /\ DOMAIN sent = {}
    BY DEF Init
  <2>2. 0 <= MaxStep /\ 0 \in 0..MAX_CATCH_UP
    BY OwnerAssumption
  <2> QED BY <2>1, <2>2 DEF BoundsInv
<1>2. RunInv /\ WindowInv /\ BoundsInv /\ [Next]_vars => BoundsInv'
  BY BoundsNext
<1>3. RunInv /\ WindowInv /\ BoundsInv => TypeOK
  <2> SUFFICES ASSUME RunInv, WindowInv, BoundsInv PROVE TypeOK
    OBVIOUS
  <2>1. DOMAIN members \subseteq Players /\ DOMAIN foes \subseteq Npcs /\ DOMAIN npcs \subseteq Npcs
    BY DEF RunInv, WindowInv, FoesAre, PlayersAre
  <2>2. phase \in LoopPhases /\ clock \in Nat /\ step_n \in 0..clock /\ target \in 0..clock /\ clock <= MaxStep /\ MaxStep \in Nat
    BY OwnerAssumption DEF RunInv, InboxIs, ClocksAre, BoundsInv
  <2>3. step_n \in 0..MaxStep /\ target \in 0..MaxStep
    BY <2>2
  <2> QED BY <2>1, <2>2, <2>3 DEF TypeOK, BoundsInv, LoopPhases
<1> QED BY <1>1, <1>2, <1>3, RunHolds, WindowHolds, PTL DEF Spec
=============================================================================
