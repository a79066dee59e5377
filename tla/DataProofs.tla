------------------------------ MODULE DataProofs ------------------------------
(***************************************************************************)
(* Facts about data that the other proofs use, none of them about a state. *)
(*                                                                         *)
(* Induction and recursion over numbers and finite sets are stated with    *)
(* sets in place of predicates: the members for which a statement holds    *)
(* form a set, and a least member of its complement is a contradiction.    *)
(* From them follow what a sum over a finite set, and coalesce and a cut   *)
(* of a map of runs, compute.                                              *)
(***************************************************************************)
EXTENDS FrameRuns, FiniteSetTheorems, WellFoundedInduction, TLAPS

(* A leaf that names no prover is for Zenon, with time to spare. *)
USE ZenonT(30)

(* Every set of naturals has a least member. *)
LEMMA LeastNat ==
  ASSUME NEW S \in SUBSET Nat, S # {}
  PROVE  \E m \in S : \A k \in S : m <= k
<1>1. PICK m \in S : \A k \in S : ~(<<k, m>> \in OpToRel(<, Nat))
  <2>1. S \subseteq Nat OBVIOUS
  <2>2. QED BY <2>1, NatLessThanWellFounded, WFMin
<1>2. \A k \in S : ~(k < m)
  BY <1>1, Zenon DEF OpToRel
<1>3. QED BY SMT, <1>2

(* Every bounded set of naturals has a greatest member. *)
LEMMA GreatestNat ==
  ASSUME NEW S \in SUBSET Nat, S # {}, NEW n \in Nat, \A k \in S : k <= n
  PROVE  \E m \in S : \A k \in S : k <= m
<1> DEFINE R == {d \in Nat : n - d \in S}
<1>1. R \in SUBSET Nat /\ R # {}
  <2>1. PICK k \in S : TRUE OBVIOUS
  <2>2. n - k \in R BY SMT, <2>1
  <2>3. QED BY <2>2
<1>2. PICK d \in R : \A e \in R : d <= e
  <2> HIDE DEF R
  <2> QED BY <1>1, LeastNat
<1>3. \A k \in S : k <= n - d
  BY SMT, <1>2
<1>4. QED BY <1>2, <1>3

(* Induction over the naturals. *)
LEMMA NatSetInduction ==
  ASSUME NEW S, 0 \in S, \A n \in Nat : n \in S => n + 1 \in S
  PROVE  Nat \subseteq S
<1> SUFFICES ASSUME Nat \ S # {} PROVE FALSE OBVIOUS
<1>1. PICK m \in Nat \ S : \A k \in Nat \ S : m <= k
  <2>1. Nat \ S \in SUBSET Nat OBVIOUS
  <2>2. QED BY <2>1, LeastNat
<1>2. m - 1 \in Nat /\ m - 1 \in S
  BY SMT, <1>1
<1>3. QED BY SMT, <1>1, <1>2

(* Every non-empty family of subsets of a finite set has a minimal member. *)
LEMMA MinimalSubset ==
  ASSUME NEW S, IsFiniteSet(S), NEW F \in SUBSET SUBSET S, F # {}
  PROVE  \E T \in F : \A U \in F : U \subseteq T => U = T
<1>1. IsWellFoundedOn(StrictSubsetOrdering(S), SUBSET S)
  BY FS_StrictSubsetOrderingWellFounded, FS_FiniteSubsetsOfFinite
<1>2. PICK T \in F : \A U \in F : ~(<<U, T>> \in StrictSubsetOrdering(S))
  <2>1. F \subseteq SUBSET S OBVIOUS
  <2>2. QED BY <1>1, <2>1, WFMin
<1>3. ASSUME NEW U \in F, U \subseteq T PROVE U = T
  BY <1>2, <1>3 DEF StrictSubsetOrdering
<1>4. QED BY <1>3

(* Induction over the subsets of a finite set, element by element. *)
LEMMA FiniteSetInduction ==
  ASSUME NEW S, IsFiniteSet(S), NEW F, {} \in F,
         \A T \in SUBSET S : \A x \in S \ T : T \in F => T \cup {x} \in F
  PROVE  S \in F
<1> SUFFICES ASSUME S \notin F PROVE FALSE OBVIOUS
<1> DEFINE G == (SUBSET S) \ F
<1>1. PICK T \in G : \A U \in G : U \subseteq T => U = T
  <2>1. G \in SUBSET SUBSET S /\ G # {} OBVIOUS
  <2> HIDE DEF G
  <2>2. QED BY SMT, <2>1, MinimalSubset
<1>2. PICK x \in T : TRUE
  BY <1>1
<1>3. T \ {x} \in F
  BY SMT, <1>1, <1>2
<1>4. (T \ {x}) \cup {x} \in F
  BY <1>1, <1>2, <1>3
<1>5. (T \ {x}) \cup {x} = T BY <1>2
<1>6. QED BY <1>1, <1>4, <1>5

(* Over a finite set a function to the naturals has a largest value. *)
LEMMA LargestValue ==
  ASSUME NEW S, IsFiniteSet(S), S # {}, NEW f \in [S -> Nat]
  PROVE  \E m \in S : \A k \in S : f[k] <= f[m]
<1> DEFINE F == {T \in SUBSET S : T # {} => \E m \in T : \A k \in T : f[k] <= f[m]}
<1>1. {} \in F
  OBVIOUS
<1>2. ASSUME NEW T \in SUBSET S, NEW x \in S \ T, T \in F PROVE T \cup {x} \in F
  <2>1. CASE T = {}
    BY SMT, <2>1
  <2>2. CASE T # {}
    <3>1. PICK m \in T : \A k \in T : f[k] <= f[m]
      BY <1>2, <2>2
    <3>2. CASE f[x] <= f[m]
      BY <3>1, <3>2
    <3>3. CASE ~(f[x] <= f[m])
      <4>1. \A k \in T \cup {x} : f[k] <= f[x]
        BY SMT, <3>1, <3>3
      <4>2. QED BY <4>1
    <3>4. QED BY <3>2, <3>3
  <2>3. QED BY <2>1, <2>2
<1> HIDE DEF F
<1>3. S \in F
  BY <1>1, <1>2, FiniteSetInduction
<1>4. QED BY <1>3 DEF F
-----------------------------------------------------------------------------
(* What it means for g to be a fold over the subsets of s: pick says which *)
(* member of a set comes last and step what it adds.                       *)
IsFold(g, s, base, pick, step) ==
  /\ g[{}] = base
  /\ \A t \in (SUBSET s) \ {{}} : g[t] = step[<<pick[t], g[t \ {pick[t]}]>>]

Picks(pick, S) ==
  /\ pick \in [(SUBSET S) \ {{}} -> S]
  /\ \A t \in (SUBSET S) \ {{}} : pick[t] \in t

(* Two folds agree on the sets they are both defined on. *)
LEMMA FoldUnique ==
  ASSUME NEW S, IsFiniteSet(S), NEW base, NEW pick, NEW step, Picks(pick, S),
         NEW s \in SUBSET S, NEW t \in SUBSET s, NEW g, NEW h,
         IsFold(g, s, base, pick, step), IsFold(h, t, base, pick, step)
  PROVE  g[t] = h[t]
<1> DEFINE F == {u \in SUBSET t : g[u] # h[u]}
<1>1. SUFFICES ASSUME F # {} PROVE FALSE OBVIOUS
<1>2. PICK u \in F : \A v \in F : v \subseteq u => v = u
  <2>1. F \in SUBSET SUBSET S OBVIOUS
  <2> HIDE DEF F
  <2>2. QED BY SMT, <1>1, <2>1, MinimalSubset
<1>3. u # {}
  BY <1>2 DEF IsFold
<1>4. pick[u] \in u
  BY <1>2, <1>3 DEF Picks
<1>5. g[u \ {pick[u]}] = h[u \ {pick[u]}]
  BY SMT, <1>2, <1>4
<1>6. g[u] = h[u]
  BY <1>2, <1>3, <1>5 DEF IsFold
<1>7. QED BY <1>2, <1>6

(* The fold of a finite set exists. *)
LEMMA FoldExists ==
  ASSUME NEW S, IsFiniteSet(S), NEW V, NEW base \in V, NEW pick, NEW step,
         Picks(pick, S), step \in [S \X V -> V]
  PROVE  \E g \in [SUBSET S -> V] : IsFold(g, S, base, pick, step)
<1> DEFINE Has(s) == \E g \in [SUBSET s -> V] : IsFold(g, s, base, pick, step)
           F == {s \in SUBSET S : ~Has(s)}
<1>1. SUFFICES ASSUME F # {} PROVE FALSE OBVIOUS
<1>2. PICK s \in F : \A u \in F : u \subseteq s => u = s
  <2>1. F \in SUBSET SUBSET S OBVIOUS
  <2> HIDE DEF F
  <2>2. QED BY SMT, <1>1, <2>1, MinimalSubset
<1> DEFINE Of(u) == CHOOSE g \in [SUBSET u -> V] : IsFold(g, u, base, pick, step)
           h == [u \in SUBSET s |->
                   IF u # s THEN Of(u)[u]
                   ELSE IF s = {} THEN base
                   ELSE step[<<pick[s], Of(s \ {pick[s]})[s \ {pick[s]}]>>]]
<1>3. ASSUME NEW u \in SUBSET s, u # s
      PROVE  Of(u) \in [SUBSET u -> V] /\ IsFold(Of(u), u, base, pick, step)
  BY <1>2, <1>3
<1>4. ASSUME NEW u \in SUBSET s, u # {}
      PROVE  pick[u] \in u /\ pick[u] \in S /\ u \ {pick[u]} \in SUBSET s /\ u \ {pick[u]} # s
  BY <1>2, <1>4 DEF Picks
<1>5. h \in [SUBSET s -> V]
  <2>1. ASSUME NEW u \in SUBSET s PROVE h[u] \in V
    <3>1. CASE u # s
      BY <3>1, <1>3
    <3>2. CASE u = s /\ s = {}
      BY <3>2
    <3>3. CASE u = s /\ s # {}
      <4>1. Of(s \ {pick[s]})[s \ {pick[s]}] \in V
        BY <3>3, <1>3, <1>4
      <4>2. pick[s] \in S
        BY <3>3, <1>4
      <4> HIDE DEF Of
      <4>3. QED BY <3>3, <4>1, <4>2
    <3>4. QED BY <3>1, <3>2, <3>3
  <2> HIDE DEF Of
  <2>2. QED BY <2>1
<1>6. IsFold(h, s, base, pick, step)
  <2>1. h[{}] = base
    <3>1. CASE s = {}
      BY <3>1
    <3>2. CASE s # {}
      <4>1. Of({})[{}] = base
        BY <3>2, <1>3 DEF IsFold
      <4>2. QED BY <3>2, <4>1
    <3>3. QED BY <3>1, <3>2
  <2>2. ASSUME NEW t \in (SUBSET s) \ {{}}
        PROVE  h[t] = step[<<pick[t], h[t \ {pick[t]}]>>]
    <3> DEFINE r == t \ {pick[t]}
    <3>1. r \in SUBSET s /\ r # s /\ r \in SUBSET t
      BY <1>4
    <3>2. h[r] = Of(r)[r]
      BY <3>1
    <3>3. CASE t = s
      BY <3>2, <3>3
    <3>4. CASE t # s
      <4>1. h[t] = Of(t)[t]
        BY <3>4
      <4>2. Of(t)[t] = step[<<pick[t], Of(t)[r]>>]
        <5>1. IsFold(Of(t), t, base, pick, step)
          BY <1>3, <3>4
        <5> HIDE DEF Of
        <5>2. t \in (SUBSET t) \ {{}}
          OBVIOUS
        <5>3. QED BY <5>1, <5>2 DEF IsFold
      <4>3. Of(t)[r] = Of(r)[r]
        <5>1. IsFold(Of(t), t, base, pick, step) /\ IsFold(Of(r), r, base, pick, step)
          BY <1>3, <3>1, <3>4
        <5>2. t \in SUBSET S /\ r \in SUBSET t
          BY <1>2, <3>1
        <5> HIDE DEF Of, r
        <5>3. QED BY SMT, <5>1, <5>2, FoldUnique
      <4> HIDE DEF Of, r, h
      <4>4. QED BY <3>2, <4>1, <4>2, <4>3 DEF r
    <3>5. QED BY <3>3, <3>4
  <2> HIDE DEF h
  <2>3. QED BY <2>1, <2>2 DEF IsFold
<1>7. Has(s)
  <2> HIDE DEF h
  <2> QED BY <1>5, <1>6
<1>8. QED BY <1>2, <1>7
(* h computes like a fold as long as it stays in V. *)
FoldsIn(h, S, V, base, pick, step) ==
  /\ h[{}] = base
  /\ \A t \in (SUBSET S) \ {{}} :
       h[t \ {pick[t]}] \in V => h[t] = step[<<pick[t], h[t \ {pick[t]}]>>]

(* What computes like the fold is the fold. *)
LEMMA FoldAgrees ==
  ASSUME NEW S, IsFiniteSet(S), NEW V, NEW base, NEW pick, NEW step, Picks(pick, S),
         NEW g \in [SUBSET S -> V], IsFold(g, S, base, pick, step), NEW h,
         FoldsIn(h, S, V, base, pick, step)
  PROVE  \A t \in SUBSET S : h[t] = g[t]
<1> DEFINE F == {u \in SUBSET S : h[u] # g[u]}
<1>1. SUFFICES ASSUME F # {} PROVE FALSE OBVIOUS
<1>2. PICK u \in F : \A v \in F : v \subseteq u => v = u
  <2>1. F \in SUBSET SUBSET S OBVIOUS
  <2> HIDE DEF F
  <2>2. QED BY SMT, <1>1, <2>1, MinimalSubset
<1>3. u # {}
  BY <1>2 DEF IsFold, FoldsIn
<1>4. pick[u] \in u
  BY <1>2, <1>3 DEF Picks
<1>5. h[u \ {pick[u]}] = g[u \ {pick[u]}] /\ g[u \ {pick[u]}] \in V
  BY SMT, <1>2, <1>4
<1>6. h[u] = g[u]
  BY <1>2, <1>3, <1>5 DEF IsFold, FoldsIn
<1>7. QED BY <1>2, <1>6
-----------------------------------------------------------------------------
(* The sum of f over S, as the fold it is defined by. *)
Sum(f, S) == MapThenSumSet(LAMBDA c : f[c], S)

AnyOf(S) == [t \in (SUBSET S) \ {{}} |-> CHOOSE x \in t : TRUE]

Adds(f, S) == [xv \in S \X Nat |-> f[xv[1]] + xv[2]]

(* What the two functions of that fold return. *)
LEMMA AddsAt ==
  ASSUME NEW S, NEW f, NEW x \in S, NEW v \in Nat
  PROVE  Adds(f, S)[<<x, v>>] = f[x] + v
<1>1. <<x, v>> \in S \X Nat OBVIOUS
<1>2. QED BY <1>1 DEF Adds

(* Any member of a set that is not empty will do. *)
LEMMA AnyOfAt ==
  ASSUME NEW S, NEW t \in (SUBSET S) \ {{}}
  PROVE  /\ AnyOf(S)[t] = CHOOSE x \in t : TRUE
         /\ AnyOf(S)[t] \in t /\ AnyOf(S)[t] \in S /\ t \ {AnyOf(S)[t]} \in SUBSET S
<1>1. AnyOf(S)[t] = CHOOSE x \in t : TRUE BY DEF AnyOf
<1>2. (CHOOSE x \in t : TRUE) \in t OBVIOUS
<1>3. QED BY <1>1, <1>2

(* The sum is the value of a fold that adds one member after the other. *)
LEMMA SumIsFold ==
  ASSUME NEW S, IsFiniteSet(S), NEW f \in [S -> Nat]
  PROVE  \E g \in [SUBSET S -> Nat] : IsFold(g, S, 0, AnyOf(S), Adds(f, S)) /\ Sum(f, S) = g[S]
<1> DEFINE Body(g) == [s \in SUBSET S |->
                         IF s = {} THEN 0
                         ELSE f[CHOOSE x \in s : TRUE] + g[s \ {CHOOSE x \in s : TRUE}]]
           iter == CHOOSE g : g = Body(g)
<1>1. Sum(f, S) = iter[S]
  BY DEF Sum, MapThenSumSet, MapThenFoldSet
<1>2. Picks(AnyOf(S), S)
  BY DEF Picks, AnyOf
<1>3. Adds(f, S) \in [S \X Nat -> Nat]
  BY SMT DEF Adds
<1>4. PICK g \in [SUBSET S -> Nat] : IsFold(g, S, 0, AnyOf(S), Adds(f, S))
  BY <1>2, <1>3, FoldExists
<1>5. ASSUME NEW h, NEW t \in (SUBSET S) \ {{}}, h[t \ {AnyOf(S)[t]}] \in Nat
      PROVE  Adds(f, S)[<<AnyOf(S)[t], h[t \ {AnyOf(S)[t]}]>>]
               = f[CHOOSE x \in t : TRUE] + h[t \ {CHOOSE x \in t : TRUE}]
  <2> DEFINE y == AnyOf(S)[t]
  <2>1. y = CHOOSE x \in t : TRUE BY AnyOfAt
  <2>2. y \in S BY AnyOfAt
  <2> HIDE DEF y, Body, iter
  <2>3. PICK v \in Nat : v = h[t \ {y}] BY <1>5 DEF y
  <2>4. Adds(f, S)[<<y, v>>] = f[y] + v
    BY SMT, <2>2, AddsAt
  <2>5. QED BY <2>1, <2>3, <2>4, Zenon DEF y
<1>6. iter = Body(iter)
  <2>1. g[{}] = 0
    BY <1>4 DEF IsFold
  <2>2. ASSUME NEW t \in (SUBSET S) \ {{}}
        PROVE  g[t] = f[CHOOSE x \in t : TRUE] + g[t \ {CHOOSE x \in t : TRUE}]
    <3>1. g[t \ {AnyOf(S)[t]}] \in Nat BY SMT, AnyOfAt
    <3>2. g[t] = Adds(f, S)[<<AnyOf(S)[t], g[t \ {AnyOf(S)[t]}]>>]
      BY <1>4 DEF IsFold
    <3> HIDE DEF Body, iter
    <3>3. QED BY <1>5, <3>1, <3>2, Zenon
  <2>3. g = Body(g)
    BY <2>1, <2>2
  <2> HIDE DEF Body
  <2>4. QED BY <2>3
<1>7. iter[S] = g[S]
  <2>1. iter[{}] = 0
    BY <1>6
  <2>2. ASSUME NEW t \in (SUBSET S) \ {{}}, iter[t \ {AnyOf(S)[t]}] \in Nat
        PROVE  iter[t] = Adds(f, S)[<<AnyOf(S)[t], iter[t \ {AnyOf(S)[t]}]>>]
    <3> HIDE DEF iter
    <3>1. iter[t] = f[CHOOSE x \in t : TRUE] + iter[t \ {CHOOSE x \in t : TRUE}]
      BY <1>6
    <3> HIDE DEF Body
    <3>2. QED BY <1>5, <2>2, <3>1, Zenon
  <2> HIDE DEF iter, Body
  <2>3. FoldsIn(iter, S, Nat, 0, AnyOf(S), Adds(f, S))
    BY <2>1, <2>2, Zenon DEF FoldsIn
  <2>4. PICK V, zero, step, k : V = Nat /\ zero = 0 /\ step = Adds(f, S) /\ k = g
    OBVIOUS
  <2>5. /\ k \in [SUBSET S -> V] /\ IsFold(k, S, zero, AnyOf(S), step)
        /\ FoldsIn(iter, S, V, zero, AnyOf(S), step)
    BY <1>4, <2>3, <2>4, Zenon
  <2>6. \A t \in SUBSET S : iter[t] = k[t]
    BY SMTT(30), <1>2, <2>5, FoldAgrees
  <2>7. QED BY <2>4, <2>6
<1>8. QED BY <1>1, <1>4, <1>7

(* A sum of zeros is zero. *)
LEMMA SumZero ==
  ASSUME NEW S, IsFiniteSet(S)
  PROVE  Sum([c \in S |-> 0], S) = 0
<1> DEFINE f == [c \in S |-> 0]
<1>1. PICK g \in [SUBSET S -> Nat] : IsFold(g, S, 0, AnyOf(S), Adds(f, S)) /\ Sum(f, S) = g[S]
  BY SumIsFold
<1> DEFINE F == {u \in SUBSET S : g[u] # 0}
<1>2. SUFFICES ASSUME F # {} PROVE FALSE BY <1>1
<1>3. PICK u \in F : \A v \in F : v \subseteq u => v = u
  <2>1. F \in SUBSET SUBSET S OBVIOUS
  <2> HIDE DEF F
  <2>2. QED BY SMT, <1>2, <2>1, MinimalSubset
<1>4. u # {}
  BY <1>1, <1>3 DEF IsFold
<1>5. AnyOf(S)[u] \in u
  BY <1>3, <1>4, AnyOfAt
<1>6. g[u \ {AnyOf(S)[u]}] = 0
  BY SMT, <1>3, <1>5
<1>7. g[u] = 0
  <2>1. u \in (SUBSET S) \ {{}} BY <1>3, <1>4
  <2>2. g[u] = Adds(f, S)[<<AnyOf(S)[u], g[u \ {AnyOf(S)[u]}]>>]
    BY <1>1, <2>1 DEF IsFold
  <2>3. g[u] = f[AnyOf(S)[u]] + 0
    BY SMT, <2>1, <2>2, <1>6, AnyOfAt, AddsAt
  <2>4. QED BY SMT, <2>1, <2>3, AnyOfAt
<1>8. QED BY <1>3, <1>7

(* Raising one summand by one raises the sum by one. *)
LEMMA SumIncrement ==
  ASSUME NEW S, IsFiniteSet(S), NEW f \in [S -> Nat], NEW c \in S
  PROVE  Sum([f EXCEPT ![c] = @ + 1], S) = Sum(f, S) + 1
<1> DEFINE f1 == [f EXCEPT ![c] = @ + 1]
<1>1. PICK g \in [SUBSET S -> Nat] : IsFold(g, S, 0, AnyOf(S), Adds(f, S)) /\ Sum(f, S) = g[S]
  BY SumIsFold
<1>2. PICK h \in [SUBSET S -> Nat] : IsFold(h, S, 0, AnyOf(S), Adds(f1, S)) /\ Sum(f1, S) = h[S]
  <2>1. f1 \in [S -> Nat] BY SMT
  <2> HIDE DEF f1
  <2>2. QED BY <2>1, SumIsFold
<1> DEFINE More(u) == IF c \in u THEN 1 ELSE 0
           F == {u \in SUBSET S : h[u] # g[u] + More(u)}
<1>3. SUFFICES ASSUME F # {} PROVE FALSE BY <1>1, <1>2
<1>4. PICK u \in F : \A v \in F : v \subseteq u => v = u
  <2>1. F \in SUBSET SUBSET S OBVIOUS
  <2> HIDE DEF F
  <2>2. QED BY SMT, <1>3, <2>1, MinimalSubset
<1>5. u # {}
  <2>1. h[{}] = g[{}] + More({}) BY SMT, <1>1, <1>2 DEF IsFold
  <2>2. QED BY <1>4, <2>1
<1> DEFINE x == AnyOf(S)[u]
<1>6. x \in u /\ x \in S /\ u \ {x} \in SUBSET S
  BY <1>4, <1>5, AnyOfAt
<1>7. h[u \ {x}] = g[u \ {x}] + More(u \ {x})
  BY SMT, <1>4, <1>6
<1>8. h[u] = f1[x] + h[u \ {x}] /\ g[u] = f[x] + g[u \ {x}]
  <2>1. u \in (SUBSET S) \ {{}} BY <1>4, <1>5
  <2>2. /\ h[u] = Adds(f1, S)[<<x, h[u \ {x}]>>]
        /\ g[u] = Adds(f, S)[<<x, g[u \ {x}]>>]
    BY <1>1, <1>2, <2>1 DEF IsFold
  <2> HIDE DEF x, f1
  <2>3. PICK v \in Nat, w \in Nat : v = h[u \ {x}] /\ w = g[u \ {x}]
    BY <1>6
  <2>4. Adds(f1, S)[<<x, v>>] = f1[x] + v /\ Adds(f, S)[<<x, w>>] = f[x] + w
    BY SMT, <1>6, AddsAt
  <2>5. QED BY <2>2, <2>3, <2>4, Zenon
<1>9. f1[x] = f[x] + (IF x = c THEN 1 ELSE 0)
  BY SMT, <1>6
<1>10. h[u] = g[u] + More(u)
  BY SMT, <1>6, <1>7, <1>8, <1>9
<1>11. QED BY <1>4, <1>10
-----------------------------------------------------------------------------
(* What coalesce computes. *)

(* A finite map from the base of a run to its size. *)
RunMap(g) ==
  /\ DOMAIN g \subseteq Nat /\ IsFiniteSet(DOMAIN g) /\ g \in [DOMAIN g -> Nat \ {0}]

PagesOf(g) == UNION {Span(b, g[b]) : b \in DOMAIN g}

(* The runs are disjoint; and there is a gap between any two.              *)
Apart(g) == \A b, c \in DOMAIN g : b < c => b + g[b] <= c
Gaps(g) == \A b, c \in DOMAIN g : b < c => b + g[b] < c

(* A finite set of naturals that is not empty has a largest member. *)
LEMMA MaxIs ==
  ASSUME NEW S \in SUBSET Nat, IsFiniteSet(S), S # {}
  PROVE  Max(S) \in S /\ Max(S) \in Nat /\ \A k \in S : k <= Max(S)
<1> DEFINE f == [k \in S |-> k]
<1>1. f \in [S -> Nat]
  OBVIOUS
<1>2. PICK m \in S : \A k \in S : f[k] <= f[m]
  <2> HIDE DEF f
  <2>1. QED BY <1>1, LargestValue
<1>3. \A k \in S : m >= k
  BY <1>2
<1>4. Max(S) \in S /\ \A k \in S : Max(S) >= k
  BY <1>3 DEF Max
<1>5. QED BY <1>4

(* A set of naturals that is not empty has a smallest member. *)
LEMMA MinIs ==
  ASSUME NEW S \in SUBSET Nat, S # {}
  PROVE  Min(S) \in S /\ Min(S) \in Nat /\ \A k \in S : Min(S) <= k
<1>1. PICK m \in S : \A k \in S : m <= k
  BY LeastNat
<1>2. Min(S) \in S /\ \A k \in S : Min(S) <= k
  BY <1>1 DEF Min
<1>3. QED BY <1>2

(* The pages of a map are those of its runs. *)
LEMMA InPages ==
  ASSUME NEW g, NEW p
  PROVE  p \in PagesOf(g) <=> \E b \in DOMAIN g : p \in Span(b, g[b])
BY DEF PagesOf

Partial(S) == UNION {[T -> Nat] : T \in SUBSET S}

Largest(S) == [t \in (SUBSET S) \ {{}} |-> Max(t)]

Merges(f) == [xv \in (DOMAIN f) \X Partial(DOMAIN f) |-> MergeEntry(f, xv[2], xv[1])]

(* Merging keeps to maps on bases that were there. *)
LEMMA MergeType ==
  ASSUME NEW f, RunMap(f), NEW x \in DOMAIN f, NEW kept \in Partial(DOMAIN f)
  PROVE  MergeEntry(f, kept, x) \in Partial(DOMAIN f)
<1>1. PICK T \in SUBSET (DOMAIN f) : kept \in [T -> Nat]
  BY DEF Partial
<1>2. DOMAIN kept = T /\ f[x] \in Nat
  BY <1>1 DEF RunMap
<1> DEFINE last == Max(DOMAIN kept)
<1>3. CASE DOMAIN kept # {} /\ last + kept[last] = x
  <2>1. IsFiniteSet(T) /\ T \in SUBSET Nat /\ T # {}
    BY <1>2, <1>3, FS_Subset DEF RunMap
  <2>2. last \in T
    BY <1>2, <2>1, MaxIs
  <2> HIDE DEF last
  <2>3. kept[last] + f[x] \in Nat
    BY SMT, <1>1, <1>2, <2>2
  <2>4. With(kept, last, kept[last] + f[x]) \in [T -> Nat]
    BY <1>1, <1>2, <2>2, <2>3 DEF With
  <2>5. MergeEntry(f, kept, x) = With(kept, last, kept[last] + f[x])
    BY <1>3 DEF MergeEntry, last
  <2>6. QED BY <2>4, <2>5 DEF Partial
<1>4. CASE ~(DOMAIN kept # {} /\ last + kept[last] = x)
  <2>1. With(kept, x, f[x]) \in [T \cup {x} -> Nat]
    BY <1>1, <1>2 DEF With
  <2>2. MergeEntry(f, kept, x) = With(kept, x, f[x])
    BY <1>4 DEF MergeEntry
  <2>3. T \cup {x} \in SUBSET (DOMAIN f)
    OBVIOUS
  <2>4. QED BY <2>1, <2>2, <2>3 DEF Partial
<1>5. QED BY <1>3, <1>4

(* The fold of coalesce, as the equation it satisfies. *)
LEMMA CoalesceUnfolds ==
  ASSUME NEW f, RunMap(f)
  PROVE  \E iter : /\ coalesce(f) = iter[DOMAIN f]
                   /\ iter[{}] = NoEntries
                   /\ \A s \in (SUBSET DOMAIN f) \ {{}} :
                        iter[s] = MergeEntry(f, iter[s \ {Max(s)}], Max(s))
<1> DEFINE D == DOMAIN f
           Body(g) == [s \in SUBSET D |-> IF s = {} THEN NoEntries
                                          ELSE MergeEntry(f, g[s \ {Max(s)}], Max(s))]
           iter == CHOOSE g : g = Body(g)
<1>1. coalesce(f) = iter[D]
  BY DEF coalesce, MapThenFoldSet
<1>2. IsFiniteSet(D) /\ D \subseteq Nat
  BY DEF RunMap
<1> HIDE DEF Body, iter
<1>3. \A t \in (SUBSET D) \ {{}} : Max(t) \in t
  BY <1>2, FS_Subset, MaxIs
<1>4. Picks(Largest(D), D)
  BY <1>3 DEF Picks, Largest
<1>5. NoEntries \in Partial(D)
  <2>1. NoEntries \in [{} -> Nat]
    BY DEF NoEntries
  <2>2. {} \in SUBSET D OBVIOUS
  <2>3. QED BY <2>1, <2>2 DEF Partial
<1>6. Merges(f) \in [D \X Partial(D) -> Partial(D)]
  BY MergeType DEF Merges
<1>7. PICK g \in [SUBSET D -> Partial(D)] : IsFold(g, D, NoEntries, Largest(D), Merges(f))
  BY <1>2, <1>4, <1>5, <1>6, FoldExists
<1>8. ASSUME NEW s \in (SUBSET D) \ {{}}
      PROVE  g[s] = MergeEntry(f, g[s \ {Max(s)}], Max(s))
  <2>1. Largest(D)[s] = Max(s) /\ Max(s) \in D /\ s \ {Max(s)} \in SUBSET D
    BY <1>3 DEF Largest
  <2>2. g[s] = Merges(f)[<<Max(s), g[s \ {Max(s)}]>>]
    BY <1>7, <2>1 DEF IsFold
  <2>3. g[s \ {Max(s)}] \in Partial(D)
    BY <1>7, <2>1
  <2>4. Merges(f)[<<Max(s), g[s \ {Max(s)}]>>] = MergeEntry(f, g[s \ {Max(s)}], Max(s))
    BY <2>1, <2>3 DEF Merges
  <2>5. QED BY <2>2, <2>4
<1>9. g = Body(g)
  <2>1. g[{}] = NoEntries
    BY <1>7 DEF IsFold
  <2>2. QED BY <1>7, <1>8, <2>1 DEF Body
<1>10. iter = Body(iter)
  BY <1>9 DEF iter
<1>11. iter[{}] = NoEntries
  BY <1>10 DEF Body
<1>12. \A s \in (SUBSET D) \ {{}} : iter[s] = MergeEntry(f, iter[s \ {Max(s)}], Max(s))
  BY <1>10 DEF Body
<1>13. QED BY <1>1, <1>11, <1>12

(* What is left of the entries s of f when they are merged into g. *)
Merged(f, s, g) ==
  /\ RunMap(g) /\ DOMAIN g \subseteq s /\ Gaps(g)
  /\ PagesOf(g) = UNION {Span(b, f[b]) : b \in s}

(* An entry above all that was merged extends the last run or starts one   *)
(* of its own beyond a gap.                                                *)
LEMMA MergeOne ==
  ASSUME NEW f, RunMap(f), Apart(f), NEW s \in SUBSET DOMAIN f, NEW m \in s,
         \A k \in s : k <= m, NEW kept, Merged(f, s \ {m}, kept)
  PROVE  Merged(f, s, MergeEntry(f, kept, m))
<1> DEFINE last == Max(DOMAIN kept)
           K == DOMAIN kept
           Old == UNION {Span(b, f[b]) : b \in s \ {m}}
<1>1. /\ K \subseteq Nat /\ IsFiniteSet(K) /\ K \subseteq s \ {m}
      /\ \A b \in K : kept[b] \in Nat \ {0}
      /\ kept = [b \in K |-> kept[b]]
  BY DEF Merged, RunMap
<1>2. m \in Nat /\ f[m] \in Nat \ {0} /\ \A b \in s : b \in Nat /\ f[b] \in Nat \ {0}
  BY DEF RunMap
<1>3. ASSUME NEW b \in K PROVE b + kept[b] <= m /\ b < m
  <2>1. b + kept[b] - 1 \in Span(b, kept[b])
    BY SMT, <1>1 DEF Span
  <2>2. b + kept[b] - 1 \in PagesOf(kept)
    BY <2>1, InPages
  <2>3. PICK c \in s \ {m} : b + kept[b] - 1 \in Span(c, f[c])
    BY SMT, <2>2 DEF Merged
  <2>4. c < m
    BY SMT, <1>2, <2>3
  <2>5. c + f[c] <= m
    BY <2>3, <2>4 DEF Apart
  <2>6. b + kept[b] - 1 <= c + f[c] - 1
    BY SMT, <2>3 DEF Span
  <2>7. QED BY SMT, <1>1, <1>2, <2>3, <2>5, <2>6
<1>4. \A b, c \in K : b < c => b + kept[b] < c
  BY DEF Merged, Gaps
<1>5. PagesOf(kept) = Old
  BY DEF Merged
<1>6. UNION {Span(b, f[b]) : b \in s} = Old \cup Span(m, f[m])
  OBVIOUS
<1>7. CASE K # {} /\ last + kept[last] = m
  <2>1. last \in K /\ \A b \in K : b <= last
    BY <1>1, <1>7, MaxIs
  <2> DEFINE g == With(kept, last, kept[last] + f[m])
  <2>2. MergeEntry(f, kept, m) = g
    BY <1>7 DEF MergeEntry
  <2> HIDE DEF last
  <2>3. /\ DOMAIN g = K /\ g[last] = kept[last] + f[m]
        /\ \A b \in K : b # last => g[b] = kept[b]
        /\ g = [b \in K |-> g[b]]
    BY <2>1 DEF With
  <2> HIDE DEF g
  <2>4. \A b \in K : g[b] \in Nat \ {0}
    BY SMT, <1>1, <1>2, <2>1, <2>3
  <2>5. RunMap(g)
    BY <1>1, <2>3, <2>4 DEF RunMap
  <2>6. Gaps(g)
    <3>1. ASSUME NEW b \in K, NEW c \in K, b < c PROVE b + g[b] < c
      <4>1. b # last
        BY SMT, <1>1, <2>1, <3>1
      <4>2. QED BY <1>4, <2>3, <3>1, <4>1
    <3>2. QED BY <2>3, <3>1 DEF Gaps
  <2>7. Span(last, g[last]) = Span(last, kept[last]) \cup Span(m, f[m])
    BY SMT, <1>1, <1>2, <1>7, <2>1, <2>3 DEF Span
  <2>8. PagesOf(g) = PagesOf(kept) \cup Span(m, f[m])
    <3>1. ASSUME NEW p PROVE p \in PagesOf(g) <=> p \in PagesOf(kept) \/ p \in Span(m, f[m])
      <4>1. p \in PagesOf(g) <=> \E b \in K : p \in Span(b, g[b])
        BY <2>3, InPages
      <4>2. p \in PagesOf(kept) <=> \E b \in K : p \in Span(b, kept[b])
        BY InPages
      <4>3. QED BY <2>1, <2>3, <2>7, <4>1, <4>2
    <3>2. QED BY <3>1
  <2>9. QED BY <1>1, <1>5, <1>6, <2>2, <2>3, <2>5, <2>6, <2>8 DEF Merged
<1>8. CASE ~(K # {} /\ last + kept[last] = m)
  <2> DEFINE g == With(kept, m, f[m])
  <2>1. MergeEntry(f, kept, m) = g
    BY <1>8 DEF MergeEntry
  <2>2. \A b \in K : b + kept[b] < m
    <3>1. CASE K = {}
      BY <3>1
    <3>2. CASE K # {}
      <4>1. last \in K /\ \A b \in K : b <= last
        BY <1>1, <3>2, MaxIs
      <4> HIDE DEF last
      <4>2. last + kept[last] < m
        BY SMT, <1>1, <1>2, <1>3, <1>8, <3>2, <4>1
      <4>3. ASSUME NEW b \in K, b # last PROVE b + kept[b] < m
        <5>1. b < last
          BY SMT, <1>1, <4>1, <4>3
        <5>2. b + kept[b] < last
          BY <1>4, <4>1, <5>1
        <5>3. QED BY SMT, <1>1, <1>2, <4>1, <4>2, <5>2
      <4>4. QED BY <4>2, <4>3
    <3>3. QED BY <3>1, <3>2
  <2> HIDE DEF last
  <2>3. m \notin K
    BY <1>1
  <2>4. /\ DOMAIN g = K \cup {m} /\ g[m] = f[m] /\ \A b \in K : g[b] = kept[b]
        /\ g = [b \in K \cup {m} |-> g[b]]
    BY <2>3 DEF With
  <2> HIDE DEF g
  <2>5. RunMap(g)
    <3>1. IsFiniteSet(K \cup {m})
      BY <1>1, FS_AddElement
    <3>2. \A b \in K \cup {m} : g[b] \in Nat \ {0} /\ b \in Nat
      BY <1>1, <1>2, <2>4
    <3>3. QED BY <2>4, <3>1, <3>2 DEF RunMap
  <2>6. Gaps(g)
    <3>1. ASSUME NEW b \in K \cup {m}, NEW c \in K \cup {m}, b < c PROVE b + g[b] < c
      <4>1. b \in K
        BY SMT, <1>1, <1>2, <1>3, <3>1
      <4>2. CASE c = m
        BY <2>2, <2>4, <4>1, <4>2
      <4>3. CASE c \in K
        BY <1>4, <2>4, <3>1, <4>1, <4>3
      <4>4. QED BY <4>2, <4>3
    <3>2. QED BY <2>4, <3>1 DEF Gaps
  <2>7. PagesOf(g) = PagesOf(kept) \cup Span(m, f[m])
    <3>1. ASSUME NEW p PROVE p \in PagesOf(g) <=> p \in PagesOf(kept) \/ p \in Span(m, f[m])
      <4>1. p \in PagesOf(g) <=> \E b \in K \cup {m} : p \in Span(b, g[b])
        BY <2>4, InPages
      <4>2. p \in PagesOf(kept) <=> \E b \in K : p \in Span(b, kept[b])
        BY InPages
      <4>3. QED BY <2>4, <4>1, <4>2
    <3>2. QED BY <3>1
  <2>8. QED BY <1>1, <1>5, <1>6, <2>1, <2>4, <2>5, <2>6, <2>7 DEF Merged
<1>9. QED BY <1>7, <1>8

(* coalesce keeps the pages, and leaves a gap between any two runs. *)
LEMMA CoalesceMerges ==
  ASSUME NEW f, RunMap(f), Apart(f)
  PROVE  RunMap(coalesce(f)) /\ Gaps(coalesce(f)) /\ PagesOf(coalesce(f)) = PagesOf(f)
<1>1. PICK iter : /\ coalesce(f) = iter[DOMAIN f]
                  /\ iter[{}] = NoEntries
                  /\ \A s \in (SUBSET DOMAIN f) \ {{}} :
                       iter[s] = MergeEntry(f, iter[s \ {Max(s)}], Max(s))
  BY CoalesceUnfolds
<1>2. IsFiniteSet(DOMAIN f) /\ DOMAIN f \subseteq Nat
  BY DEF RunMap
<1> DEFINE F == {s \in SUBSET DOMAIN f : ~Merged(f, s, iter[s])}
<1>3. F = {}
  <2> SUFFICES ASSUME F # {} PROVE FALSE OBVIOUS
  <2>1. PICK s \in F : \A u \in F : u \subseteq s => u = s
    <3>1. F \in SUBSET SUBSET DOMAIN f OBVIOUS
    <3> HIDE DEF F
    <3>2. QED BY SMT, <1>2, <3>1, MinimalSubset
  <2>2. CASE s = {}
    <3>1. DOMAIN NoEntries = {} /\ NoEntries \in [{} -> Nat \ {0}]
      BY DEF NoEntries
    <3>2. RunMap(NoEntries) /\ Gaps(NoEntries) /\ PagesOf(NoEntries) = {}
      BY <3>1, FS_EmptySet DEF RunMap, Gaps, PagesOf
    <3>3. Merged(f, {}, NoEntries)
      BY <3>1, <3>2 DEF Merged
    <3>4. QED BY <1>1, <2>1, <2>2, <3>3
  <2>3. CASE s # {}
    <3> DEFINE m == Max(s)
    <3>1. m \in s /\ \A k \in s : k <= m
      BY <1>2, <2>1, <2>3, FS_Subset, MaxIs
    <3> HIDE DEF m
    <3>2. s \ {m} \notin F
      BY <2>1, <3>1
    <3>3. Merged(f, s \ {m}, iter[s \ {m}])
      BY <2>1, <3>2
    <3>4. Merged(f, s, MergeEntry(f, iter[s \ {m}], m))
      BY <2>1, <3>1, <3>3, MergeOne
    <3>5. iter[s] = MergeEntry(f, iter[s \ {m}], m)
      BY <1>1, <2>1, <2>3 DEF m
    <3>6. QED BY <2>1, <3>4, <3>5
  <2>4. QED BY <2>2, <2>3
<1>4. Merged(f, DOMAIN f, iter[DOMAIN f])
  BY <1>3
<1>5. QED BY <1>1, <1>4 DEF Merged, PagesOf

-----------------------------------------------------------------------------
(* What a cut computes. *)

(* A run that is not empty starts with its base. *)
LEMMA SpanIs ==
  ASSUME NEW b \in Nat, NEW n \in Nat \ {0}
  PROVE  b \in Span(b, n) /\ Span(b, n) \subseteq Nat
         /\ \A p \in Nat : p \in Span(b, n) <=> b <= p /\ p < b + n
BY SMT DEF Span

(* A run of pages that are not free joins the free map, whose runs then    *)
(* still lie apart, and coalesce merges it with its neighbours.            *)
LEMMA InsertApart ==
  ASSUME NEW f, RunMap(f), Gaps(f), NEW b \in Nat, NEW n \in Nat \ {0},
         Span(b, n) \cap PagesOf(f) = {}
  PROVE  /\ RunMap(With(f, b, n)) /\ Apart(With(f, b, n))
         /\ PagesOf(With(f, b, n)) = PagesOf(f) \cup Span(b, n)
<1> DEFINE g == With(f, b, n)
<1>1. \A x \in DOMAIN f : x \in Nat /\ f[x] \in Nat \ {0}
  BY DEF RunMap
<1>2. \A x \in DOMAIN f : x \notin Span(b, n) /\ b \notin Span(x, f[x])
  BY <1>1, SpanIs, InPages
<1>3. b \notin DOMAIN f
  BY <1>2, SpanIs
<1>4. /\ DOMAIN g = DOMAIN f \cup {b} /\ g[b] = n /\ \A x \in DOMAIN f : g[x] = f[x]
      /\ g = [x \in DOMAIN g |-> g[x]]
  BY <1>3 DEF With
<1> HIDE DEF g
<1>5. RunMap(g)
  <2>1. IsFiniteSet(DOMAIN f \cup {b})
    BY FS_AddElement DEF RunMap
  <2>2. \A x \in DOMAIN f \cup {b} : g[x] \in Nat \ {0} /\ x \in Nat
    BY <1>1, <1>4
  <2>3. QED BY <1>4, <2>1, <2>2 DEF RunMap
<1>6. Apart(g)
  <2>1. ASSUME NEW x \in DOMAIN f \cup {b}, NEW y \in DOMAIN f \cup {b}, x < y
        PROVE  x + g[x] <= y
    <3>1. CASE x = b
      <4>1. y \in DOMAIN f
        BY SMT, <1>1, <2>1, <3>1
      <4>2. QED BY SMT, <1>1, <1>2, <1>4, <2>1, <3>1, <4>1 DEF Span
    <3>2. CASE y = b
      <4>1. x \in DOMAIN f
        BY SMT, <1>1, <2>1, <3>2
      <4>2. QED BY SMT, <1>1, <1>2, <1>4, <2>1, <3>2, <4>1 DEF Span
    <3>3. CASE x \in DOMAIN f /\ y \in DOMAIN f
      BY SMT, <1>1, <1>4, <2>1, <3>3 DEF Gaps
    <3>4. QED BY <3>1, <3>2, <3>3
  <2>2. QED BY <1>4, <2>1 DEF Apart
<1>7. PagesOf(g) = PagesOf(f) \cup Span(b, n)
  <2>1. ASSUME NEW p PROVE p \in PagesOf(g) <=> p \in PagesOf(f) \/ p \in Span(b, n)
    <3>1. p \in PagesOf(g) <=> \E x \in DOMAIN f \cup {b} : p \in Span(x, g[x])
      BY <1>4, InPages
    <3>2. p \in PagesOf(f) <=> \E x \in DOMAIN f : p \in Span(x, f[x])
      BY InPages
    <3>3. QED BY <1>4, <3>1, <3>2
  <2>2. QED BY <2>1
<1>8. QED BY <1>5, <1>6, <1>7 DEF g

(* What add_region and release make of the free map: the pages of the new  *)
(* run are added, and there is a gap between any two runs again.           *)
LEMMA CoalesceInsert ==
  ASSUME NEW f, RunMap(f), Gaps(f), NEW b \in Nat, NEW n \in Nat \ {0},
         Span(b, n) \cap PagesOf(f) = {}
  PROVE  LET g == coalesce(With(f, b, n))
         IN RunMap(g) /\ Gaps(g) /\ PagesOf(g) = PagesOf(f) \cup Span(b, n)
BY SMT, InsertApart, CoalesceMerges

(* The map f with the run of n pages at base + prefix cut out of the entry *)
(* at base.                                                                *)
Cut(f, base, prefix, n) ==
  LET suffix == f[base] - prefix - n
      rest == Without(f, base)
      low == IF prefix # 0 THEN With(rest, base, prefix) ELSE rest
  IN IF suffix # 0 THEN With(low, base + prefix + n, suffix) ELSE low

(* The entries of the map g after a cut. *)
IsCut(f, g, base, prefix, n) ==
  LET suffix == f[base] - prefix - n
      top == base + prefix + n
  IN /\ DOMAIN g = (DOMAIN f \ {base}) \cup (IF prefix # 0 THEN {base} ELSE {})
                                      \cup (IF suffix # 0 THEN {top} ELSE {})
     /\ g = [x \in DOMAIN g |-> g[x]]
     /\ prefix # 0 => g[base] = prefix
     /\ suffix # 0 => g[top] = suffix
     /\ \A x \in DOMAIN f \ {base} : g[x] = f[x]

(* The top of the cut run starts no other run. *)
LEMMA CutEntries ==
  ASSUME NEW f, RunMap(f), Gaps(f), NEW base \in DOMAIN f, NEW prefix \in Nat,
         NEW n \in Nat \ {0}, prefix + n <= f[base]
  PROVE  IsCut(f, Cut(f, base, prefix, n), base, prefix, n)
<1> DEFINE g == Cut(f, base, prefix, n)
           suffix == f[base] - prefix - n
           top == base + prefix + n
           rest == Without(f, base)
           low == IF prefix # 0 THEN With(rest, base, prefix) ELSE rest
<1>1. \A x \in DOMAIN f : x \in Nat /\ f[x] \in Nat \ {0}
  BY DEF RunMap
<1>2. DOMAIN rest = DOMAIN f \ {base} /\ \A x \in DOMAIN f \ {base} : rest[x] = f[x]
  BY DEF Without
<1>3. rest = [x \in DOMAIN rest |-> rest[x]]
  BY DEF Without
<1> HIDE DEF rest
<1>4. /\ DOMAIN low = (DOMAIN f \ {base}) \cup (IF prefix # 0 THEN {base} ELSE {})
      /\ low = [x \in DOMAIN low |-> low[x]]
      /\ prefix # 0 => low[base] = prefix
      /\ \A x \in DOMAIN f \ {base} : low[x] = f[x]
  <2>1. CASE prefix = 0
    BY <1>2, <1>3, <2>1
  <2>2. CASE prefix # 0
    <3>1. low = With(rest, base, prefix)
      BY <2>2
    <3> HIDE DEF low
    <3>2. /\ DOMAIN low = DOMAIN rest \cup {base} /\ low[base] = prefix
          /\ \A x \in DOMAIN rest : x # base => low[x] = rest[x]
          /\ low = [x \in DOMAIN low |-> low[x]]
      BY <3>1 DEF With
    <3>3. QED BY <1>2, <2>2, <3>2
  <2>3. QED BY <2>1, <2>2
<1> HIDE DEF low
<1>5. g = IF suffix # 0 THEN With(low, top, suffix) ELSE low
  BY DEF Cut, rest, low
<1>6. top # base /\ (suffix # 0 => top \notin DOMAIN f)
  <2>1. top > base /\ (suffix # 0 => top < base + f[base])
    BY SMT, <1>1
  <2>2. top \in DOMAIN f => base + f[base] < top
    BY <1>1, <2>1 DEF Gaps
  <2>3. QED BY SMT, <1>1, <2>1, <2>2
<1> HIDE DEF g, top, suffix
<1>7. CASE suffix = 0
  BY <1>4, <1>5, <1>7 DEF g, top, suffix, IsCut
<1>8. CASE suffix # 0
  <2>1. g = With(low, top, suffix)
    BY <1>5, <1>8
  <2>2. /\ DOMAIN g = DOMAIN low \cup {top} /\ g[top] = suffix
        /\ \A x \in DOMAIN low : x # top => g[x] = low[x]
        /\ g = [x \in DOMAIN g |-> g[x]]
    BY <2>1 DEF With
  <2>3. prefix # 0 => g[base] = prefix
    BY <1>4, <1>6, <2>2
  <2>4. \A x \in DOMAIN f \ {base} : g[x] = f[x]
    BY <1>4, <1>6, <1>8, <2>2
  <2>5. QED BY <1>4, <1>8, <2>2, <2>3, <2>4 DEF g, top, suffix, IsCut
<1>9. QED BY <1>7, <1>8

(* A cut takes exactly the run out of the free pages and leaves gaps.      *)
LEMMA CutIs ==
  ASSUME NEW f, RunMap(f), Gaps(f), NEW base \in DOMAIN f, NEW prefix \in Nat,
         NEW n \in Nat \ {0}, prefix + n <= f[base]
  PROVE  LET g == Cut(f, base, prefix, n)
             run == Span(base + prefix, n)
         IN /\ RunMap(g) /\ Gaps(g)
            /\ run \subseteq PagesOf(f) /\ PagesOf(g) = PagesOf(f) \ run
<1> DEFINE g == Cut(f, base, prefix, n)
           suffix == f[base] - prefix - n
           top == base + prefix + n
           run == Span(base + prefix, n)
           Low == IF prefix # 0 THEN {base} ELSE {}
           High == IF suffix # 0 THEN {top} ELSE {}
<1>1. \A x \in DOMAIN f : x \in Nat /\ f[x] \in Nat \ {0}
  BY DEF RunMap
<1>2. /\ DOMAIN g = (DOMAIN f \ {base}) \cup Low \cup High
      /\ g = [x \in DOMAIN g |-> g[x]]
      /\ prefix # 0 => g[base] = prefix
      /\ suffix # 0 => g[top] = suffix
      /\ \A x \in DOMAIN f \ {base} : g[x] = f[x]
  <2>1. IsCut(f, g, base, prefix, n)
    BY CutEntries
  <2> HIDE DEF g
  <2>2. QED BY <2>1 DEF IsCut
<1> HIDE DEF g
<1>3. suffix \in Nat /\ top \in Nat /\ base \in Nat /\ f[base] = prefix + n + suffix
      /\ top + suffix = base + f[base]
  BY SMT, <1>1
<1>4. \A x \in DOMAIN f \ {base} : x + f[x] < base \/ base + f[base] < x
  BY SMT, <1>1 DEF Gaps
<1> HIDE DEF suffix, top
<1>5. ASSUME NEW x \in DOMAIN g
      PROVE  \/ x \in DOMAIN f \ {base} /\ g[x] = f[x]
             \/ x = base /\ prefix # 0 /\ g[x] = prefix
             \/ x = top /\ suffix # 0 /\ g[x] = suffix
  BY <1>2
<1>6. RunMap(g)
  <2>1. IsFiniteSet(DOMAIN g)
    <3>1. IsFiniteSet(DOMAIN f \ {base})
      BY FS_RemoveElement DEF RunMap
    <3>2. IsFiniteSet(Low) /\ IsFiniteSet(High)
      BY FS_EmptySet, FS_Singleton
    <3>3. IsFiniteSet((DOMAIN f \ {base}) \cup Low)
      BY <3>1, <3>2, FS_Union
    <3>4. IsFiniteSet((DOMAIN f \ {base}) \cup Low \cup High)
      BY <3>2, <3>3, FS_Union
    <3>5. QED BY <1>2, <3>4
  <2>2. \A x \in DOMAIN g : x \in Nat /\ g[x] \in Nat \ {0}
    BY <1>1, <1>3, <1>5
  <2>3. QED BY <1>2, <2>1, <2>2 DEF RunMap
<1>7. Gaps(g)
  <2>1. ASSUME NEW x \in DOMAIN g, NEW y \in DOMAIN g, x < y PROVE x + g[x] < y
    <3>1. CASE x \in DOMAIN f \ {base} /\ y \in DOMAIN f \ {base}
      BY <1>2, <2>1, <3>1 DEF Gaps
    <3>2. CASE x \in DOMAIN f \ {base} /\ y \notin DOMAIN f \ {base}
      <4>1. y \in {base, top} /\ base <= y /\ y <= base + f[base] /\ g[x] = f[x]
        BY SMT, <1>1, <1>2, <1>3, <1>5, <2>1, <3>2 DEF top
      <4>2. QED BY SMT, <1>1, <1>3, <1>4, <2>1, <3>2, <4>1
    <3>3. CASE x \notin DOMAIN f \ {base} /\ y \in DOMAIN f \ {base}
      <4>1. x + g[x] <= base + f[base] /\ base <= x /\ x \in Nat
        BY SMT, <1>1, <1>3, <1>5, <2>1, <3>3 DEF top
      <4>2. QED BY SMT, <1>1, <1>3, <1>4, <1>6, <2>1, <3>3, <4>1 DEF RunMap
    <3>4. CASE x \notin DOMAIN f \ {base} /\ y \notin DOMAIN f \ {base}
      BY SMT, <1>1, <1>3, <1>5, <2>1, <3>4 DEF top
    <3>5. QED BY <3>1, <3>2, <3>3, <3>4
  <2>2. QED BY <2>1 DEF Gaps
<1>8. Span(base, f[base]) = Span(base, prefix) \cup run \cup Span(top, suffix)
      /\ Span(base, prefix) \cap run = {} /\ run \cap Span(top, suffix) = {}
  BY SMT, <1>3 DEF Span, top
<1>9. ASSUME NEW x \in DOMAIN f \ {base} PROVE Span(x, f[x]) \cap run = {}
  <2>1. Span(x, f[x]) \cap Span(base, f[base]) = {}
    BY SMT, <1>1, <1>4 DEF Span
  <2>2. QED BY <1>8, <2>1
<1>10. run \subseteq PagesOf(f)
  BY <1>8, InPages
<1>11. (prefix = 0 => Span(base, prefix) = {}) /\ (suffix = 0 => Span(top, suffix) = {})
  BY SMT, <1>3 DEF Span
<1> HIDE DEF run
<1>12. ASSUME NEW p PROVE p \in PagesOf(g) <=> p \in PagesOf(f) /\ p \notin run
  <2>1. p \in PagesOf(g) <=> \E x \in DOMAIN g : p \in Span(x, g[x])
    BY InPages
  <2>2. p \in PagesOf(f) <=> \E x \in DOMAIN f : p \in Span(x, f[x])
    BY InPages
  <2>3. ASSUME NEW x \in DOMAIN g, p \in Span(x, g[x]) PROVE p \in PagesOf(f) /\ p \notin run
    BY <1>5, <1>8, <1>9, <2>2, <2>3
  <2>4. ASSUME NEW x \in DOMAIN f, p \in Span(x, f[x]), p \notin run PROVE p \in PagesOf(g)
    <3>1. CASE x # base
      BY <1>2, <2>1, <2>4, <3>1
    <3>2. CASE x = base
      <4>1. p \in Span(base, prefix) \/ p \in Span(top, suffix)
        BY <1>8, <2>4, <3>2
      <4>2. CASE p \in Span(base, prefix)
        BY <1>2, <1>11, <2>1, <4>2
      <4>3. CASE p \in Span(top, suffix)
        BY <1>2, <1>11, <2>1, <4>3
      <4>4. QED BY <4>1, <4>2, <4>3
    <3>3. QED BY <3>1, <3>2
  <2>5. QED BY <2>1, <2>2, <2>3, <2>4
<1>13. PagesOf(g) = PagesOf(f) \ run
  BY <1>12
<1>14. QED BY <1>6, <1>7, <1>10, <1>13 DEF g, run

(* Rounding up does not go below. *)
LEMMA AlignUpAbove ==
  ASSUME NEW b \in Nat, NEW a \in Nat \ {0}
  PROVE  AlignUp(b, a) \in Nat /\ AlignUp(b, a) >= b
<1> DEFINE x == b + a - 1
           q == x \div a
<1>1. x \in Nat
  BY SMT
<1>2. q \in Nat /\ x < a * q + a
  <2>1. q \in Nat
    BY SMT, <1>1
  <2>2. x = a * q + (x % a)
    BY SMT, <1>1
  <2>3. x % a \in 0..(a - 1)
    BY SMT, <1>1
  <2> HIDE DEF x, q
  <2>4. QED BY SMT, <1>1, <2>1, <2>2, <2>3
<1>3. AlignUp(b, a) = q * a
  BY DEF AlignUp
<1> HIDE DEF q
<1>4. q * a \in Nat /\ q * a = a * q
  BY SMT, <1>2
<1>5. x - (a - 1) = b
  BY SMT
<1>6. QED BY SMT, <1>1, <1>2, <1>3, <1>4, <1>5
=============================================================================
