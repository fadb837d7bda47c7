------------------------------- MODULE Induction -------------------------------
(***************************************************************************)
(* Induction over the naturals, as facts about sets and functions, and     *)
(* what follows from it for the functions the models define by recursion.  *)
(***************************************************************************)
EXTENDS Integers, WellFoundedInduction, FiniteSetTheorems, TLAPS

(* A set of naturals with an element has a least one. *)
LEMMA LeastNat ==
  ASSUME NEW T \in SUBSET Nat, T # {}
  PROVE  \E n \in T : \A m \in T : n <= m
<1>1. PICK x \in T : \A y \in T : ~ (<<y, x>> \in OpToRel(<, Nat))
  BY NatLessThanWellFounded, WFMin
<1>2. x \in Nat /\ \A y \in T : y \in Nat
  OBVIOUS
<1>3. \A y \in T : ~ (y < x)
  BY <1>1, <1>2 DEF OpToRel
<1>4. \A y \in T : x <= y
  BY <1>2, <1>3
<1> QED  BY <1>4

(* A set of naturals with 0 and every successor has them all. *)
LEMMA SetInduction ==
  ASSUME NEW T \in SUBSET Nat, 0 \in T, \A n \in T : n + 1 \in T
  PROVE  T = Nat
<1> SUFFICES ASSUME Nat \ T # {} PROVE FALSE
  OBVIOUS
<1>1. PICK n \in Nat \ T : \A m \in Nat \ T : n <= m
  BY LeastNat
<1>2. n # 0
  OBVIOUS
<1>3. n - 1 \in T
  BY <1>1, <1>2
<1> QED  BY <1>3

(* So has an interval of them that begins at 0. *)
LEMMA IntervalInduction ==
  ASSUME NEW n \in Nat, NEW T, 0 \in T, \A k \in 1 .. n : k - 1 \in T => k \in T
  PROVE  \A k \in 0 .. n : k \in T
<1> DEFINE U == {k \in Nat : k <= n => k \in T}
<1>1. U \in SUBSET Nat /\ 0 \in U
  OBVIOUS
<1>2. ASSUME NEW k \in U PROVE k + 1 \in U
  <2>1. k \in Nat /\ (k + 1) - 1 = k /\ (k + 1 <= n => k + 1 \in 1 .. n /\ k <= n)
    OBVIOUS
  <2> QED  BY <2>1
<1>3. U = Nat
  <2> HIDE DEF U
  <2> QED  BY <1>1, <1>2, SetInduction
<1> QED  BY <1>3

(* A function whose first value is in S, and every other one if the value  *)
(* before it is, has all its values in S.                                  *)
LEMMA StaysIn ==
  ASSUME NEW S, NEW n \in Nat, NEW f, f[0] \in S, \A k \in 1 .. n : f[k - 1] \in S => f[k] \in S
  PROVE  \A k \in 0 .. n : f[k] \in S
<1> DEFINE T == {k \in 0 .. n : f[k] \in S}
<1>1. 0 \in T
  OBVIOUS
<1>2. \A k \in 1 .. n : k - 1 \in T => k \in T
  OBVIOUS
<1>3. \A k \in 0 .. n : k \in T
  <2> HIDE DEF T
  <2> QED  BY <1>1, <1>2, IntervalInduction
<1> QED  BY <1>3

-------------------------------------------------------------------------------
(* Functions on 0 .. n defined from the value before: step[k] takes the    *)
(* value at k - 1 to the one at k.                                         *)
StepFunctions(S, n) == [1 .. n -> [S -> S]]
IsRecursion(f, S, n, first, step) ==
    f \in [0 .. n -> S] /\ f[0] = first /\ \A k \in 1 .. n : f[k] = step[k][f[k - 1]]

(* What is defined so is a function. *)
LEMMA Recursion ==
  ASSUME NEW S, NEW n \in Nat, NEW first \in S, NEW step \in StepFunctions(S, n)
  PROVE  \E f : IsRecursion(f, S, n, first, step)
<1> DEFINE Upto(f, m) ==
               /\ f \in [0 .. m -> S] /\ f[0] = first
               /\ \A k \in 1 .. m : f[k] = step[k][f[k - 1]]
           T == {m \in 0 .. n : \E f : Upto(f, m)}
<1>1. 0 \in T
  <2> DEFINE f == [k \in 0 .. 0 |-> first]
  <2>1. Upto(f, 0)
    OBVIOUS
  <2> HIDE DEF f, Upto
  <2> QED  BY <2>1
<1>2. ASSUME NEW m \in 1 .. n, m - 1 \in T PROVE m \in T
  <2>1. PICK f : Upto(f, m - 1)
    BY <1>2
  <2> DEFINE g == [k \in 0 .. m |-> IF k < m THEN f[k] ELSE step[m][f[m - 1]]]
  <2>2. f[m - 1] \in S /\ step[m] \in [S -> S]
    BY <2>1 DEF StepFunctions
  <2>3. g \in [0 .. m -> S] /\ g[0] = first
    BY <2>1, <2>2
  <2>4. ASSUME NEW k \in 1 .. m PROVE g[k] = step[k][g[k - 1]]
    <3>1. CASE k = m
      BY <3>1
    <3>2. CASE k < m
      BY <3>2, <2>1
    <3> QED  BY <3>1, <3>2
  <2>5. Upto(g, m)
    <3> HIDE DEF g
    <3> QED  BY <2>3, <2>4
  <2> HIDE DEF g, Upto
  <2> QED  BY <2>5
<1>3. n \in T
  <2> HIDE DEF T
  <2>1. \A k \in 0 .. n : k \in T
    BY <1>1, <1>2, IntervalInduction
  <2> QED  BY <2>1
<1>4. PICK f : Upto(f, n)
  BY <1>3
<1> QED  BY <1>4 DEF IsRecursion

-------------------------------------------------------------------------------
(* What FiniteSetsExt!MapThenSumSet adds up over a set. *)
Chosen(s) == CHOOSE x \in s : TRUE
SumOver(S, g) ==
    LET iter[s \in SUBSET S] == IF s = {} THEN 0 ELSE g[Chosen(s)] + iter[s \ {Chosen(s)}]
    IN iter[S]

(* The function by which the sum is defined. *)
IsSum(h, S, g) ==
    /\ h \in [SUBSET S -> Nat]
    /\ \A s \in SUBSET S : h[s] = IF s = {} THEN 0 ELSE g[Chosen(s)] + h[s \ {Chosen(s)}]

(* An element is chosen, and one fewer is left. *)
LEMMA ChosenFacts ==
  ASSUME NEW S, IsFiniteSet(S), NEW s \in SUBSET S
  PROVE  /\ IsFiniteSet(s) /\ Cardinality(s) \in Nat /\ Cardinality(s) <= Cardinality(S)
         /\ s = {} <=> Cardinality(s) = 0
         /\ s # {} => /\ Chosen(s) \in s /\ s \ {Chosen(s)} \in SUBSET S
                      /\ Cardinality(s \ {Chosen(s)}) = Cardinality(s) - 1
<1>1. IsFiniteSet(s) /\ Cardinality(s) \in Nat /\ Cardinality(s) <= Cardinality(S)
  BY FS_Subset, FS_CardinalityType
<1>2. s = {} <=> Cardinality(s) = 0
  BY <1>1, FS_EmptySet
<1>3. s # {} => Chosen(s) \in s
  BY DEF Chosen
<1>4. s # {} => Cardinality(s \ {Chosen(s)}) = Cardinality(s) - 1
  BY <1>1, <1>3, FS_RemoveElement
<1> QED  BY <1>1, <1>2, <1>3, <1>4

(* Only the empty set has no elements. *)
LEMMA OnlyEmpty ==
  ASSUME NEW S, IsFiniteSet(S), NEW s \in SUBSET S, Cardinality(s) <= 0
  PROVE  s = {}
<1>1. Cardinality(s) \in Nat /\ (s = {} <=> Cardinality(s) = 0)
  BY ChosenFacts
<1> QED  BY <1>1

(* There is such a function. *)
LEMMA SumExists ==
  ASSUME NEW S, IsFiniteSet(S), NEW g \in [S -> Nat]
  PROVE  \E h : IsSum(h, S, g)
<1> DEFINE N == Cardinality(S)
           Small(n) == {s \in SUBSET S : Cardinality(s) <= n}
           body(h, s) == IF s = {} THEN 0 ELSE g[Chosen(s)] + h[s \ {Chosen(s)}]
           Upto(h, n) == h \in [Small(n) -> Nat] /\ \A s \in Small(n) : h[s] = body(h, s)
           T == {n \in 0 .. N : \E h : Upto(h, n)}
<1>1. N \in Nat
  BY FS_CardinalityType
<1> HIDE DEF N
<1>2. 0 \in T
  <2> DEFINE h == [s \in Small(0) |-> 0]
  <2>1. \A s \in Small(0) : s = {}
    BY OnlyEmpty
  <2>2. Upto(h, 0)
    BY <2>1
  <2> HIDE DEF h, Upto
  <2> QED  BY <1>1, <2>2
<1>3. ASSUME NEW n \in 1 .. N, n - 1 \in T PROVE n \in T
  <2>1. PICK h : Upto(h, n - 1)
    BY <1>3
  <2> DEFINE k == [s \in Small(n) |-> body(h, s)]
  <2>2. ASSUME NEW s \in Small(n), s # {}
        PROVE  s \ {Chosen(s)} \in Small(n - 1) /\ s \ {Chosen(s)} \in Small(n) /\ Chosen(s) \in S
    <3>1. /\ Chosen(s) \in s /\ s \ {Chosen(s)} \in SUBSET S
          /\ Cardinality(s \ {Chosen(s)}) = Cardinality(s) - 1
          /\ Cardinality(s) \in Nat /\ Cardinality(s) <= n
      BY <2>2, ChosenFacts
    <3> QED  BY <1>1, <3>1
  <2>3. \A s \in Small(n) : body(h, s) \in Nat
    BY <2>1, <2>2
  <2>4. \A t \in Small(n - 1) : k[t] = h[t]
    <3>1. \A t \in Small(n - 1) : t \in Small(n) /\ h[t] = body(h, t)
      <4> SUFFICES ASSUME NEW t \in Small(n - 1) PROVE Cardinality(t) <= n
        BY <2>1
      <4>1. Cardinality(t) \in Nat /\ Cardinality(t) <= n - 1
        BY ChosenFacts
      <4> QED  BY <1>1, <4>1
    <3> HIDE DEF body, Small
    <3> QED  BY <3>1
  <2>5. \A s \in Small(n) : body(h, s) = body(k, s)
    <3> HIDE DEF Small, k
    <3> QED  BY <2>2, <2>4
  <2>6. \A s \in Small(n) : k[s] = body(h, s)
    OBVIOUS
  <2>7. k \in [Small(n) -> Nat]
    <3> HIDE DEF body, Small
    <3> QED  BY <2>3
  <2>8. Upto(k, n)
    <3> HIDE DEF body, Small, k
    <3> QED  BY <2>5, <2>6, <2>7
  <2> HIDE DEF Upto, k
  <2> QED  BY <2>8
<1>4. N \in T
  <2> HIDE DEF T
  <2>1. \A n \in 0 .. N : n \in T
    BY <1>1, <1>2, <1>3, IntervalInduction
  <2> QED  BY <1>1, <2>1
<1>5. PICK h : Upto(h, N)
  BY <1>4
<1>6. Small(N) = SUBSET S
  BY ChosenFacts DEF N
<1>7. IsSum(h, S, g)
  BY <1>5, <1>6 DEF IsSum
<1> QED  BY <1>7

(* The sum is the value of that function for the whole set. *)
LEMMA SumIterates ==
  ASSUME NEW S, IsFiniteSet(S), NEW g \in [S -> Nat]
  PROVE  \E h : IsSum(h, S, g) /\ SumOver(S, g) = h[S]
<1> DEFINE eqn(h) == [s \in SUBSET S |->
                        IF s = {} THEN 0 ELSE g[Chosen(s)] + h[s \ {Chosen(s)}]]
           iter == CHOOSE h : h = eqn(h)
<1>1. PICK h : IsSum(h, S, g)
  BY SumExists
<1>2. h = eqn(h)
  <2>1. h \in [SUBSET S -> Nat] /\ \A s \in SUBSET S : h[s] = eqn(h)[s]
    BY <1>1 DEF IsSum
  <2>2. eqn(h) = [s \in SUBSET S |-> eqn(h)[s]]
    OBVIOUS
  <2> HIDE DEF eqn
  <2> QED  BY <2>1, <2>2
<1>3. iter = eqn(iter)
  <2> HIDE DEF eqn
  <2> QED  BY <1>2
<1>4. SumOver(S, g) = iter[S]
  BY DEF SumOver
<1> HIDE DEF iter
<1>5. \A s \in SUBSET S : iter[s] = IF s = {} THEN 0 ELSE g[Chosen(s)] + iter[s \ {Chosen(s)}]
  BY <1>3
<1>8. iter[{}] = 0
  <2>1. {} \in SUBSET S /\ iter[{}] = eqn(iter)[{}]
    BY <1>3
  <2> QED  BY <2>1
<1>6. \A s \in SUBSET S : iter[s] \in Nat
  <2> DEFINE N == Cardinality(S)
             T == {n \in 0 .. N : \A s \in SUBSET S : Cardinality(s) <= n => iter[s] \in Nat}
  <2>1. N \in Nat
    BY FS_CardinalityType
  <2>2. 0 \in T
    <3>1. \A s \in SUBSET S : Cardinality(s) <= 0 => s = {}
      BY OnlyEmpty
    <3> QED  BY <1>8, <2>1, <3>1
  <2>3. ASSUME NEW n \in 1 .. N, n - 1 \in T PROVE n \in T
    <3> SUFFICES ASSUME NEW s \in SUBSET S, Cardinality(s) <= n PROVE iter[s] \in Nat
      BY <2>1
    <3>1. CASE s = {}
      BY <1>8, <3>1
    <3>2. CASE s # {}
      <4> DEFINE t == s \ {Chosen(s)}
      <4>1. /\ Chosen(s) \in S /\ t \in SUBSET S /\ Cardinality(t) = Cardinality(s) - 1
            /\ Cardinality(s) \in Nat
        BY <3>2, ChosenFacts
      <4>2. Cardinality(t) <= n - 1
        BY <2>1, <4>1
      <4>3. iter[t] \in Nat
        BY <2>3, <4>1, <4>2
      <4>4. iter[s] = g[Chosen(s)] + iter[t] /\ g[Chosen(s)] \in Nat
        BY <1>5, <3>2, <4>1
      <4> QED  BY <4>3, <4>4
    <3> QED  BY <3>1, <3>2
  <2>4. N \in T
    <3> HIDE DEF T, N
    <3>1. \A n \in 0 .. N : n \in T
      BY <2>1, <2>2, <2>3, IntervalInduction
    <3> QED  BY <2>1, <3>1
  <2> QED  BY <2>4, ChosenFacts
<1>7. iter \in [SUBSET S -> Nat]
  <2>1. iter = [s \in SUBSET S |-> iter[s]]
    <3>1. eqn(iter) = [s \in SUBSET S |-> eqn(iter)[s]]
      OBVIOUS
    <3> HIDE DEF eqn
    <3> QED  BY <1>3, <3>1
  <2> QED  BY <1>6, <2>1
<1> QED  BY <1>4, <1>5, <1>7 DEF IsSum

(* A sum of naturals is 0 iff they all are. *)
LEMMA SumZero ==
  ASSUME NEW S, IsFiniteSet(S), NEW g \in [S -> Nat]
  PROVE  SumOver(S, g) \in Nat /\ (SumOver(S, g) = 0 <=> \A x \in S : g[x] = 0)
<1>1. PICK h : IsSum(h, S, g) /\ SumOver(S, g) = h[S]
  BY SumIterates
<1>2. /\ h \in [SUBSET S -> Nat]
      /\ \A s \in SUBSET S : h[s] = IF s = {} THEN 0 ELSE g[Chosen(s)] + h[s \ {Chosen(s)}]
  BY <1>1 DEF IsSum
<1> DEFINE N == Cardinality(S)
           Zero(s) == h[s] = 0 <=> \A x \in s : g[x] = 0
           T == {n \in 0 .. N : \A s \in SUBSET S : Cardinality(s) <= n => Zero(s)}
<1>3. N \in Nat
  BY FS_CardinalityType
<1>4. 0 \in T
  <2>1. \A s \in SUBSET S : Cardinality(s) <= 0 => s = {}
    BY OnlyEmpty
  <2>2. Zero({})
    BY <1>2
  <2> HIDE DEF Zero
  <2> QED  BY <1>3, <2>1, <2>2
<1>5. ASSUME NEW n \in 1 .. N, n - 1 \in T PROVE n \in T
  <2> SUFFICES ASSUME NEW s \in SUBSET S, Cardinality(s) <= n PROVE Zero(s)
    BY <1>3
  <2>1. CASE s = {}
    BY <1>2, <2>1
  <2>2. CASE s # {}
    <3> DEFINE t == s \ {Chosen(s)}
    <3>1. /\ Chosen(s) \in s /\ t \in SUBSET S /\ Cardinality(t) = Cardinality(s) - 1
          /\ Cardinality(s) \in Nat
      BY <2>2, ChosenFacts
    <3>2. Cardinality(t) <= n - 1
      BY <1>3, <3>1
    <3>3. h[t] = 0 <=> \A x \in t : g[x] = 0
      BY <1>5, <3>1, <3>2
    <3>4. /\ h[s] = g[Chosen(s)] + h[t] /\ g[Chosen(s)] \in Nat /\ h[t] \in Nat
      BY <1>2, <2>2, <3>1
    <3>5. \A x \in s : x = Chosen(s) \/ x \in t
      OBVIOUS
    <3>6. h[s] = 0 <=> g[Chosen(s)] = 0 /\ h[t] = 0
      BY <3>4
    <3> QED  BY <3>1, <3>3, <3>5, <3>6
  <2> QED  BY <2>1, <2>2
<1>6. N \in T
  <2> HIDE DEF T, N
  <2>1. \A n \in 0 .. N : n \in T
    BY <1>3, <1>4, <1>5, IntervalInduction
  <2> QED  BY <1>3, <2>1
<1>7. Zero(S)
  BY <1>6, ChosenFacts
<1> QED  BY <1>1, <1>2, <1>7

(* No term is above the sum. *)
LEMMA SumBounds ==
  ASSUME NEW S, IsFiniteSet(S), NEW g \in [S -> Nat]
  PROVE  SumOver(S, g) \in Nat /\ \A x \in S : g[x] <= SumOver(S, g)
<1>1. PICK h : IsSum(h, S, g) /\ SumOver(S, g) = h[S]
  BY SumIterates
<1>2. /\ h \in [SUBSET S -> Nat]
      /\ \A s \in SUBSET S : h[s] = IF s = {} THEN 0 ELSE g[Chosen(s)] + h[s \ {Chosen(s)}]
  BY <1>1 DEF IsSum
<1> DEFINE N == Cardinality(S)
           Bound(s) == \A x \in s : g[x] <= h[s]
           T == {n \in 0 .. N : \A s \in SUBSET S : Cardinality(s) <= n => Bound(s)}
<1>3. N \in Nat
  BY FS_CardinalityType
<1>4. 0 \in T
  <2>1. \A s \in SUBSET S : Cardinality(s) <= 0 => s = {}
    BY OnlyEmpty
  <2>2. Bound({})
    OBVIOUS
  <2> HIDE DEF Bound
  <2> QED  BY <1>3, <2>1, <2>2
<1>5. ASSUME NEW n \in 1 .. N, n - 1 \in T PROVE n \in T
  <2> SUFFICES ASSUME NEW s \in SUBSET S, Cardinality(s) <= n, NEW x \in s
               PROVE  g[x] <= h[s]
    BY <1>3
  <2> DEFINE t == s \ {Chosen(s)}
  <2>1. /\ Chosen(s) \in s /\ t \in SUBSET S /\ Cardinality(t) = Cardinality(s) - 1
        /\ Cardinality(s) \in Nat
    BY ChosenFacts
  <2>2. Cardinality(t) <= n - 1
    BY <1>3, <2>1
  <2>3. \A y \in t : g[y] <= h[t]
    BY <1>5, <2>1, <2>2
  <2>4. h[s] = g[Chosen(s)] + h[t] /\ g[Chosen(s)] \in Nat /\ h[t] \in Nat /\ g[x] \in Nat
    BY <1>2, <2>1
  <2>5. CASE x = Chosen(s)
    <3> HIDE DEF t
    <3> QED  BY <2>4, <2>5
  <2>6. CASE x \in t
    <3>1. g[x] <= h[t]
      BY <2>3, <2>6
    <3> HIDE DEF t
    <3> QED  BY <2>4, <3>1
  <2>7. x = Chosen(s) \/ x \in t
    OBVIOUS
  <2> QED  BY <2>5, <2>6, <2>7
<1>6. N \in T
  <2> HIDE DEF T, N
  <2>1. \A n \in 0 .. N : n \in T
    BY <1>3, <1>4, <1>5, IntervalInduction
  <2> QED  BY <1>3, <2>1
<1>7. Bound(S)
  BY <1>6, ChosenFacts
<1> QED  BY <1>1, <1>2, <1>7

-------------------------------------------------------------------------------
(* A walk from q goes on to next[q], until it is at one of the ends.       *)
IsWalk(W, N, ends, next) ==
    \A q \in N : W[q] = IF q \in ends THEN {} ELSE {q} \cup W[next[q]]

(* There is a function that says which elements a walk comes through: the  *)
(* least set that has where it begins and, with an element, the next one.  *)
LEMMA WalkExists ==
  ASSUME NEW N, NEW ends, NEW next \in [N \ ends -> N]
  PROVE  \E W \in [N -> SUBSET N] : IsWalk(W, N, ends, next)
<1> DEFINE Closed(T) == \A x \in T : next[x] \notin ends => next[x] \in T
           Through(q) == {r \in N \ ends : \A T \in SUBSET (N \ ends) :
                                               q \in T /\ Closed(T) => r \in T}
           W == [q \in N |-> IF q \in ends THEN {} ELSE Through(q)]
<1>1. ASSUME NEW q \in N \ ends PROVE W[q] = {q} \cup W[next[q]]
  <2>1. next[q] \in N
    OBVIOUS
  <2>2. W[q] = Through(q)
    OBVIOUS
  <2>3. CASE next[q] \in ends
    <3>1. W[next[q]] = {}
      BY <2>1, <2>3
    <3>2. {q} \in SUBSET (N \ ends) /\ Closed({q})
      BY <2>3
    <3>3. Through(q) = {q}
      BY <3>2
    <3> QED  BY <2>2, <3>1, <3>3
  <2>4. CASE next[q] \notin ends
    <3> DEFINE R == Through(next[q])
    <3>1. W[next[q]] = R
      BY <2>1, <2>4
    <3>2. \A r \in R : r \in N \ ends
      OBVIOUS
    <3>3. Closed(R)
      <4> SUFFICES ASSUME NEW x \in R, next[x] \notin ends PROVE next[x] \in R
        OBVIOUS
      <4>1. next[x] \in N \ ends
        BY <3>2
      <4> QED  BY <4>1
    <3>4. next[q] \in R
      BY <2>1, <2>4
    <3>5. {q} \cup R \in SUBSET (N \ ends) /\ Closed({q} \cup R)
      <4> HIDE DEF R
      <4> QED  BY <3>2, <3>3, <3>4
    <3>6. Through(q) \subseteq {q} \cup R
      <4> HIDE DEF R
      <4> QED  BY <3>5
    <3>7. ASSUME NEW r \in R, NEW T \in SUBSET (N \ ends), q \in T, Closed(T) PROVE r \in T
      <4>1. next[q] \in T
        BY <2>4, <3>7
      <4> QED  BY <3>7, <4>1
    <3>8. {q} \cup R \subseteq Through(q)
      <4> HIDE DEF R, Closed
      <4> QED  BY <3>2, <3>7
    <3> HIDE DEF R
    <3> QED  BY <2>2, <3>1, <3>6, <3>8
  <2> QED  BY <2>3, <2>4
<1>2. \A q \in N \cap ends : W[q] = {}
  OBVIOUS
<1>3. W \in [N -> SUBSET N]
  OBVIOUS
<1> HIDE DEF W
<1> QED  BY <1>1, <1>2, <1>3 DEF IsWalk

(* A walk that goes up comes through the elements of C, which are those    *)
(* between where it begins and an end.                                     *)
LEMMA WalkIs ==
  ASSUME NEW ends, NEW next, NEW W, IsWalk(W, Nat, ends, next),
         NEW M \in Nat, \A q \in Nat : M <= q => q \in ends,
         NEW G \in SUBSET Nat, NEW C \in SUBSET Nat,
         \A q \in G \cap ends : \A c \in C : c < q,
         \A q \in G \ ends : /\ q \in C /\ next[q] \in G /\ q < next[q]
                             /\ \A c \in C : c <= q \/ next[q] <= c
  PROVE  \A q \in G : W[q] = {c \in C : q <= c}
<1> DEFINE Bad == {q \in G : W[q] # {c \in C : q <= c}}
           T == {M - q : q \in Bad}
<1>1. ASSUME NEW q \in Bad PROVE q \notin ends /\ q < M
  <2>1. q \in G /\ q \in Nat
    OBVIOUS
  <2>2. ASSUME q \in ends PROVE FALSE
    <3>1. W[q] = {}
      BY <2>1, <2>2 DEF IsWalk
    <3>2. \A c \in C : ~(q <= c)
      <4>1. \A c \in C : c < q
        BY <2>1, <2>2
      <4> QED  BY <2>1, <4>1
    <3> QED  BY <3>1, <3>2
  <2> QED  BY <2>1, <2>2
<1>2. SUFFICES ASSUME Bad # {} PROVE FALSE
  OBVIOUS
<1>3. T \in SUBSET Nat /\ T # {}
  <2>1. \A q \in Bad : q \in Nat
    OBVIOUS
  <2> HIDE DEF Bad
  <2> QED  BY <1>1, <1>2, <2>1
<1>4. PICK k \in T : \A j \in T : k <= j
  BY <1>3, LeastNat
<1>5. PICK q \in Bad : k = M - q
  BY <1>4
<1>6. q \in G /\ q \in Nat /\ q \notin ends /\ q < M
  BY <1>1, <1>5
<1>7. PICK s : s = next[q]
  OBVIOUS
<1>8. s \in G /\ s \in Nat /\ q < s /\ q \in C /\ \A c \in C : c <= q \/ s <= c
  BY <1>6, <1>7
<1>9. s \notin Bad
  <2> SUFFICES ASSUME s \in Bad PROVE FALSE
    OBVIOUS
  <2>1. M - s \in T /\ s < M
    BY <1>1
  <2>2. k <= M - s
    BY <1>4, <2>1
  <2> QED  BY <1>5, <1>6, <1>8, <2>1, <2>2
<1>10. W[s] = {c \in C : s <= c}
  BY <1>8, <1>9
<1>11. W[q] = {q} \cup W[s]
  BY <1>6, <1>7 DEF IsWalk
<1>12. {c \in C : q <= c} = {q} \cup {c \in C : s <= c}
  <2>1. ASSUME NEW c \in C, q <= c PROVE c = q \/ s <= c
    <3>1. c \in Nat /\ (c <= q \/ s <= c)
      BY <1>8
    <3> QED  BY <1>6, <2>1, <3>1
  <2>2. ASSUME NEW c \in C, s <= c PROVE q <= c
    <3>1. c \in Nat
      OBVIOUS
    <3> QED  BY <1>6, <1>8, <2>2, <3>1
  <2> QED  BY <1>6, <1>8, <2>1, <2>2
<1> QED  BY <1>5, <1>10, <1>11, <1>12

-------------------------------------------------------------------------------
(* The sum of the sizes of sets that have no element in common is the size *)
(* of their union.                                                         *)
AreApart(e, S) == \A x, y \in S : x # y => e[x] \cap e[y] = {}
UnionOver(e, s) == UNION {e[x] : x \in s}

(* Sets that are apart have as many members together as they have each. *)
LEMMA SumUnion ==
  ASSUME NEW S, IsFiniteSet(S), NEW g \in [S -> Nat], NEW e, AreApart(e, S),
         \A x \in S : IsFiniteSet(e[x]) /\ Cardinality(e[x]) = g[x]
  PROVE  IsFiniteSet(UnionOver(e, S)) /\ Cardinality(UnionOver(e, S)) = SumOver(S, g)
<1>1. PICK h : IsSum(h, S, g) /\ SumOver(S, g) = h[S]
  BY SumIterates
<1>2. /\ h \in [SUBSET S -> Nat]
      /\ \A s \in SUBSET S : h[s] = IF s = {} THEN 0 ELSE g[Chosen(s)] + h[s \ {Chosen(s)}]
  BY <1>1 DEF IsSum
<1> DEFINE N == Cardinality(S)
           Is(s) == IsFiniteSet(UnionOver(e, s)) /\ Cardinality(UnionOver(e, s)) = h[s]
           T == {n \in 0 .. N : \A s \in SUBSET S : Cardinality(s) <= n => Is(s)}
<1>3. N \in Nat
  BY FS_CardinalityType
<1>4. 0 \in T
  <2>1. \A s \in SUBSET S : Cardinality(s) <= 0 => s = {}
    BY OnlyEmpty
  <2>2. Is({})
    <3>1. UnionOver(e, {}) = {}
      BY DEF UnionOver
    <3>2. h[{}] = 0
      BY <1>2
    <3> QED  BY <3>1, <3>2, FS_EmptySet
  <2> HIDE DEF Is
  <2> QED  BY <1>3, <2>1, <2>2
<1>5. ASSUME NEW n \in 1 .. N, n - 1 \in T PROVE n \in T
  <2> SUFFICES ASSUME NEW s \in SUBSET S, Cardinality(s) <= n PROVE Is(s)
    BY <1>3
  <2>1. CASE s = {}
    <3>1. 0 <= n - 1 /\ Cardinality({}) = 0 /\ {} \in SUBSET S
      BY FS_EmptySet
    <3> HIDE DEF Is
    <3> QED  BY <1>5, <2>1, <3>1
  <2>2. CASE s # {}
    <3>1. PICK x, t : x = Chosen(s) /\ t = s \ {Chosen(s)}
      OBVIOUS
    <3>2. /\ x \in s /\ t \in SUBSET S /\ Cardinality(t) = Cardinality(s) - 1
          /\ Cardinality(s) \in Nat
      BY <2>2, <3>1, ChosenFacts
    <3>3. Cardinality(t) <= n - 1
      BY <1>3, <3>2
    <3>4. Is(t)
      <4> HIDE DEF Is
      <4> QED  BY <1>5, <3>2, <3>3
    <3>5. h[s] = g[x] + h[t] /\ g[x] \in Nat /\ h[t] \in Nat
      BY <1>2, <2>2, <3>1, <3>2
    <3>6. PICK A, C : A = e[x] /\ C = UnionOver(e, t)
      OBVIOUS
    <3>7. UnionOver(e, s) = A \cup C
      <4>1. s = t \cup {x}
        BY <3>1, <3>2
      <4> QED  BY <3>6, <4>1 DEF UnionOver
    <3>8. A \cap C = {}
      <4>1. \A y \in t : y \in S /\ y # x /\ x \in S
        BY <3>1, <3>2
      <4>2. \A y \in t : e[x] \cap e[y] = {}
        BY <4>1 DEF AreApart
      <4> QED  BY <3>6, <4>2 DEF UnionOver
    <3>9. IsFiniteSet(A) /\ Cardinality(A) = g[x] /\ IsFiniteSet(C) /\ Cardinality(C) = h[t]
      BY <3>2, <3>4, <3>6
    <3>10. IsFiniteSet(A \cup C)
           /\ Cardinality(A \cup C) = Cardinality(A) + Cardinality(C) - Cardinality(A \cap C)
      BY <3>9, FS_Union
    <3>11. Cardinality(A \cap C) = 0
      BY <3>8, FS_EmptySet
    <3> QED  BY <3>5, <3>7, <3>9, <3>10, <3>11
  <2> QED  BY <2>1, <2>2
<1>6. N \in T
  <2> HIDE DEF T, N
  <2>1. \A n \in 0 .. N : n \in T
    BY <1>3, <1>4, <1>5, IntervalInduction
  <2> QED  BY <1>3, <2>1
<1>7. Is(S)
  BY <1>6, ChosenFacts
<1> QED  BY <1>1, <1>7
===============================================================================
