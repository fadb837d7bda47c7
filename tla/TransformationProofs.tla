-------------------------- MODULE TransformationProofs --------------------------
(***************************************************************************)
(* Transformation's type invariant, its safety invariants and its contract *)
(* for every set of addresses, instructions and mutations.                 *)
(*                                                                         *)
(* The inductive invariant joins the invariants with Restoration: that an  *)
(* Undo gives the old rewrite back is not inductive by itself, it needs to *)
(* know that the undo state describes that rewrite, and this needs the     *)
(* undo state to be live and the block to hold no instruction twice.       *)
(*                                                                         *)
(* At the end, the strategy that chooses among the edits and its bound on  *)
(* the size of a rewrite.                                                  *)
(***************************************************************************)
EXTENDS Rewriter, SequenceTheorems, TLAPS

-------------------------------------------------------------------------------
(* Facts about the list operators, for lists without repetition (an        *)
(* instruction is linked into a block once): what insert and               *)
(* removeFromParent return, and that each undoes the other.                *)

(* The lists over S that hold no element twice. *)
DistinctSeq(S) ==
    {s \in Seq(S) : \A i, j \in 1 .. Len(s) : s[i] = s[j] => i = j}

(* InsertAt makes one element longer and shifts what is behind the new one. *)
LEMMA InsertAtFacts ==
  ASSUME NEW S, NEW s \in Seq(S), NEW e \in S, NEW i \in 1 .. Len(s) + 1
  PROVE  /\ InsertAt(s, i, e) \in Seq(S)
         /\ Len(InsertAt(s, i, e)) = Len(s) + 1
         /\ \A j \in 1 .. Len(s) + 1 :
               InsertAt(s, i, e)[j] =
                  IF j < i THEN s[j] ELSE IF j = i THEN e ELSE s[j - 1]
<1> DEFINE l == SubSeq(s, 1, i - 1)
           r == SubSeq(s, i, Len(s))
<1>0. Len(s) \in Nat /\ i \in Int /\ i - 1 \in Int /\ \A j \in 1 .. Len(s) : s[j] \in S
  BY LenProperties, ElementOfSeq
<1>1. l \in Seq(S) /\ Len(l) = i - 1 /\ \A j \in 1 .. i - 1 : l[j] = s[j]
  <2>1. \A j \in 1 .. i - 1 : s[j] \in S
    BY <1>0
  <2>2. /\ l \in Seq(S)
        /\ Len(l) = IF 1 <= i - 1 THEN i - 1 - 1 + 1 ELSE 0
        /\ \A j \in 1 .. i - 1 - 1 + 1 : l[j] = s[1 + j - 1]
    BY <1>0, <2>1, SubSeqProperties
  <2> QED  BY <1>0, <2>2
<1>2. /\ r \in Seq(S) /\ Len(r) = Len(s) - i + 1
      /\ \A j \in 1 .. Len(s) - i + 1 : r[j] = s[i + j - 1]
  <2>1. \A j \in i .. Len(s) : s[j] \in S
    BY <1>0
  <2>2. /\ r \in Seq(S)
        /\ Len(r) = IF i <= Len(s) THEN Len(s) - i + 1 ELSE 0
        /\ \A j \in 1 .. Len(s) - i + 1 : r[j] = s[i + j - 1]
    BY <1>0, <2>1, SubSeqProperties
  <2> QED  BY <1>0, <2>2
<1>3. <<e>> \in Seq(S) /\ Len(<<e>>) = 1 /\ <<e>>[1] = e
  OBVIOUS
<1> HIDE DEF l, r
<1> DEFINE le == l \o <<e>>
           c == le \o r
<1>4. /\ le \in Seq(S) /\ Len(le) = i
      /\ \A j \in 1 .. i : le[j] = IF j < i THEN s[j] ELSE e
  <2>1. /\ le \in Seq(S) /\ Len(le) = Len(l) + Len(<<e>>)
        /\ \A j \in 1 .. Len(l) + Len(<<e>>) :
              le[j] = IF j <= Len(l) THEN l[j] ELSE <<e>>[j - Len(l)]
    BY <1>1, <1>3, ConcatProperties
  <2> HIDE DEF le
  <2> QED  BY <1>0, <1>1, <1>3, <2>1
<1>5. /\ c \in Seq(S) /\ Len(c) = Len(s) + 1
      /\ \A j \in 1 .. Len(s) + 1 : c[j] = IF j <= i THEN le[j] ELSE r[j - i]
  <2> HIDE DEF le
  <2>1. /\ c \in Seq(S) /\ Len(c) = Len(le) + Len(r)
        /\ \A j \in 1 .. Len(le) + Len(r) :
              c[j] = IF j <= Len(le) THEN le[j] ELSE r[j - Len(le)]
    BY <1>2, <1>4, ConcatProperties
  <2> HIDE DEF c
  <2> QED  BY <1>0, <1>2, <1>4, <2>1
<1> HIDE DEF le, c
<1>6. ASSUME NEW j \in 1 .. Len(s) + 1
      PROVE  c[j] = IF j < i THEN s[j] ELSE IF j = i THEN e ELSE s[j - 1]
  <2>1. CASE j <= i
    BY <2>1, <1>0, <1>4, <1>5
  <2>2. CASE j > i
    <3>1. j - i \in 1 .. Len(s) - i + 1 /\ i + (j - i) - 1 = j - 1
      BY <2>2, <1>0
    <3>2. c[j] = r[j - i] /\ r[j - i] = s[j - 1]
      BY <2>2, <3>1, <1>0, <1>2, <1>5
    <3> QED  BY <2>2, <3>2, <1>0
  <2> QED  BY <2>1, <2>2, <1>0
<1>7. InsertAt(s, i, e) = c
  BY DEF InsertAt, l, r, le, c
<1> QED  BY <1>5, <1>6, <1>7

(* RemoveAt closes the gap. *)
LEMMA RemoveAtFacts ==
  ASSUME NEW S, NEW s \in Seq(S), NEW i \in 1 .. Len(s)
  PROVE  /\ RemoveAt(s, i) \in Seq(S)
         /\ Len(RemoveAt(s, i)) = Len(s) - 1
         /\ \A j \in 1 .. Len(s) - 1 :
               RemoveAt(s, i)[j] = IF j < i THEN s[j] ELSE s[j + 1]
<1> DEFINE l == SubSeq(s, 1, i - 1)
           r == SubSeq(s, i + 1, Len(s))
<1>0. Len(s) \in Nat /\ i \in Int /\ i - 1 \in Int /\ i + 1 \in Int
      /\ \A j \in 1 .. Len(s) : s[j] \in S
  BY LenProperties, ElementOfSeq
<1>1. l \in Seq(S) /\ Len(l) = i - 1 /\ \A j \in 1 .. i - 1 : l[j] = s[j]
  <2>1. \A j \in 1 .. i - 1 : s[j] \in S
    BY <1>0
  <2>2. /\ l \in Seq(S)
        /\ Len(l) = IF 1 <= i - 1 THEN i - 1 - 1 + 1 ELSE 0
        /\ \A j \in 1 .. i - 1 - 1 + 1 : l[j] = s[1 + j - 1]
    BY <1>0, <2>1, SubSeqProperties
  <2> QED  BY <1>0, <2>2
<1>2. /\ r \in Seq(S) /\ Len(r) = Len(s) - i
      /\ \A j \in 1 .. Len(s) - i : r[j] = s[i + j]
  <2>1. \A j \in i + 1 .. Len(s) : s[j] \in S
    BY <1>0
  <2>2. /\ r \in Seq(S)
        /\ Len(r) = IF i + 1 <= Len(s) THEN Len(s) - (i + 1) + 1 ELSE 0
        /\ \A j \in 1 .. Len(s) - (i + 1) + 1 : r[j] = s[i + 1 + j - 1]
    BY <1>0, <2>1, SubSeqProperties
  <2> QED  BY <1>0, <2>2
<1> HIDE DEF l, r
<1> DEFINE c == l \o r
<1>3. /\ c \in Seq(S) /\ Len(c) = Len(s) - 1
      /\ \A j \in 1 .. Len(s) - 1 : c[j] = IF j <= i - 1 THEN l[j] ELSE r[j - (i - 1)]
  <2>1. /\ c \in Seq(S) /\ Len(c) = Len(l) + Len(r)
        /\ \A j \in 1 .. Len(l) + Len(r) :
              c[j] = IF j <= Len(l) THEN l[j] ELSE r[j - Len(l)]
    BY <1>1, <1>2, ConcatProperties
  <2> HIDE DEF c
  <2> QED  BY <1>0, <1>1, <1>2, <2>1
<1> HIDE DEF c
<1>4. ASSUME NEW j \in 1 .. Len(s) - 1
      PROVE  c[j] = IF j < i THEN s[j] ELSE s[j + 1]
  <2>1. CASE j < i
    BY <2>1, <1>0, <1>1, <1>3
  <2>2. CASE j >= i
    <3>1. j - (i - 1) \in 1 .. Len(s) - i /\ i + (j - (i - 1)) = j + 1
      BY <2>2, <1>0
    <3>2. c[j] = r[j - (i - 1)] /\ r[j - (i - 1)] = s[j + 1]
      BY <2>2, <3>1, <1>0, <1>2, <1>3
    <3> QED  BY <2>2, <3>2, <1>0
  <2> QED  BY <2>1, <2>2, <1>0
<1>5. RemoveAt(s, i) = c
  BY DEF RemoveAt, l, r, c
<1> QED  BY <1>3, <1>4, <1>5

(* The position of a list's element is found again from the element. *)
LEMMA IndexOfElement ==
  ASSUME NEW S, NEW s \in DistinctSeq(S), NEW k \in 1 .. Len(s)
  PROVE  IndexOf(s, s[k]) = k
<1>1. DOMAIN s = 1 .. Len(s)
  BY LenProperties DEF DistinctSeq
<1>2. \A i \in DOMAIN s : s[i] = s[k] => i = k
  BY <1>1 DEF DistinctSeq
<1> QED  BY <1>1, <1>2 DEF IndexOf

(* Every element has a position, and every iterator is a NodeAt. *)
LEMMA ElementHasIndex ==
  ASSUME NEW S, NEW s \in DistinctSeq(S), NEW a \in Range(s)
  PROVE  \E k \in 1 .. Len(s) : a = s[k]
BY LenProperties DEF DistinctSeq, Range

LEMMA ElementTyped ==
  ASSUME NEW S, NEW s \in DistinctSeq(S)
  PROVE  /\ Len(s) \in Nat
         /\ DOMAIN s = 1 .. Len(s)
         /\ \A k \in 1 .. Len(s) : s[k] \in S /\ s[k] \in Range(s)
         /\ Range(s) \subseteq S
BY LenProperties, ElementOfSeq DEF DistinctSeq, Range

(* insert links one new element before the k-th one. *)
LEMMA InsertFacts ==
  ASSUME NEW S, End \notin S, NEW s \in DistinctSeq(S), NEW k \in 1 .. Len(s) + 1,
         NEW a \in S, a \notin Range(s),
         NEW loc, loc = NodeAt(s, k), NEW t, t = insert(s, loc, a)
  PROVE  /\ t \in DistinctSeq(S)
         /\ Len(t) = Len(s) + 1
         /\ \A j \in 1 .. Len(s) + 1 :
               t[j] = IF j < k THEN s[j] ELSE IF j = k THEN a ELSE s[j - 1]
         /\ Range(t) = Range(s) \union {a}
<1> DEFINE x == insert(s, NodeAt(s, k), a)
<1>0. /\ s \in Seq(S) /\ Len(s) \in Nat /\ DOMAIN s = 1 .. Len(s)
      /\ \A j \in 1 .. Len(s) : s[j] \in S /\ s[j] \in Range(s)
  BY ElementTyped DEF DistinctSeq
<1>1. /\ x \in Seq(S)
      /\ Len(x) = Len(s) + 1
      /\ \A j \in 1 .. Len(s) + 1 :
            x[j] = IF j < k THEN s[j] ELSE IF j = k THEN a ELSE s[j - 1]
  <2>1. CASE k = Len(s) + 1
    <3>1. x = Append(s, a)
      BY <2>1, <1>0 DEF insert, NodeAt
    <3> QED  BY <2>1, <3>1, <1>0, AppendProperties
  <2>2. CASE k # Len(s) + 1
    <3>1. k \in 1 .. Len(s)
      BY <2>2, <1>0
    <3>2. NodeAt(s, k) = s[k] /\ s[k] # End
      BY <3>1, <1>0 DEF NodeAt
    <3>3. IndexOf(s, s[k]) = k
      BY <3>1, IndexOfElement
    <3>4. x = InsertAt(s, k, a)
      BY <3>2, <3>3 DEF insert
    <3>5. /\ InsertAt(s, k, a) \in Seq(S)
          /\ Len(InsertAt(s, k, a)) = Len(s) + 1
          /\ \A j \in 1 .. Len(s) + 1 :
                InsertAt(s, k, a)[j] = IF j < k THEN s[j] ELSE IF j = k THEN a ELSE s[j - 1]
      BY <1>0, InsertAtFacts
    <3> HIDE DEF x
    <3> QED  BY <3>4, <3>5
  <2> QED  BY <2>1, <2>2
<1> HIDE DEF x
<1>2. DOMAIN x = 1 .. Len(s) + 1
  BY <1>1, LenProperties
<1>3. \A i, j \in 1 .. Len(x) : x[i] = x[j] => i = j
  <2> SUFFICES ASSUME NEW i \in 1 .. Len(s) + 1, NEW j \in 1 .. Len(s) + 1, x[i] = x[j]
               PROVE  i = j
    BY <1>1
  <2> DEFINE at(n) == IF n < k THEN n ELSE n - 1
  <2>1. ASSUME NEW n \in 1 .. Len(s) + 1, n # k
        PROVE  at(n) \in 1 .. Len(s) /\ x[n] = s[at(n)] /\ x[n] # a
    BY <2>1, <1>0, <1>1
  <2>2. x[k] = a
    BY <1>1
  <2>3. CASE i # k /\ j # k
    <3>1. at(i) = at(j)
      BY <2>1, <2>3 DEF DistinctSeq
    <3> QED  BY <3>1, <2>3, <1>0
  <2> QED  BY <2>1, <2>2, <2>3
<1>4. Range(x) = Range(s) \union {a}
  <2>1. ASSUME NEW i \in 1 .. Len(s) + 1
        PROVE  x[i] \in Range(s) \union {a}
    BY <1>0, <1>1
  <2>2. ASSUME NEW i \in 1 .. Len(s)
        PROVE  s[i] \in Range(x)
    <3>1. CASE i < k
      <4>1. i \in DOMAIN x /\ x[i] = s[i]
        BY <3>1, <1>0, <1>1, <1>2
      <4> QED  BY <4>1 DEF Range
    <3>2. CASE i >= k
      <4>1. i + 1 \in DOMAIN x /\ x[i + 1] = s[i]
        BY <3>2, <1>0, <1>1, <1>2
      <4> QED  BY <4>1 DEF Range
    <3> QED  BY <3>1, <3>2, <1>0
  <2>3. a \in Range(x)
    <3>1. k \in DOMAIN x /\ x[k] = a
      BY <1>1, <1>2
    <3> QED  BY <3>1 DEF Range
  <2> QED  BY <2>1, <2>2, <2>3, <1>0, <1>2 DEF Range
<1>9. t = x
  BY DEF x
<1> QED  BY <1>9, <1>1, <1>3, <1>4 DEF DistinctSeq

(* removeFromParent unlinks the k-th element and nothing else. *)
LEMMA RemoveFacts ==
  ASSUME NEW S, NEW s \in DistinctSeq(S), NEW k \in 1 .. Len(s),
         NEW a, a = s[k], NEW t, t = removeFromParent(s, a)
  PROVE  /\ t \in DistinctSeq(S)
         /\ Len(t) = Len(s) - 1
         /\ \A j \in 1 .. Len(s) - 1 : t[j] = IF j < k THEN s[j] ELSE s[j + 1]
         /\ Range(t) = Range(s) \ {a}
<1> DEFINE x == removeFromParent(s, s[k])
<1>0. /\ s \in Seq(S) /\ Len(s) \in Nat /\ DOMAIN s = 1 .. Len(s)
      /\ \A j \in 1 .. Len(s) : s[j] \in S /\ s[j] \in Range(s)
  BY ElementTyped DEF DistinctSeq
<1>1. /\ x \in Seq(S)
      /\ Len(x) = Len(s) - 1
      /\ \A j \in 1 .. Len(s) - 1 : x[j] = IF j < k THEN s[j] ELSE s[j + 1]
  <2>1. x = RemoveAt(s, k)
    BY IndexOfElement DEF removeFromParent
  <2> QED  BY <2>1, <1>0, RemoveAtFacts
<1> HIDE DEF x
<1>2. DOMAIN x = 1 .. Len(s) - 1
  BY <1>1, LenProperties
<1> DEFINE at(n) == IF n < k THEN n ELSE n + 1
<1>3. ASSUME NEW n \in 1 .. Len(s) - 1
      PROVE  at(n) \in 1 .. Len(s) /\ at(n) # k /\ x[n] = s[at(n)]
  BY <1>0, <1>1
<1>4. \A i, j \in 1 .. Len(x) : x[i] = x[j] => i = j
  <2> SUFFICES ASSUME NEW i \in 1 .. Len(s) - 1, NEW j \in 1 .. Len(s) - 1, x[i] = x[j]
               PROVE  i = j
    BY <1>1
  <2>1. at(i) = at(j)
    BY <1>3 DEF DistinctSeq
  <2> QED  BY <2>1, <1>0
<1>5. Range(x) = Range(s) \ {s[k]}
  <2>1. ASSUME NEW n \in 1 .. Len(s) - 1
        PROVE  x[n] \in Range(s) \ {s[k]}
    <3>1. s[at(n)] # s[k]
      BY <1>3 DEF DistinctSeq
    <3> QED  BY <3>1, <1>3, <1>0
  <2>2. ASSUME NEW i \in 1 .. Len(s), i # k
        PROVE  s[i] \in Range(x)
    <3>1. CASE i < k
      <4>1. i \in DOMAIN x /\ x[i] = s[i]
        BY <3>1, <1>0, <1>1, <1>2
      <4> QED  BY <4>1 DEF Range
    <3>2. CASE i > k
      <4>1. i - 1 \in DOMAIN x /\ x[i - 1] = s[i]
        BY <3>2, <1>0, <1>1, <1>2
      <4> QED  BY <4>1 DEF Range
    <3> QED  BY <2>2, <3>1, <3>2, <1>0
  <2> HIDE DEF at
  <2> QED  BY <2>1, <2>2, <1>0, <1>2 DEF Range
<1>9. t = x /\ a = s[k]
  BY DEF x
<1> QED  BY <1>9, <1>1, <1>4, <1>5 DEF DistinctSeq

(* Unlinking what was just linked in gives the list back: the Undo of Insert. *)
LEMMA RemoveUndoesInsert ==
  ASSUME NEW S, End \notin S, NEW s \in DistinctSeq(S), NEW k \in 1 .. Len(s) + 1,
         NEW a \in S, a \notin Range(s)
  PROVE  removeFromParent(insert(s, NodeAt(s, k), a), a) = s
<1> DEFINE t == insert(s, NodeAt(s, k), a)
           u == removeFromParent(t, a)
<1>0. s \in Seq(S) /\ Len(s) \in Nat
  BY ElementTyped DEF DistinctSeq
<1>1. /\ t \in DistinctSeq(S) /\ Len(t) = Len(s) + 1 /\ t[k] = a
      /\ \A j \in 1 .. Len(s) + 1 :
            t[j] = IF j < k THEN s[j] ELSE IF j = k THEN a ELSE s[j - 1]
  BY InsertFacts
<1> HIDE DEF t
<1>1a. t \in DistinctSeq(S) /\ k \in 1 .. Len(t) /\ a = t[k]
  BY <1>0, <1>1
<1>2. /\ u \in DistinctSeq(S) /\ Len(u) = Len(t) - 1
      /\ \A j \in 1 .. Len(t) - 1 : u[j] = IF j < k THEN t[j] ELSE t[j + 1]
  BY <1>1a, RemoveFacts
<1> HIDE DEF u
<1>3. u \in Seq(S) /\ Len(u) = Len(s)
  BY <1>0, <1>1, <1>2 DEF DistinctSeq
<1>4. \A j \in 1 .. Len(u) : u[j] = s[j]
  BY <1>0, <1>1, <1>2, <1>3
<1>5. u = s
  BY <1>0, <1>3, <1>4, SeqEqual
<1> QED  BY <1>5 DEF u, t

(* Linking an instruction before its old successor gives the list back: the *)
(* Undo of Delete and of Move.                                              *)
LEMMA InsertUndoesRemove ==
  ASSUME NEW S, End \notin S, NEW s \in DistinctSeq(S), NEW k \in 1 .. Len(s)
  PROVE  /\ getNextNode(s, s[k]) = NodeAt(removeFromParent(s, s[k]), k)
         /\ insert(removeFromParent(s, s[k]), getNextNode(s, s[k]), s[k]) = s
<1> DEFINE t == removeFromParent(s, s[k])
           u == insert(t, NodeAt(t, k), s[k])
<1>0. /\ s \in Seq(S) /\ Len(s) \in Nat /\ DOMAIN s = 1 .. Len(s)
      /\ s[k] \in S
  BY ElementTyped DEF DistinctSeq
<1>1. /\ t \in DistinctSeq(S) /\ Len(t) = Len(s) - 1
      /\ \A j \in 1 .. Len(s) - 1 : t[j] = IF j < k THEN s[j] ELSE s[j + 1]
  BY RemoveFacts
<1>1a. Range(t) = Range(s) \ {s[k]}
  BY RemoveFacts
<1> HIDE DEF t
<1>2. getNextNode(s, s[k]) = NodeAt(t, k)
  <2>1. getNextNode(s, s[k]) = NodeAt(s, k + 1)
    BY IndexOfElement DEF getNextNode
  <2>2. DOMAIN t = 1 .. Len(s) - 1
    BY <1>1, ElementTyped
  <2> QED  BY <2>1, <2>2, <1>0, <1>1 DEF NodeAt
<1>3. k \in 1 .. Len(t) + 1
  BY <1>0, <1>1
<1>4. /\ u \in DistinctSeq(S) /\ Len(u) = Len(t) + 1
      /\ \A j \in 1 .. Len(t) + 1 :
            u[j] = IF j < k THEN t[j] ELSE IF j = k THEN s[k] ELSE t[j - 1]
  BY <1>0, <1>1, <1>1a, <1>3, InsertFacts
<1> HIDE DEF u
<1>5. u \in Seq(S) /\ Len(u) = Len(s)
  BY <1>0, <1>1, <1>4 DEF DistinctSeq
<1>6. \A j \in 1 .. Len(u) : u[j] = s[j]
  BY <1>0, <1>1, <1>4, <1>5
<1>7. u = s
  BY <1>0, <1>5, <1>6, SeqEqual
<1> QED  BY <1>2, <1>7 DEF u, t

(* replaceInst changes one element in place. *)
LEMMA ReplaceFacts ==
  ASSUME NEW S, End \notin S, NEW s \in DistinctSeq(S), NEW k \in 1 .. Len(s),
         NEW a \in S, a \notin Range(s),
         NEW w, w = replaceInst(s, s[k], a)
  PROVE  /\ w \in DistinctSeq(S)
         /\ Len(w) = Len(s)
         /\ \A j \in 1 .. Len(s) : w[j] = IF j = k THEN a ELSE s[j]
         /\ Range(w) = (Range(s) \ {s[k]}) \union {a}
<1> DEFINE t == insert(s, s[k], a)
           u == removeFromParent(t, s[k])
<1>0. /\ s \in Seq(S) /\ Len(s) \in Nat /\ DOMAIN s = 1 .. Len(s)
      /\ \A j \in 1 .. Len(s) : s[j] \in S /\ s[j] \in Range(s)
  BY ElementTyped DEF DistinctSeq
<1>1. s[k] = NodeAt(s, k)
  BY <1>0 DEF NodeAt
<1>2. /\ t \in DistinctSeq(S) /\ Len(t) = Len(s) + 1
      /\ \A j \in 1 .. Len(s) + 1 :
            t[j] = IF j < k THEN s[j] ELSE IF j = k THEN a ELSE s[j - 1]
      /\ Range(t) = Range(s) \union {a}
  BY <1>0, <1>1, InsertFacts
<1> HIDE DEF t
<1> DEFINE k1 == k + 1
<1>3. t \in DistinctSeq(S) /\ k1 \in 1 .. Len(t) /\ s[k] = t[k1]
  BY <1>0, <1>2
<1> HIDE DEF k1
<1> DEFINE old == s[k]
<1>3a. old = t[k1] /\ u = removeFromParent(t, old)
  BY <1>3
<1> HIDE DEF old, u
<1>4. /\ u \in DistinctSeq(S) /\ Len(u) = Len(t) - 1
      /\ \A j \in 1 .. Len(t) - 1 : u[j] = IF j < k1 THEN t[j] ELSE t[j + 1]
      /\ Range(u) = Range(t) \ {old}
  BY <1>3, <1>3a, RemoveFacts
<1>9. Range(u) = Range(t) \ {s[k]}
  BY <1>4 DEF old
<1>5. u \in Seq(S) /\ Len(u) = Len(s)
  BY <1>0, <1>2, <1>4 DEF DistinctSeq
<1>6. \A j \in 1 .. Len(s) : u[j] = IF j = k THEN a ELSE s[j]
  BY <1>0, <1>2, <1>4 DEF k1
<1>8. w = u
  BY DEF replaceInst, u, t
<1> QED  BY <1>0, <1>2, <1>4, <1>5, <1>6, <1>8, <1>9

-------------------------------------------------------------------------------
(* The inductive invariant.                                                *)
Inv == TypeOK /\ BlockWellFormed /\ UndoStateValid /\ Restoration

-------------------------------------------------------------------------------
(* The block is a list of the kind the list lemmas are about.              *)
LEMMA BlockIsDistinct ==
  ASSUME TypeOK, BlockWellFormed
  PROVE  /\ block \in DistinctSeq(Addr)
         /\ block \in Seq(Addr)
         /\ NumInstrs = Len(block) /\ Len(block) \in Nat
         /\ DOMAIN block = 1 .. Len(block)
         /\ Range(block) = Block
         /\ Block \subseteq Live
         /\ \A k \in 1 .. Len(block) : block[k] \in Addr /\ block[k] \in Block
<1>1. block \in Seq(Addr) /\ DOMAIN block = 1 .. Len(block) /\ Len(block) \in Nat
  BY LenProperties DEF TypeOK
<1>2. block \in DistinctSeq(Addr)
  BY <1>1 DEF BlockWellFormed, DistinctSeq
<1> QED  BY <1>1, <1>2, ElementTyped DEF BlockWellFormed, Block

(* Conversely, a list without repetition of live instructions is well formed. *)
LEMMA DistinctIsWellFormed ==
  ASSUME block' \in DistinctSeq(Addr), NumInstrs' = Len(block'), Range(block') \subseteq Live'
  PROVE  /\ block' \in Seq(Addr)
         /\ NumInstrs' \in Nat
         /\ BlockWellFormed'
<1>1. block' \in Seq(Addr) /\ DOMAIN (block') = 1 .. Len(block') /\ Len(block') \in Nat
  BY LenProperties DEF DistinctSeq
<1> QED  BY <1>1 DEF BlockWellFormed, DistinctSeq, Block

(* What a list of live instructions says is a sequence of Instr. *)
LEMMA SaysTyped ==
  ASSUME NEW h \in [Addr -> Instr \union {Free}], NEW s \in Seq(Addr),
         \A a \in Range(s) : h[a] # Free
  PROVE  /\ Says(h, s) \in Seq(Instr)
         /\ DOMAIN Says(h, s) = DOMAIN s
         /\ Len(Says(h, s)) = Len(s)
         /\ \A i \in DOMAIN s : Says(h, s)[i] = h[s[i]]
<1>1. DOMAIN s = 1 .. Len(s) /\ Len(s) \in Nat /\ \A i \in DOMAIN s : s[i] \in Addr
  BY LenProperties, ElementOfSeq
<1>2. \A i \in DOMAIN s : h[s[i]] \in Instr
  BY <1>1 DEF Range
<1>3. Says(h, s) \in [1 .. Len(s) -> Instr]
  BY <1>1, <1>2 DEF Says
<1>4. Says(h, s) \in Seq(Instr)
  BY <1>1, <1>3, SeqDef
<1> QED  BY <1>1, <1>3, <1>4, LenProperties DEF Says

(* It depends on nothing but the instructions of the list. *)
LEMMA SaysFrame ==
  ASSUME NEW h, NEW g, NEW s, \A a \in Range(s) : h[a] = g[a]
  PROVE  Says(h, s) = Says(g, s)
BY DEF Says, Range

(* select(instr_end(), true) returns an instruction of the block, ... *)
LEMMA SelectElement ==
  ASSUME TypeOK, BlockWellFormed, NEW a \in select(End, TRUE)
  PROVE  \E k \in 1 .. Len(block) : a = block[k]
BY BlockIsDistinct DEF select, NodeAt

(* ... and select in general an iterator of the block, possibly its end. *)
LEMMA SelectIterator ==
  ASSUME TypeOK, BlockWellFormed, NEW except, NEW includeEnd \in BOOLEAN,
         NEW a \in select(except, includeEnd)
  PROVE  /\ a # except
         /\ \E k \in 1 .. Len(block) + 1 : a = NodeAt(block, k)
         /\ ~includeEnd => \E k \in 1 .. Len(block) : a = block[k]
BY BlockIsDistinct DEF select, NodeAt

(* What Settle and Propose leave, used in every step below. *)
LEMMA LiveTyped ==
  ASSUME TypeOK, BlockWellFormed
  PROVE  /\ \A a \in Live : heap[a] \in Instr
         /\ \A a \in Fresh : a \in Addr /\ heap[a] = Free /\ a \notin Block
         /\ Contents \in Seq(Instr)
<1>1. heap \in [Addr -> Instr \union {Free}] /\ block \in Seq(Addr)
  BY DEF TypeOK
<1>2. \A a \in Range(block) : heap[a] # Free
  BY BlockIsDistinct DEF Live
<1>3. Contents \in Seq(Instr)
  BY <1>1, <1>2, SaysTyped DEF Contents
<1> QED  BY <1>1, <1>3, BlockIsDistinct DEF Live, Fresh

-------------------------------------------------------------------------------
LEMMA InitInv == Init => Inv
<1> SUFFICES ASSUME Init PROVE Inv
  OBVIOUS
<1> USE InstrAssumption DEF Init
<1>1. block = <<>> /\ Len(block) = 0 /\ DOMAIN block = {} /\ block \in Seq(Addr) /\ before \in Seq(Instr)
  BY EmptySeq
<1>2. TypeOK
  BY <1>1 DEF TypeOK, Iterator
<1>3. BlockWellFormed
  BY <1>1 DEF BlockWellFormed, Block, Range
<1> QED  BY <1>2, <1>3 DEF Inv, UndoStateValid, Restoration

(* A proposal without effect.                                              *)
LEMMA ProposeNothingInv ==
  ASSUME Inv, ProposeNothing
  PROVE  Inv'
<1> USE DEF ProposeNothing, Propose, Inv
<1>1. Contents \in Seq(Instr)
  BY LiveTyped
<1>2. TypeOK'
  BY <1>1 DEF TypeOK, Kind
<1>3. BlockWellFormed'
  BY DEF BlockWellFormed, Block, Live
<1>4. UndoStateValid'
  BY DEF UndoStateValid, Replacing
<1>5. Restoration'
  <2>1. RestoredBlock' = block'
    BY DEF RestoredBlock, Replacing
  <2> QED  BY <2>1 DEF Restoration, Contents, Says
<1> QED  BY <1>2, <1>3, <1>4, <1>5

(* A mutation or a Replace: the new instruction stands where the old one   *)
(* did, the old one is alive outside the block.  A NOP is one whose new    *)
(* instruction says the same.                                              *)
LEMMA SubstituteInv ==
  ASSUME Inv, NEW old \in select(End, TRUE), NEW new \in Fresh, NEW text \in Instr,
         NEW kind \in Replacing \union {"NOP"},
         kind = "NOP" => text = heap[old],
         substitute(kind, old, new, text)
  PROVE  Inv'
<1>a. TypeOK /\ BlockWellFormed
  BY DEF Inv
<1>b. /\ pending' = TRUE /\ before' = Contents
      /\ heap' = [heap EXCEPT ![new] = text]
      /\ block' = replaceInst(block, old, new)
      /\ Old' = old /\ New' = new /\ PrevTransformation' = kind
      /\ UNCHANGED <<NumInstrs, NextLoc, Swapped1, Swapped2>>
  BY DEF substitute, Propose
<1>0. PICK k \in 1 .. Len(block) : old = block[k]
  BY <1>a, SelectElement
<1>1. /\ block \in DistinctSeq(Addr) /\ NumInstrs = Len(block) /\ Len(block) \in Nat
      /\ Range(block) = Block /\ Block \subseteq Live
      /\ old \in Addr /\ old \in Block
      /\ DOMAIN block = 1 .. Len(block) /\ block \in Seq(Addr)
  BY <1>a, <1>0, BlockIsDistinct
<1>2. new \in Addr /\ heap[new] = Free /\ new \notin Block /\ Contents \in Seq(Instr)
  BY <1>a, LiveTyped
<1>c. block' = replaceInst(block, block[k], new) /\ new \notin Range(block) /\ End \notin Addr
  BY InstrAssumption, <1>b, <1>0, <1>1, <1>2
<1>3. /\ Len(block') = Len(block)
      /\ \A j \in 1 .. Len(block) : block'[j] = IF j = k THEN new ELSE block[j]
      /\ block' \in DistinctSeq(Addr)
      /\ Range(block') = (Block \ {old}) \union {new}
  <2>1. Len(block') = Len(block) /\ \A j \in 1 .. Len(block) : block'[j] = IF j = k THEN new ELSE block[j]
    BY <1>1, <1>2, <1>c, ReplaceFacts
  <2>2. block' \in DistinctSeq(Addr)
    BY <1>1, <1>2, <1>c, ReplaceFacts
  <2>3. Range(block') = (Range(block) \ {block[k]}) \union {new}
    BY <1>1, <1>2, <1>c, ReplaceFacts
  <2> QED  BY <2>1, <2>2, <2>3, <1>0, <1>1
<1>4. DOMAIN (block') = DOMAIN block /\ block'[k] = new
  BY <1>1, <1>3, ElementTyped
<1>5. heap' \in [Addr -> Instr \union {Free}]
  BY <1>a, <1>b, <1>2 DEF TypeOK
<1>6. Live' = Live \union {new}
  <2>1. text # Free
    BY InstrAssumption
  <2> QED  BY <2>1, <1>a, <1>b, <1>2 DEF Live, TypeOK
<1>7. block' \in Seq(Addr) /\ NumInstrs' \in Nat /\ BlockWellFormed'
  BY <1>b, <1>1, <1>3, <1>4, <1>6, DistinctIsWellFormed
<1>8. TypeOK'
  BY <1>a, <1>b, <1>1, <1>2, <1>5, <1>7 DEF TypeOK, Kind, Iterator, Replacing
<1>9. UndoStateValid'
  <2>1. Block' = (Block \ {old}) \union {new}
    BY <1>3 DEF Block
  <2>2. old \in Live'
    BY <1>1, <1>6
  <2> QED  BY <2>1, <2>2, <1>b, <1>1, <1>2 DEF UndoStateValid, Replacing
<1>10. Restoration'
  <2>1. CASE kind \in Replacing
    <3>1. RestoredBlock' = replaceInst(block', new, old)
      BY <2>1, <1>b DEF RestoredBlock, Replacing
    <3>2. replaceInst(block', new, old) = block
      <4> DEFINE w == replaceInst(block', block'[k], old)
      <4>1. k \in 1 .. Len(block') /\ old \notin Range(block')
        BY <1>0, <1>1, <1>2, <1>3
      <4>2. /\ w \in DistinctSeq(Addr)
            /\ Len(w) = Len(block')
            /\ \A j \in 1 .. Len(block') : w[j] = IF j = k THEN old ELSE block'[j]
        BY <4>1, <1>c, <1>1, <1>3, ReplaceFacts
      <4>3. w = replaceInst(block', new, old)
        BY <1>4
      <4> HIDE DEF w
      <4>4. w \in Seq(Addr) /\ \A j \in 1 .. Len(w) : w[j] = block[j]
        BY <4>2, <1>0, <1>3 DEF DistinctSeq
      <4>5. w = block
        BY <4>2, <4>4, <1>1, <1>3, SeqEqual
      <4> QED  BY <4>3, <4>5
    <3>4. Says(heap', block) = Says(heap, block)
      <4>1. \A a \in Range(block) : heap'[a] = heap[a]
        BY <1>b, <1>1, <1>2 DEF Live
      <4> QED  BY <4>1, SaysFrame
    <3> QED  BY <3>1, <3>2, <3>4, <1>b DEF Restoration, Contents
  <2>2. CASE kind = "NOP"
    <3>1. RestoredBlock' = block'
      BY <2>2, <1>b DEF RestoredBlock, Replacing
    <3>2. ASSUME NEW i \in DOMAIN block
          PROVE  heap'[block'[i]] = heap[block[i]]
      <4>1. CASE i = k
        BY <4>1, <2>2, <1>a, <1>b, <1>0, <1>2, <1>4 DEF TypeOK
      <4>2. CASE i # k
        <5>1. block'[i] = block[i] /\ block[i] \in Block
          BY <4>2, <1>1, <1>3, <1>a, BlockIsDistinct
        <5> QED  BY <5>1, <1>b, <1>1, <1>2 DEF Live, TypeOK
      <4> QED  BY <4>1, <4>2
    <3>3. Says(heap', block') = Says(heap, block)
      BY <3>2, <1>4 DEF Says
    <3> QED  BY <3>1, <3>3, <1>b DEF Restoration, Contents
  <2> QED  BY <2>1, <2>2
<1> QED  BY <1>7, <1>8, <1>9, <1>10 DEF Inv

LEMMA MutateOpcodeInv == Inv /\ MutateOpcode => Inv'
<1> SUFFICES ASSUME Inv, MutateOpcode PROVE Inv'
  OBVIOUS
<1>1. CASE NumInstrs = 0 /\ ProposeNothing
  BY <1>1, ProposeNothingInv
<1>2. CASE NumInstrs # 0 /\ \E old \in select(End, TRUE), new \in Fresh :
             \E text \in OpcodeChanges[heap[old]] :
                substitute("MUT_OPCODE", old, new, text)
  <2>0. PICK old \in select(End, TRUE), new \in Fresh :
           \E text \in OpcodeChanges[heap[old]] : substitute("MUT_OPCODE", old, new, text)
    BY <1>2
  <2>1. PICK text \in OpcodeChanges[heap[old]] : substitute("MUT_OPCODE", old, new, text)
    BY <2>0
  <2>2. heap[old] \in Instr
    BY SelectElement, BlockIsDistinct, LiveTyped DEF Inv
  <2>3. text \in Instr
    BY <2>2, InstrAssumption
  <2> QED  BY <2>1, <2>3, SubstituteInv DEF Replacing
<1> QED  BY <1>1, <1>2 DEF MutateOpcode

LEMMA MutateOperandInv == Inv /\ MutateOperand => Inv'
<1> SUFFICES ASSUME Inv, MutateOperand PROVE Inv'
  OBVIOUS
<1>1. CASE NumInstrs = 0 /\ ProposeNothing
  BY <1>1, ProposeNothingInv
<1>2. CASE NumInstrs # 0 /\ ~ProposeNothing
  <2>1. PICK old \in select(End, TRUE), new \in Fresh :
             \/ /\ OperandChanges[heap[old]] = {}
                /\ substitute("NOP", old, new, heap[old])
             \/ \E text \in OperandChanges[heap[old]] :
                   substitute("MUT_OPERAND", old, new, text)
    BY <1>2 DEF MutateOperand
  <2>2. heap[old] \in Instr
    BY SelectElement, BlockIsDistinct, LiveTyped DEF Inv
  <2>3. CASE substitute("NOP", old, new, heap[old])
    BY <2>2, <2>3, SubstituteInv
  <2>4. CASE \E text \in OperandChanges[heap[old]] :
                substitute("MUT_OPERAND", old, new, text)
    <3>1. PICK text \in OperandChanges[heap[old]] :
             substitute("MUT_OPERAND", old, new, text)
      BY <2>4
    <3>2. text \in Instr
      BY <2>2, InstrAssumption
    <3> QED  BY <3>1, <3>2, SubstituteInv DEF Replacing
  <2> QED  BY <2>1, <2>3, <2>4
<1> QED  BY <1>1, <1>2, ProposeNothingInv DEF MutateOperand

LEMMA ReplaceInv == Inv /\ Replace => Inv'
<1> SUFFICES ASSUME Inv, Replace PROVE Inv'
  OBVIOUS
<1>1. CASE NumInstrs = 0 /\ ProposeNothing
  BY <1>1, ProposeNothingInv
<1>2. CASE NumInstrs # 0 /\ \E old \in select(End, TRUE), new \in Fresh, text \in Instr :
             substitute("REPLACE", old, new, text)
  BY <1>2, SubstituteInv DEF Replacing
<1> QED  BY <1>1, <1>2 DEF Replace

LEMMA InsertInv == Inv /\ Insert => Inv'
<1> SUFFICES ASSUME Inv, Insert PROVE Inv'
  OBVIOUS
<1>a. TypeOK /\ BlockWellFormed
  BY DEF Inv
<1>1. /\ block \in DistinctSeq(Addr) /\ NumInstrs = Len(block) /\ Len(block) \in Nat
      /\ Range(block) = Block /\ Block \subseteq Live
      /\ DOMAIN block = 1 .. Len(block) /\ block \in Seq(Addr)
  BY <1>a, BlockIsDistinct
<1>2. PICK new \in Fresh, text \in Instr :
         /\ heap' = [heap EXCEPT ![new] = text]
         /\ New' = new
         /\ \E loc \in IF NumInstrs = 0 THEN {End} ELSE select(End, TRUE) :
               block' = insert(block, loc, new)
  BY DEF Insert
<1>3. PICK loc \in IF NumInstrs = 0 THEN {End} ELSE select(End, TRUE) :
         block' = insert(block, loc, new)
  BY <1>2
<1>b. /\ pending' = TRUE /\ before' = Contents
      /\ NumInstrs' = NumInstrs + 1
      /\ PrevTransformation' = "INSERT"
      /\ UNCHANGED <<Old, NextLoc, Swapped1, Swapped2>>
  BY DEF Insert, Propose
<1>4. PICK k \in 1 .. Len(block) + 1 : loc = NodeAt(block, k)
  <2>1. CASE NumInstrs = 0
    BY <2>1, <1>1 DEF NodeAt
  <2>2. CASE NumInstrs # 0
    BY <2>2, <1>a, SelectIterator
  <2> QED  BY <2>1, <2>2
<1>5. new \in Addr /\ heap[new] = Free /\ new \notin Range(block) /\ Contents \in Seq(Instr)
      /\ End \notin Addr /\ text # Free
  BY <1>a, <1>1, LiveTyped, InstrAssumption
<1>6. /\ block' \in DistinctSeq(Addr) /\ Len(block') = Len(block) + 1
  BY <1>1, <1>3, <1>4, <1>5, InsertFacts
<1>7. Range(block') = Range(block) \union {new}
  BY <1>1, <1>3, <1>4, <1>5, InsertFacts
<1>8. heap' \in [Addr -> Instr \union {Free}] /\ Live' = Live \union {new}
  <2>1. heap' \in [Addr -> Instr \union {Free}]
    BY <1>a, <1>2, <1>5 DEF TypeOK
  <2> QED  BY <2>1, <1>a, <1>2, <1>5 DEF Live, TypeOK
<1>9. block' \in Seq(Addr) /\ NumInstrs' \in Nat /\ BlockWellFormed'
  BY <1>b, <1>1, <1>6, <1>7, <1>8, DistinctIsWellFormed
<1>10. TypeOK'
  BY <1>a, <1>b, <1>2, <1>5, <1>8, <1>9 DEF TypeOK, Kind, Iterator
<1>11. UndoStateValid'
  BY <1>b, <1>2, <1>7 DEF UndoStateValid, Replacing, Block
<1>12. Restoration'
  <2>1. RestoredBlock' = removeFromParent(block', new)
    BY <1>b, <1>2 DEF RestoredBlock, Replacing
  <2>2. removeFromParent(block', new) = block
    BY <1>1, <1>3, <1>4, <1>5, RemoveUndoesInsert
  <2>3. \A a \in Range(block) : heap'[a] = heap[a]
    BY <1>2, <1>5
  <2>4. Says(heap', block) = Says(heap, block)
    BY <2>3, SaysFrame
  <2> QED  BY <2>1, <2>2, <2>4, <1>b DEF Restoration, Contents
<1> QED  BY <1>9, <1>10, <1>11, <1>12 DEF Inv

LEMMA DeleteInv == Inv /\ Delete => Inv'
<1> SUFFICES ASSUME Inv, Delete PROVE Inv'
  OBVIOUS
<1>a. TypeOK /\ BlockWellFormed
  BY DEF Inv
<1>0. CASE NumInstrs = 0 /\ ProposeNothing
  BY <1>0, ProposeNothingInv
<1>1. CASE ~(NumInstrs = 0 /\ ProposeNothing)
  <2>1. /\ block \in DistinctSeq(Addr) /\ NumInstrs = Len(block) /\ Len(block) \in Nat
        /\ Range(block) = Block /\ Block \subseteq Live
        /\ DOMAIN block = 1 .. Len(block) /\ block \in Seq(Addr)
    BY <1>a, BlockIsDistinct
  <2>b. /\ pending' = TRUE /\ before' = Contents
        /\ NumInstrs' = NumInstrs - 1
        /\ PrevTransformation' = "DELETE"
        /\ UNCHANGED <<heap, Old, Swapped1, Swapped2>>
    BY <1>1 DEF Delete, Propose
  <2>2. PICK a \in select(End, TRUE) :
           /\ New' = a
           /\ NextLoc' = getNextNode(block, a)
           /\ block' = removeFromParent(block, a)
    BY <1>1 DEF Delete
  <2>3. PICK k \in 1 .. Len(block) : a = block[k]
    BY <1>a, SelectElement
  <2>4. End \notin Addr /\ a \in Addr /\ a \in Live /\ Contents \in Seq(Instr)
    BY <1>a, <2>3, BlockIsDistinct, LiveTyped, InstrAssumption
  <2>5. block' \in DistinctSeq(Addr) /\ Len(block') = Len(block) - 1
    BY <2>1, <2>2, <2>3, RemoveFacts
  <2>6. Range(block') = Range(block) \ {a}
    BY <2>1, <2>2, <2>3, RemoveFacts
  <2>7. /\ NextLoc' = NodeAt(block', k)
        /\ insert(block', NextLoc', a) = block
    BY <2>1, <2>2, <2>3, <2>4, InsertUndoesRemove
  <2>8. Live' = Live
    BY <2>b DEF Live
  <2>9. block' \in Seq(Addr) /\ NumInstrs' \in Nat /\ BlockWellFormed'
    BY <2>b, <2>1, <2>5, <2>6, <2>8, DistinctIsWellFormed
  <2>10. NextLoc' \in Range(block') \union {End}
    BY <2>5, <2>7, ElementTyped DEF NodeAt
  <2>11. TypeOK'
    <3>1. NextLoc' \in Iterator
      BY <2>5, <2>10, ElementTyped DEF Iterator
    <3> QED  BY <3>1, <1>a, <2>b, <2>2, <2>4, <2>9 DEF TypeOK, Kind, Iterator
  <2>12. UndoStateValid'
    BY <2>b, <2>2, <2>4, <2>6, <2>8, <2>10 DEF UndoStateValid, Replacing, Block
  <2>13. Restoration'
    <3>1. RestoredBlock' = insert(block', NextLoc', a)
      BY <2>b, <2>2 DEF RestoredBlock, Replacing
    <3> QED  BY <3>1, <2>7, <2>b DEF Restoration, Contents
  <2> QED  BY <2>9, <2>11, <2>12, <2>13 DEF Inv
<1> QED  BY <1>0, <1>1

LEMMA MoveInv == Inv /\ Move => Inv'
<1> SUFFICES ASSUME Inv, Move PROVE Inv'
  OBVIOUS
<1>a. TypeOK /\ BlockWellFormed
  BY DEF Inv
<1>0. CASE NumInstrs = 1 /\ ProposeNothing
  BY <1>0, ProposeNothingInv
<1>1. CASE ~(NumInstrs = 1 /\ ProposeNothing)
  <2>1. /\ block \in DistinctSeq(Addr) /\ NumInstrs = Len(block) /\ Len(block) \in Nat
        /\ Range(block) = Block /\ Block \subseteq Live
        /\ DOMAIN block = 1 .. Len(block) /\ block \in Seq(Addr)
    BY <1>a, BlockIsDistinct
  <2>b. /\ pending' = TRUE /\ before' = Contents
        /\ PrevTransformation' = "MOVE"
        /\ UNCHANGED <<heap, NumInstrs, Old, Swapped1, Swapped2>>
    BY <1>1 DEF Move, Propose
  <2>2. PICK a \in select(End, TRUE) :
           /\ NextLoc' = getNextNode(block, a)
           /\ \E loc \in select(getNextNode(block, a), TRUE) \ {a} :
                 block' = insert(removeFromParent(block, a), loc, a)
           /\ New' = a
    BY <1>1 DEF Move
  <2>c. PICK loc \in select(getNextNode(block, a), TRUE) \ {a} :
           block' = insert(removeFromParent(block, a), loc, a)
    BY <2>2
  <2>3. PICK k \in 1 .. Len(block) : a = block[k]
    BY <1>a, SelectElement
  <2>4. End \notin Addr /\ a \in Addr /\ a \in Block /\ Contents \in Seq(Instr)
    BY <1>a, <2>3, BlockIsDistinct, LiveTyped, InstrAssumption
  <2> DEFINE rest == removeFromParent(block, a)
  <2>5. rest \in DistinctSeq(Addr) /\ Len(rest) = Len(block) - 1
    BY <2>1, <2>3, RemoveFacts
  <2>6. Range(rest) = Range(block) \ {a}
    BY <2>1, <2>3, RemoveFacts
  <2>7. /\ NextLoc' = NodeAt(rest, k)
        /\ insert(rest, NextLoc', a) = block
    BY <2>1, <2>2, <2>3, <2>4, InsertUndoesRemove
  <2> HIDE DEF rest
  <2>8. PICK l \in 1 .. Len(rest) + 1 : loc = NodeAt(rest, l)
    <3>1. loc \in Range(block) \union {End} /\ loc # a
      <4>1. loc # a /\ \E m \in 1 .. Len(block) + 1 : loc = NodeAt(block, m)
        BY <1>a, SelectIterator
      <4> QED  BY <4>1, <2>1, ElementTyped DEF NodeAt
    <3>2. CASE loc = End
      BY <3>2, <2>5, ElementTyped DEF NodeAt
    <3>3. CASE loc \in Range(rest)
      <4>1. PICK l \in 1 .. Len(rest) : loc = rest[l]
        BY <3>3, <2>5, ElementHasIndex
      <4> QED  BY <4>1, <2>5, ElementTyped DEF NodeAt
    <3> QED  BY <3>1, <3>2, <3>3, <2>6
  <2>d. block' = insert(rest, loc, a) /\ a \notin Range(rest)
    BY <2>c, <2>6 DEF rest
  <2>9. block' \in DistinctSeq(Addr) /\ Len(block') = Len(rest) + 1
    BY <2>d, <2>4, <2>5, <2>8, InsertFacts
  <2>10. Range(block') = Range(rest) \union {a}
    BY <2>d, <2>4, <2>5, <2>8, InsertFacts
  <2>11. removeFromParent(block', a) = rest
    BY <2>d, <2>4, <2>5, <2>8, RemoveUndoesInsert
  <2>12. Live' = Live /\ Range(block') = Range(block)
    BY <2>b, <2>1, <2>4, <2>6, <2>10 DEF Live
  <2>13. block' \in Seq(Addr) /\ NumInstrs' \in Nat /\ BlockWellFormed'
    BY <2>b, <2>1, <2>5, <2>9, <2>12, DistinctIsWellFormed
  <2>14. NextLoc' \in Range(rest) \union {End}
    BY <2>5, <2>7, ElementTyped DEF NodeAt
  <2>15. TypeOK'
    <3>1. NextLoc' \in Iterator
      BY <2>5, <2>14, ElementTyped DEF Iterator
    <3> QED  BY <3>1, <1>a, <2>b, <2>2, <2>4, <2>13 DEF TypeOK, Kind, Iterator
  <2>16. UndoStateValid'
    BY <2>b, <2>1, <2>2, <2>4, <2>6, <2>12, <2>14 DEF UndoStateValid, Replacing, Block
  <2>17. Restoration'
    <3>1. RestoredBlock' = insert(removeFromParent(block', a), NextLoc', a)
      BY <2>b, <2>2 DEF RestoredBlock, Replacing
    <3> QED  BY <3>1, <2>7, <2>11, <2>b DEF Restoration, Contents
  <2> QED  BY <2>13, <2>15, <2>16, <2>17 DEF Inv
<1> QED  BY <1>0, <1>1

(* doSwap: the clones aa and bb of a and b, at positions i and j, stand at *)
(* j and i afterwards.                                                     *)
LEMMA DoSwapFacts ==
  ASSUME TypeOK, BlockWellFormed,
         NEW i \in 1 .. Len(block), NEW j \in 1 .. Len(block), i # j,
         NEW aa \in Fresh, NEW bb \in Fresh, doSwap(block[i], block[j], aa, bb)
  PROVE  /\ block' \in DistinctSeq(Addr)
         /\ Len(block') = Len(block)
         /\ \A n \in 1 .. Len(block) :
               block'[n] = IF n = i THEN bb ELSE IF n = j THEN aa ELSE block[n]
         /\ aa \in Range(block') /\ bb \in Range(block') /\ aa # bb
         /\ Range(block') \subseteq Live'
         /\ heap' \in [Addr -> Instr \union {Free}]
         /\ heap'[aa] = heap[block[i]] /\ heap'[bb] = heap[block[j]]
         /\ \A n \in 1 .. Len(block) : n # i /\ n # j => heap'[block[n]] = heap[block[n]]
<1> DEFINE a == block[i]
           b == block[j]
<1>1. /\ block \in DistinctSeq(Addr) /\ Len(block) \in Nat
      /\ Range(block) = Block /\ Block \subseteq Live
      /\ DOMAIN block = 1 .. Len(block) /\ block \in Seq(Addr)
      /\ \A n \in 1 .. Len(block) : block[n] \in Addr /\ block[n] \in Block
  BY BlockIsDistinct
<1>2. /\ aa # bb
      /\ heap' = [heap EXCEPT ![aa] = heap[a], ![bb] = heap[b], ![a] = Free, ![b] = Free]
      /\ block' = replaceInst(replaceInst(block, a, bb), b, aa)
  BY DEF doSwap
<1>3. /\ aa \in Addr /\ bb \in Addr /\ aa \notin Block /\ bb \notin Block
      /\ End \notin Addr /\ Free \notin Instr
  BY LiveTyped, InstrAssumption
<1>4. a # b /\ a \in Block /\ b \in Block /\ a \in Addr /\ b \in Addr
      /\ heap[a] \in Instr /\ heap[b] \in Instr
  BY <1>1, LiveTyped DEF DistinctSeq
<1> DEFINE t == replaceInst(block, a, bb)
<1>c. t = replaceInst(block, block[i], bb) /\ bb \notin Range(block)
  BY <1>1, <1>3
<1> HIDE DEF t
<1>5. /\ t \in DistinctSeq(Addr)
      /\ Len(t) = Len(block)
      /\ \A n \in 1 .. Len(block) : t[n] = IF n = i THEN bb ELSE block[n]
  BY <1>1, <1>3, <1>c, ReplaceFacts
<1>6. Range(t) = (Range(block) \ {a}) \union {bb}
  <2>1. block \in DistinctSeq(Addr) /\ bb \in Addr /\ End \notin Addr
    BY <1>1, <1>3
  <2> QED  BY <2>1, <1>c, ReplaceFacts
<1>7. t[j] = b /\ aa \notin Range(t) /\ j \in 1 .. Len(t)
  BY <1>1, <1>2, <1>3, <1>5, <1>6
<1>8. block' = replaceInst(t, t[j], aa)
  BY <1>2, <1>7 DEF t
<1>9. /\ block' \in DistinctSeq(Addr)
      /\ Len(block') = Len(t)
      /\ \A n \in 1 .. Len(t) : block'[n] = IF n = j THEN aa ELSE t[n]
  BY <1>3, <1>5, <1>7, <1>8, ReplaceFacts
<1>10. Range(block') = (Range(t) \ {t[j]}) \union {aa}
  BY <1>3, <1>5, <1>7, <1>8, ReplaceFacts
<1>11. Range(block') = (Block \ {a, b}) \union {aa, bb}
  BY <1>1, <1>2, <1>3, <1>4, <1>6, <1>7, <1>10
<1>12. heap' \in [Addr -> Instr \union {Free}]
  BY <1>2, <1>3, <1>4 DEF TypeOK
<1>13. /\ heap'[aa] = heap[a] /\ heap'[bb] = heap[b]
       /\ \A x \in Block \ {a, b} : heap'[x] = heap[x]
  <2>1. /\ aa # bb /\ aa # a /\ aa # b /\ bb # a /\ bb # b
        /\ aa \in DOMAIN heap /\ bb \in DOMAIN heap
        /\ \A x \in Block : x \in DOMAIN heap /\ x # aa /\ x # bb
    BY <1>1, <1>2, <1>3, <1>4 DEF TypeOK, Live
  <2> HIDE DEF a, b
  <2> QED  BY <1>2, <2>1
<1>14. Range(block') \subseteq Live'
  <2>1. \A x \in Range(block') : x \in Addr /\ heap'[x] # Free
    <3>1. \A x \in Block : x \in Addr /\ heap[x] # Free
      BY <1>1 DEF Live
    <3> HIDE DEF a, b
    <3> QED  BY <3>1, <1>3, <1>4, <1>11, <1>13
  <2> QED  BY <2>1 DEF Live
<1>15. \A n \in 1 .. Len(block) : n # i /\ n # j => block[n] \in Block \ {a, b}
  BY <1>1 DEF DistinctSeq
<1>16. \A n \in 1 .. Len(block) :
          block'[n] = IF n = i THEN bb ELSE IF n = j THEN aa ELSE block[n]
  BY <1>5, <1>9
<1> QED  BY <1>2, <1>5, <1>9, <1>11, <1>12, <1>13, <1>14, <1>15, <1>16

LEMMA SwapInv == Inv /\ Swap => Inv'
<1> SUFFICES ASSUME Inv, Swap PROVE Inv'
  OBVIOUS
<1>a. TypeOK /\ BlockWellFormed
  BY DEF Inv
<1>0. CASE NumInstrs < 2 /\ ProposeNothing
  BY <1>0, ProposeNothingInv
<1>1. CASE ~(NumInstrs < 2 /\ ProposeNothing)
  <2>1. /\ block \in DistinctSeq(Addr) /\ NumInstrs = Len(block) /\ Len(block) \in Nat
        /\ DOMAIN block = 1 .. Len(block)
    BY <1>a, BlockIsDistinct
  <2>b. /\ pending' = TRUE /\ before' = Contents
        /\ PrevTransformation' = "SWAP"
        /\ UNCHANGED <<NumInstrs, Old, New, NextLoc>>
    BY <1>1 DEF Swap, Propose
  <2>2. PICK a \in select(End, TRUE) : \E b \in select(a, FALSE), aa, bb \in Fresh :
           doSwap(a, b, aa, bb)
    BY <1>1 DEF Swap
  <2>3. PICK b \in select(a, FALSE), aa \in Fresh, bb \in Fresh : doSwap(a, b, aa, bb)
    BY <2>2
  <2>4. PICK i \in 1 .. Len(block) : a = block[i]
    BY <1>a, SelectElement
  <2>5. PICK j \in 1 .. Len(block) : b = block[j] /\ i # j
    <3>1. b # a /\ \E j \in 1 .. Len(block) : b = block[j]
      BY <1>a, SelectIterator
    <3> QED  BY <3>1, <2>4
  <2>6. doSwap(block[i], block[j], aa, bb)
    BY <2>3, <2>4, <2>5
  <2>7. /\ block' \in DistinctSeq(Addr)
        /\ Len(block') = Len(block)
        /\ \A n \in 1 .. Len(block) :
              block'[n] = IF n = i THEN bb ELSE IF n = j THEN aa ELSE block[n]
        /\ aa \in Range(block') /\ bb \in Range(block') /\ aa # bb
        /\ Range(block') \subseteq Live'
        /\ heap' \in [Addr -> Instr \union {Free}]
        /\ heap'[aa] = heap[block[i]] /\ heap'[bb] = heap[block[j]]
        /\ \A n \in 1 .. Len(block) : n # i /\ n # j => heap'[block[n]] = heap[block[n]]
    BY <1>a, <2>5, <2>6, DoSwapFacts
  <2>8. block' \in Seq(Addr) /\ NumInstrs' \in Nat /\ BlockWellFormed'
    BY <2>b, <2>1, <2>7, DistinctIsWellFormed
  <2>9. Swapped1' = aa /\ Swapped2' = bb
    BY <2>3 DEF doSwap
  <2>10. aa \in Addr /\ bb \in Addr /\ Contents \in Seq(Instr)
    BY <1>a, LiveTyped
  <2>11. TypeOK'
    BY <1>a, <2>b, <2>7, <2>8, <2>9, <2>10 DEF TypeOK, Kind, Iterator
  <2>12. UndoStateValid'
    BY <2>b, <2>7, <2>9 DEF UndoStateValid, Replacing, Block
  <2>13. Restoration'
    <3>1. DOMAIN (block') = 1 .. Len(block)
      BY <2>7, ElementTyped
    <3>2. RestoredBlock' = [n \in 1 .. Len(block) |->
                              IF block'[n] = aa THEN bb
                              ELSE IF block'[n] = bb THEN aa ELSE block'[n]]
      BY <3>1, <2>b, <2>9 DEF RestoredBlock, Replacing
    <3>3. ASSUME NEW n \in 1 .. Len(block)
          PROVE  heap'[RestoredBlock'[n]] = heap[block[n]]
      <4>1. CASE n = i
        BY <4>1, <3>2, <2>5, <2>7
      <4>2. CASE n = j
        BY <4>2, <3>2, <2>5, <2>7
      <4>3. CASE n # i /\ n # j
        <5>1. block'[n] = block[n] /\ block[n] # aa /\ block[n] # bb
          BY <4>3, <2>7, <1>a, LiveTyped, BlockIsDistinct
        <5>2. RestoredBlock'[n] = block[n]
          BY <5>1, <3>2
        <5> QED  BY <5>2, <4>3, <2>7
      <4> QED  BY <4>1, <4>2, <4>3
    <3>4. DOMAIN (RestoredBlock') = 1 .. Len(block)
      BY <3>2
    <3>5. Says(heap', RestoredBlock') = Says(heap, block)
      BY <3>3, <3>4, <2>1 DEF Says
    <3> QED  BY <3>5, <2>b DEF Restoration, Contents
  <2> QED  BY <2>8, <2>11, <2>12, <2>13 DEF Inv
<1> QED  BY <1>0, <1>1

-------------------------------------------------------------------------------
LEMMA AcceptInv == Inv /\ Accept => Inv' /\ Contents' = Contents
<1> SUFFICES ASSUME Inv, Accept PROVE Inv' /\ Contents' = Contents
  OBVIOUS
<1>a. TypeOK /\ BlockWellFormed /\ UndoStateValid
  BY DEF Inv
<1>b. /\ pending /\ pending' = FALSE
      /\ UNCHANGED <<PrevTransformation, Old, New, NextLoc, before>>
      /\ UNCHANGED <<block, NumInstrs, Swapped1, Swapped2>>
  BY DEF Accept, Settle
<1>1. /\ block \in DistinctSeq(Addr) /\ NumInstrs = Len(block)
      /\ Range(block) = Block /\ Block \subseteq Live
  BY <1>a, BlockIsDistinct
<1>2. /\ heap' \in [Addr -> Instr \union {Free}]
      /\ \A a \in Block : heap'[a] = heap[a]
  <2>1. CASE PrevTransformation \in Replacing
    <3>1. heap' = [heap EXCEPT ![Old] = Free] /\ Old \notin Block
      BY <2>1, <1>a, <1>b DEF Accept, UndoStateValid
    <3> QED  BY <3>1, <1>a, <1>1 DEF TypeOK, Live
  <2>2. CASE PrevTransformation = "DELETE"
    <3>1. heap' = [heap EXCEPT ![New] = Free] /\ New \notin Block
      BY <2>2, <1>a, <1>b DEF Accept, UndoStateValid, Replacing
    <3> QED  BY <3>1, <1>a, <1>1 DEF TypeOK, Live
  <2>3. CASE PrevTransformation \notin Replacing \union {"DELETE"}
    <3>1. heap' = heap
      BY <2>3 DEF Accept
    <3> QED  BY <3>1, <1>a, <1>1 DEF TypeOK, Live
  <2> QED  BY <2>1, <2>2, <2>3
<1>3. Contents' = Contents
  <2>1. Says(heap', block) = Says(heap, block)
    BY <1>1, <1>2, SaysFrame
  <2> QED  BY <2>1, <1>b DEF Contents
<1>4. Range(block') \subseteq Live'
  <2>1. \A a \in Block : a \in Addr /\ heap'[a] # Free
    BY <1>1, <1>2 DEF Live
  <2> QED  BY <2>1, <1>b, <1>1 DEF Live
<1>5. BlockWellFormed'
  BY <1>b, <1>1, <1>4, DistinctIsWellFormed
<1>6. TypeOK'
  BY <1>a, <1>b, <1>2 DEF TypeOK
<1>7. UndoStateValid' /\ Restoration'
  BY <1>b DEF UndoStateValid, Restoration
<1> QED  BY <1>3, <1>5, <1>6, <1>7 DEF Inv

(* An Undo that links the restored list and leaves its instructions alone. *)
LEMMA RestoredInv ==
  ASSUME Inv, Settle, UNCHANGED <<Swapped1, Swapped2>>,
         block' = RestoredBlock, block' \in DistinctSeq(Addr), NumInstrs' = Len(block'),
         Range(block') \subseteq Live,
         heap' \in [Addr -> Instr \union {Free}],
         \A a \in Range(block') : heap'[a] = heap[a]
  PROVE  Inv' /\ Contents' = before
<1>a. TypeOK /\ pending /\ Restoration
  BY DEF Inv, Settle
<1>b. /\ pending' = FALSE
      /\ UNCHANGED <<PrevTransformation, Old, New, NextLoc, before>>
  BY DEF Settle
<1>1. Contents' = before
  <2>1. Says(heap', block') = Says(heap, block')
    BY SaysFrame
  <2> QED  BY <2>1, <1>a DEF Contents, Restoration
<1>2. Range(block') \subseteq Live'
  BY DEF Live
<1>3. block' \in Seq(Addr) /\ NumInstrs' \in Nat /\ BlockWellFormed'
  BY <1>2, DistinctIsWellFormed
<1>4. TypeOK'
  BY <1>a, <1>b, <1>3 DEF TypeOK
<1>5. UndoStateValid' /\ Restoration'
  BY <1>b DEF UndoStateValid, Restoration
<1> QED  BY <1>1, <1>3, <1>4, <1>5 DEF Inv

LEMMA UndoNothingInv ==
  ASSUME Inv, Settle, UndoNothing
  PROVE  Inv' /\ Contents' = before
<1>1. /\ block \in DistinctSeq(Addr) /\ NumInstrs = Len(block)
      /\ Range(block) = Block /\ Block \subseteq Live
  BY BlockIsDistinct DEF Inv
<1>2. RestoredBlock = block /\ UNCHANGED <<block, heap, NumInstrs, Swapped1, Swapped2>>
  BY DEF UndoNothing, RestoredBlock, Replacing
<1>3. heap' \in [Addr -> Instr \union {Free}]
  BY <1>2 DEF Inv, TypeOK
<1> QED  BY <1>1, <1>2, <1>3, RestoredInv

LEMMA UndoReplacingInv ==
  ASSUME Inv, Settle, UndoReplacing
  PROVE  Inv' /\ Contents' = before
<1>a. TypeOK /\ BlockWellFormed /\ UndoStateValid /\ pending /\ PrevTransformation \in Replacing
  BY DEF Inv, Settle, UndoReplacing
<1>b. /\ block' = replaceInst(block, New, Old)
      /\ heap' = [heap EXCEPT ![New] = Free]
      /\ UNCHANGED <<NumInstrs, Swapped1, Swapped2>>
  BY DEF UndoReplacing
<1>1. /\ block \in DistinctSeq(Addr) /\ NumInstrs = Len(block)
      /\ Range(block) = Block /\ Block \subseteq Live
  BY <1>a, BlockIsDistinct
<1>2. New \in Block /\ Old \in Live \ Block /\ Old \in Addr /\ End \notin Addr
  BY <1>a, InstrAssumption DEF UndoStateValid, Live
<1>3. PICK k \in 1 .. Len(block) : New = block[k]
  BY <1>1, <1>2, ElementHasIndex
<1>c. block' = replaceInst(block, block[k], Old) /\ Old \notin Range(block)
  BY <1>b, <1>1, <1>2, <1>3
<1>4. block' \in DistinctSeq(Addr) /\ Len(block') = Len(block)
  BY <1>1, <1>2, <1>c, ReplaceFacts
<1>5. Range(block') = (Range(block) \ {block[k]}) \union {Old}
  BY <1>1, <1>2, <1>c, ReplaceFacts
<1>6. /\ Range(block') \subseteq Live
      /\ New \notin Range(block')
  BY <1>1, <1>2, <1>3, <1>5
<1>7. /\ heap' \in [Addr -> Instr \union {Free}]
      /\ \A a \in Range(block') : heap'[a] = heap[a]
  BY <1>a, <1>b, <1>6 DEF TypeOK, Live
<1>8. RestoredBlock = block'
  BY <1>a, <1>b DEF RestoredBlock, Replacing
<1> QED  BY <1>b, <1>1, <1>4, <1>6, <1>7, <1>8, RestoredInv

LEMMA UndoInsertInv ==
  ASSUME Inv, Settle, UndoInsert
  PROVE  Inv' /\ Contents' = before
<1>a. TypeOK /\ BlockWellFormed /\ UndoStateValid /\ pending /\ PrevTransformation = "INSERT"
  BY DEF Inv, Settle, UndoInsert
<1>b. /\ block' = removeFromParent(block, New)
      /\ heap' = [heap EXCEPT ![New] = Free]
      /\ NumInstrs' = NumInstrs - 1
      /\ UNCHANGED <<Swapped1, Swapped2>>
  BY DEF UndoInsert
<1>1. /\ block \in DistinctSeq(Addr) /\ NumInstrs = Len(block)
      /\ Range(block) = Block /\ Block \subseteq Live
  BY <1>a, BlockIsDistinct
<1>2. New \in Range(block)
  BY <1>a, <1>1 DEF UndoStateValid
<1>3. PICK k \in 1 .. Len(block) : New = block[k]
  BY <1>1, <1>2, ElementHasIndex
<1>4. block' \in DistinctSeq(Addr) /\ Len(block') = Len(block) - 1
  BY <1>b, <1>1, <1>3, RemoveFacts
<1>5. Range(block') = Range(block) \ {New}
  BY <1>b, <1>1, <1>3, RemoveFacts
<1>6. Range(block') \subseteq Live
  BY <1>1, <1>5
<1>7. /\ heap' \in [Addr -> Instr \union {Free}]
      /\ \A a \in Range(block') : heap'[a] = heap[a]
  BY <1>a, <1>b, <1>5, <1>6 DEF TypeOK, Live
<1>8. RestoredBlock = block'
  BY <1>a, <1>b DEF RestoredBlock, Replacing
<1> QED  BY <1>b, <1>1, <1>4, <1>6, <1>7, <1>8, RestoredInv

LEMMA UndoMoveInv ==
  ASSUME Inv, Settle, UndoMove
  PROVE  Inv' /\ Contents' = before
<1>a. TypeOK /\ BlockWellFormed /\ UndoStateValid /\ pending /\ PrevTransformation = "MOVE"
  BY DEF Inv, Settle, UndoMove
<1>b. /\ block' = insert(removeFromParent(block, New), NextLoc, New)
      /\ UNCHANGED <<heap, NumInstrs, Swapped1, Swapped2>>
  BY DEF UndoMove
<1>1. /\ block \in DistinctSeq(Addr) /\ NumInstrs = Len(block) /\ Len(block) \in Nat
      /\ Range(block) = Block /\ Block \subseteq Live
  BY <1>a, BlockIsDistinct
<1>2. New \in Range(block) /\ NextLoc \in (Range(block) \ {New}) \union {End}
      /\ New \in Addr /\ End \notin Addr
  BY <1>a, <1>1, InstrAssumption DEF UndoStateValid, Live, Replacing
<1>3. PICK k \in 1 .. Len(block) : New = block[k]
  BY <1>1, <1>2, ElementHasIndex
<1> DEFINE rest == removeFromParent(block, New)
<1>4. rest \in DistinctSeq(Addr) /\ Len(rest) = Len(block) - 1
  BY <1>1, <1>3, RemoveFacts
<1>5. Range(rest) = Range(block) \ {New}
  BY <1>1, <1>3, RemoveFacts
<1>c. block' = insert(rest, NextLoc, New)
  BY <1>b
<1> HIDE DEF rest
<1>6. PICK l \in 1 .. Len(rest) + 1 : NextLoc = NodeAt(rest, l)
  <2>1. CASE NextLoc = End
    BY <2>1, <1>4, ElementTyped DEF NodeAt
  <2>2. CASE NextLoc \in Range(rest)
    <3>1. PICK l \in 1 .. Len(rest) : NextLoc = rest[l]
      BY <2>2, <1>4, ElementHasIndex
    <3> QED  BY <3>1, <1>4, ElementTyped DEF NodeAt
  <2> QED  BY <2>1, <2>2, <1>2, <1>5
<1>7. New \notin Range(rest)
  BY <1>5
<1>8. block' \in DistinctSeq(Addr) /\ Len(block') = Len(rest) + 1
  BY <1>c, <1>2, <1>4, <1>6, <1>7, InsertFacts
<1>9. Range(block') = Range(rest) \union {New}
  BY <1>c, <1>2, <1>4, <1>6, <1>7, InsertFacts
<1>10. Range(block') \subseteq Live /\ Len(block') = NumInstrs'
  BY <1>b, <1>1, <1>2, <1>4, <1>5, <1>8, <1>9
<1>11. RestoredBlock = block'
  BY <1>a, <1>b DEF RestoredBlock, Replacing
<1>12. heap' \in [Addr -> Instr \union {Free}] /\ heap' = heap
  BY <1>a, <1>b DEF TypeOK
<1> QED  BY <1>b, <1>8, <1>10, <1>11, <1>12, RestoredInv

LEMMA UndoDeleteInv ==
  ASSUME Inv, Settle, UndoDelete
  PROVE  Inv' /\ Contents' = before
<1>a. TypeOK /\ BlockWellFormed /\ UndoStateValid /\ pending /\ PrevTransformation = "DELETE"
  BY DEF Inv, Settle, UndoDelete
<1>b. /\ block' = insert(block, NextLoc, New)
      /\ NumInstrs' = NumInstrs + 1
      /\ UNCHANGED <<heap, Swapped1, Swapped2>>
  BY DEF UndoDelete
<1>1. /\ block \in DistinctSeq(Addr) /\ NumInstrs = Len(block) /\ Len(block) \in Nat
      /\ Range(block) = Block /\ Block \subseteq Live
  BY <1>a, BlockIsDistinct
<1>2. New \in Live /\ New \notin Range(block) /\ NextLoc \in Range(block) \union {End}
      /\ New \in Addr /\ End \notin Addr
  BY <1>a, <1>1, InstrAssumption DEF UndoStateValid, Live, Replacing
<1>6. PICK l \in 1 .. Len(block) + 1 : NextLoc = NodeAt(block, l)
  <2>1. CASE NextLoc = End
    <3>1. Len(block) + 1 \notin DOMAIN block /\ Len(block) + 1 \in 1 .. Len(block) + 1
      BY <1>1, ElementTyped
    <3> QED  BY <2>1, <3>1 DEF NodeAt
  <2>2. CASE NextLoc \in Range(block)
    <3>1. PICK l \in 1 .. Len(block) : NextLoc = block[l]
      BY <2>2, <1>1, ElementHasIndex
    <3> QED  BY <3>1, <1>1, ElementTyped DEF NodeAt
  <2> QED  BY <2>1, <2>2, <1>2
<1>8. block' \in DistinctSeq(Addr) /\ Len(block') = Len(block) + 1
  BY <1>b, <1>1, <1>2, <1>6, InsertFacts
<1>9. Range(block') = Range(block) \union {New}
  BY <1>b, <1>1, <1>2, <1>6, InsertFacts
<1>10. Range(block') \subseteq Live /\ Len(block') = NumInstrs'
  BY <1>b, <1>1, <1>2, <1>8, <1>9
<1>11. RestoredBlock = block'
  BY <1>a, <1>b DEF RestoredBlock, Replacing
<1>12. heap' \in [Addr -> Instr \union {Free}] /\ heap' = heap
  BY <1>a, <1>b DEF TypeOK
<1> QED  BY <1>b, <1>8, <1>10, <1>11, <1>12, RestoredInv

LEMMA UndoSwapInv ==
  ASSUME Inv, Settle, UndoSwap
  PROVE  Inv' /\ Contents' = before
<1>a. TypeOK /\ BlockWellFormed /\ UndoStateValid /\ pending /\ PrevTransformation = "SWAP"
      /\ Restoration
  BY DEF Inv, Settle, UndoSwap
<1>b. /\ pending' = FALSE /\ UNCHANGED NumInstrs
      /\ UNCHANGED <<PrevTransformation, Old, New, NextLoc, before>>
  BY DEF Settle, UndoSwap
<1>1. /\ block \in DistinctSeq(Addr) /\ NumInstrs = Len(block) /\ Len(block) \in Nat
      /\ Range(block) = Block /\ DOMAIN block = 1 .. Len(block)
  BY <1>a, BlockIsDistinct
<1>2. Swapped1 \in Range(block) /\ Swapped2 \in Range(block) /\ Swapped1 # Swapped2
  BY <1>a, <1>1 DEF UndoStateValid, Replacing
<1>3. PICK i \in 1 .. Len(block) : Swapped1 = block[i]
  BY <1>1, <1>2, ElementHasIndex
<1>4. PICK j \in 1 .. Len(block) : Swapped2 = block[j]
  BY <1>1, <1>2, ElementHasIndex
<1>5. PICK aa \in Fresh, bb \in Fresh : doSwap(Swapped1, Swapped2, aa, bb)
  BY DEF UndoSwap
<1>6. i # j /\ doSwap(block[i], block[j], aa, bb)
  BY <1>2, <1>3, <1>4, <1>5
<1>7. /\ block' \in DistinctSeq(Addr)
      /\ Len(block') = Len(block)
      /\ \A n \in 1 .. Len(block) :
            block'[n] = IF n = i THEN bb ELSE IF n = j THEN aa ELSE block[n]
      /\ aa \in Range(block') /\ bb \in Range(block') /\ aa # bb
      /\ Range(block') \subseteq Live'
      /\ heap' \in [Addr -> Instr \union {Free}]
      /\ heap'[aa] = heap[block[i]] /\ heap'[bb] = heap[block[j]]
      /\ \A n \in 1 .. Len(block) : n # i /\ n # j => heap'[block[n]] = heap[block[n]]
  BY <1>a, <1>6, DoSwapFacts
<1>8. block' \in Seq(Addr) /\ NumInstrs' \in Nat /\ BlockWellFormed'
  BY <1>b, <1>1, <1>7, DistinctIsWellFormed
<1>9. TypeOK'
  <2>1. Swapped1' = aa /\ Swapped2' = bb /\ aa \in Addr /\ bb \in Addr
    BY <1>a, <1>5, LiveTyped DEF doSwap
  <2> QED  BY <2>1, <1>a, <1>b, <1>7, <1>8 DEF TypeOK, Iterator
<1>10. UndoStateValid' /\ Restoration'
  BY <1>b DEF UndoStateValid, Restoration
<1>11. Contents' = before
  <2>1. RestoredBlock = [n \in 1 .. Len(block) |->
                           IF block[n] = Swapped1 THEN Swapped2
                           ELSE IF block[n] = Swapped2 THEN Swapped1 ELSE block[n]]
    BY <1>a, <1>1 DEF RestoredBlock, Replacing
  <2>2. DOMAIN RestoredBlock = 1 .. Len(block) /\ DOMAIN (block') = 1 .. Len(block)
    BY <2>1, <1>7, ElementTyped
  <2>3. ASSUME NEW n \in 1 .. Len(block)
        PROVE  heap'[block'[n]] = heap[RestoredBlock[n]]
    <3>1. CASE n = i
      BY <3>1, <2>1, <1>3, <1>4, <1>6, <1>7
    <3>2. CASE n = j
      BY <3>2, <2>1, <1>2, <1>3, <1>4, <1>6, <1>7
    <3>3. CASE n # i /\ n # j
      <4>1. block[n] # Swapped1 /\ block[n] # Swapped2
        BY <3>3, <1>1, <1>3, <1>4 DEF DistinctSeq
      <4>2. RestoredBlock[n] = block[n]
        BY <4>1, <2>1
      <4> QED  BY <4>2, <3>3, <1>7
    <3> QED  BY <3>1, <3>2, <3>3
  <2>4. Says(heap', block') = Says(heap, RestoredBlock)
    BY <2>2, <2>3 DEF Says
  <2> QED  BY <2>4, <1>a DEF Contents, Restoration
<1> QED  BY <1>8, <1>9, <1>10, <1>11 DEF Inv

LEMMA UndoInv == Inv /\ Undo => Inv' /\ Contents' = before
<1> SUFFICES ASSUME Inv, Undo PROVE Inv' /\ Contents' = before
  OBVIOUS
<1>1. Settle
  BY DEF Undo
<1> QED
  BY <1>1, UndoNothingInv, UndoReplacingInv, UndoInsertInv, UndoSwapInv, UndoMoveInv,
     UndoDeleteInv DEF Undo

LEMMA StutterInv == Inv /\ UNCHANGED vars => Inv'
<1> SUFFICES ASSUME Inv, UNCHANGED vars PROVE Inv'
  OBVIOUS
<1> USE DEF vars, undoState
<1>1. TypeOK'
  BY DEF Inv, TypeOK
<1>2. BlockWellFormed'
  BY DEF Inv, BlockWellFormed, Block, Live
<1>3. UndoStateValid'
  BY DEF Inv, UndoStateValid, Block, Live
<1>4. Restoration'
  <2>1. RestoredBlock' = RestoredBlock
    BY DEF RestoredBlock
  <2> QED  BY <2>1 DEF Inv, Restoration, Says
<1> QED  BY <1>1, <1>2, <1>3, <1>4 DEF Inv

LEMMA MutateInv == Inv /\ Mutate => Inv'
BY MutateOpcodeInv, MutateOperandInv, ReplaceInv, SwapInv, MoveInv, InsertInv, DeleteInv
   DEF Mutate

LEMMA NextInv == Inv /\ [Next]_vars => Inv'
BY MutateInv, AcceptInv, UndoInv, StutterInv DEF Next

(* Every behaviour of the class keeps the inductive invariant. *)
THEOREM Invariance == Spec => []Inv
<1> QED  BY InitInv, NextInv, PTL DEF Spec

(* The undo state and the heap are well typed in every reachable state. *)
THEOREM TypeCorrect == Spec => []TypeOK
<1>1. Inv => TypeOK
  BY DEF Inv
<1> QED  BY <1>1, Invariance, PTL

(* NumInstrs is the length of the block, and the block holds live           *)
(* instructions, each once, after any sequence of edits, undos and accepts. *)
THEOREM BlockAlwaysWellFormed == Spec => []BlockWellFormed
<1>1. Inv => BlockWellFormed
  BY DEF Inv
<1> QED  BY <1>1, Invariance, PTL

(* Undo and Accept never touch an instruction that is deleted or that is   *)
(* not where they expect it.                                               *)
THEOREM UndoStateAlwaysValid == Spec => []UndoStateValid
<1>1. Inv => UndoStateValid
  BY DEF Inv
<1> QED  BY <1>1, Invariance, PTL

(* The undo state always describes the rewrite to go back to, whatever has *)
(* been cloned, deleted and recycled since.                                *)
THEOREM RestorationAlwaysPossible == Spec => []Restoration
<1>1. Inv => Restoration
  BY DEF Inv
<1> QED  BY <1>1, Invariance, PTL

(* Whatever select and Move draw first, there is something left to draw.   *)
THEOREM SelectAlwaysTerminates == Spec => []SelectTerminates
<1>1. Inv => SelectTerminates
  <2> SUFFICES ASSUME Inv, NumInstrs >= 2, NEW a \in select(End, TRUE)
               PROVE  select(a, FALSE) # {} /\ select(getNextNode(block, a), TRUE) \ {a} # {}
    BY DEF SelectTerminates
  <2>1. /\ NumInstrs = Len(block) /\ Len(block) \in Nat /\ block \in DistinctSeq(Addr)
        /\ DOMAIN block = 1 .. Len(block) /\ \A k \in 1 .. Len(block) : block[k] # End
    BY BlockIsDistinct, InstrAssumption DEF Inv
  <2>2. PICK k \in 1 .. Len(block) : a = block[k]
    BY SelectElement DEF Inv
  <2>3. getNextNode(block, a) = NodeAt(block, k + 1)
    BY <2>1, <2>2, IndexOfElement DEF getNextNode
  <2>4. PICK j \in 1 .. Len(block) : j # k /\ block[j] # a
    <3>1. 1 \in 1 .. Len(block) /\ 2 \in 1 .. Len(block)
      BY <2>1
    <3> QED  BY <2>1, <2>2, <3>1 DEF DistinctSeq
  <2>5. NodeAt(block, j) = block[j] /\ NodeAt(block, Len(block) + 1) = End
    BY <2>1, <2>4 DEF NodeAt
  <2>6. block[j] \in select(a, FALSE)
    BY <2>1, <2>4, <2>5 DEF select
  <2>7. CASE k = Len(block)
    <3>1. getNextNode(block, a) = End
      BY <2>3, <2>5, <2>7
    <3>2. block[j] \in select(End, TRUE) /\ block[j] # End
      BY <2>1, <2>4, <2>5 DEF select
    <3> QED  BY <2>4, <2>6, <3>1, <3>2
  <2>8. CASE k # Len(block)
    <3>1. getNextNode(block, a) # End
      BY <2>1, <2>3, <2>8 DEF NodeAt
    <3>2. End \in select(getNextNode(block, a), TRUE) \ {a}
      <4>1. Len(block) + 1 \in 1 .. (IF TRUE THEN NumInstrs + 1 ELSE NumInstrs)
        BY <2>1
      <4>2. a # End
        BY <2>1, <2>2
      <4> QED  BY <2>5, <3>1, <4>1, <4>2 DEF select
    <3> QED  BY <2>6, <3>2
  <2> QED  BY <2>7, <2>8
<1> QED  BY <1>1, Invariance, PTL

(* Undo gives back what the block said before the proposal.                *)
THEOREM UndoAlwaysRestores == Spec => UndoRestores
<1>1. Inv /\ [Next]_vars => [Undo => Contents' = before]_vars
  BY UndoInv
<1> QED  BY <1>1, Invariance, PTL DEF Spec, UndoRestores

(* What the block says is always a rewrite.                                *)
LEMMA ContentsTyped == Inv => Contents \in Seq(Instr)
BY LiveTyped DEF Inv

LEMMA MutateProposes == Mutate => Propose
BY DEF Mutate, MutateOpcode, MutateOperand, Replace, Swap, Move, Insert, Delete,
       ProposeNothing, substitute

(* The class implements its contract: in terms of what the block says, a    *)
(* proposal changes the rewrite in some way, Undo takes it back, Accept    *)
(* leaves it, and nothing else happens.                                    *)
THEOREM ContractImplemented == Spec => ImplementsContract
<1> DEFINE Typed == Contents \in Seq(Instr)
<1>1. Init => Contract!Init
  <2> SUFFICES ASSUME Init PROVE Contract!Init
    OBVIOUS
  <2>1. Contents \in Seq(Instr)
    BY InitInv, ContentsTyped
  <2>2. Contents = <<>>
    BY DEF Init, Contents, Says
  <2> QED  BY <2>1, <2>2 DEF Init, Contract!Init
<1>2. Inv /\ [Next]_vars /\ Typed' => [Contract!Next]_(Contract!vars)
  <2> SUFFICES ASSUME Inv, [Next]_vars, Typed'
               PROVE  [Contract!Next]_(Contract!vars)
    OBVIOUS
  <2>1. CASE Mutate
    <3>1. Propose
      BY <2>1, MutateProposes
    <3> QED  BY <3>1 DEF Propose, Contract!Next, Contract!Propose
  <2>2. CASE Accept
    <3>1. Contents' = Contents
      BY <2>2, AcceptInv
    <3> QED  BY <2>2, <3>1 DEF Accept, Settle, Contract!Next, Contract!Accept
  <2>3. CASE Undo
    <3>1. Contents' = before
      BY <2>3, UndoInv
    <3> QED  BY <2>3, <3>1 DEF Undo, Settle, Contract!Next, Contract!Undo
  <2>4. CASE UNCHANGED vars
    BY <2>4 DEF vars, Contents, Says, Contract!vars
  <2> QED  BY <2>1, <2>2, <2>3, <2>4 DEF Next
<1>3. Inv => Typed
  BY ContentsTyped
<1> HIDE DEF Typed
<1> QED
  BY <1>1, <1>2, <1>3, Invariance, PTL DEF Spec, ImplementsContract, Contract!Spec

-------------------------------------------------------------------------------
(***************************************************************************)
(* NoLeak for every set of addresses, instructions and mutations.          *)
(*                                                                         *)
(* While a proposal is open an instruction may be alive outside the block; *)
(* the invariant says that it is then the one the undo state names, which  *)
(* Accept deletes and Undo links again, or one without operands.           *)
(***************************************************************************)
(* What the open proposal has unlinked and not deleted. *)
SetAside(a) ==
    /\ pending
    /\ \/ PrevTransformation \in Replacing /\ a = Old
       \/ PrevTransformation = "DELETE" /\ a = New

LeakInv == \A a \in Live \ Block : OperandChanges[heap[a]] = {} \/ SetAside(a)

-------------------------------------------------------------------------------
(* The elements of a list after each of the list's operations.             *)
LEMMA ReplaceElements ==
  ASSUME NEW s \in DistinctSeq(Addr), NEW old \in Range(s), NEW new \in Addr \ Range(s)
  PROVE  /\ replaceInst(s, old, new) \in DistinctSeq(Addr)
         /\ Range(replaceInst(s, old, new)) = (Range(s) \ {old}) \union {new}
<1>1. PICK k \in 1 .. Len(s) : old = s[k]
  BY ElementHasIndex
<1> DEFINE w == replaceInst(s, s[k], new)
<1>2. w \in DistinctSeq(Addr)
  BY ReplaceFacts, InstrAssumption
<1>3. Range(w) = (Range(s) \ {s[k]}) \union {new}
  BY ReplaceFacts, InstrAssumption
<1> QED  BY <1>1, <1>2, <1>3

LEMMA RemoveElements ==
  ASSUME NEW s \in DistinctSeq(Addr), NEW a \in Range(s)
  PROVE  /\ removeFromParent(s, a) \in DistinctSeq(Addr)
         /\ Range(removeFromParent(s, a)) = Range(s) \ {a}
<1>1. PICK k \in 1 .. Len(s) : a = s[k]
  BY ElementHasIndex
<1> DEFINE t == removeFromParent(s, a)
<1>2. t \in DistinctSeq(Addr)
  BY <1>1, RemoveFacts
<1>3. Range(t) = Range(s) \ {a}
  BY <1>1, RemoveFacts
<1> QED  BY <1>2, <1>3

LEMMA InsertElements ==
  ASSUME NEW s \in DistinctSeq(Addr), NEW loc \in Range(s) \union {End},
         NEW a \in Addr \ Range(s)
  PROVE  Range(insert(s, loc, a)) = Range(s) \union {a}
<1>1. PICK k \in 1 .. Len(s) + 1 : loc = NodeAt(s, k)
  <2>1. CASE loc = End
    <3>1. Len(s) + 1 \notin DOMAIN s /\ Len(s) + 1 \in 1 .. Len(s) + 1
      BY ElementTyped
    <3> QED  BY <2>1, <3>1 DEF NodeAt
  <2>2. CASE loc \in Range(s)
    <3>1. PICK k \in 1 .. Len(s) : loc = s[k]
      BY <2>2, ElementHasIndex
    <3> QED  BY <3>1, ElementTyped DEF NodeAt
  <2> QED  BY <2>1, <2>2
<1> DEFINE t == insert(s, loc, a)
<1>2. Range(t) = Range(s) \union {a}
  BY <1>1, InsertFacts, InstrAssumption
<1> QED  BY <1>2

LEMMA MoveElements ==
  ASSUME NEW s \in DistinctSeq(Addr), NEW a \in Range(s),
         NEW loc \in (Range(s) \union {End}) \ {a}
  PROVE  Range(insert(removeFromParent(s, a), loc, a)) = Range(s)
<1> DEFINE rest == removeFromParent(s, a)
<1>1. rest \in DistinctSeq(Addr) /\ Range(rest) = Range(s) \ {a}
  BY RemoveElements
<1>2. a \in Addr
  BY ElementTyped
<1> HIDE DEF rest
<1>3. Range(insert(rest, loc, a)) = Range(rest) \union {a}
  BY <1>1, <1>2, InsertElements
<1> QED  BY <1>1, <1>3 DEF rest

(* The block as the lemmas above want it, and what select draws from it.   *)
LEMMA BlockFacts ==
  ASSUME Inv
  PROVE  /\ block \in DistinctSeq(Addr) /\ Range(block) = Block
         /\ Block \subseteq Live /\ Live \subseteq Addr /\ End \notin Addr
         /\ select(End, TRUE) \subseteq Block
         /\ \A e : \A x \in {TRUE, FALSE} : select(e, x) \subseteq (Block \union {End}) \ {e}
         /\ \A e : select(e, FALSE) \subseteq Block
         /\ Fresh = Addr \ Live
         /\ heap \in [Addr -> Instr \union {Free}]
         /\ Free \notin Instr
<1>1. TypeOK /\ BlockWellFormed
  BY DEF Inv
<1>2. /\ block \in DistinctSeq(Addr) /\ Range(block) = Block
      /\ Block \subseteq Live /\ NumInstrs = Len(block) /\ Len(block) \in Nat
      /\ \A k \in 1 .. Len(block) : block[k] \in Block
      /\ DOMAIN block = 1 .. Len(block)
  BY <1>1, BlockIsDistinct
<1>3. \A k \in 1 .. Len(block) + 1 : NodeAt(block, k) \in Block \union {End}
  BY <1>2 DEF NodeAt
<1>4. \A k \in 1 .. Len(block) : NodeAt(block, k) \in Block
  BY <1>2 DEF NodeAt
<1>5. \A e : \A x \in {TRUE, FALSE} : select(e, x) \subseteq (Block \union {End}) \ {e}
  BY <1>2, <1>3 DEF select
<1>6. \A e : select(e, FALSE) \subseteq Block
  BY <1>2, <1>4 DEF select
<1>7. select(End, TRUE) \subseteq Block
  BY <1>5
<1> QED  BY <1>1, <1>2, <1>5, <1>6, <1>7, InstrAssumption DEF Live, Fresh, TypeOK

(* What a step has to show.                                                *)
LEMMA LeakStep ==
  ASSUME LeakInv,
         \A a \in Live' \ Block' :
            \/ a \in Live \ Block /\ heap'[a] = heap[a] /\ ~SetAside(a)
            \/ OperandChanges[heap'[a]] = {}
            \/ SetAside(a)'
  PROVE  LeakInv'
<1> SUFFICES ASSUME NEW a \in Live' \ Block'
             PROVE  OperandChanges[heap'[a]] = {} \/ SetAside(a)'
  BY DEF LeakInv
<1> QED  BY DEF LeakInv

-------------------------------------------------------------------------------
LEMMA ProposeNothingLeak ==
  ASSUME Inv, LeakInv, ProposeNothing
  PROVE  LeakInv'
<1>1. ~pending /\ block' = block /\ heap' = heap
  BY DEF ProposeNothing, Propose
<1>2. \A a \in Live' \ Block' : a \in Live \ Block /\ heap'[a] = heap[a] /\ ~SetAside(a)
  BY <1>1 DEF Live, Block, SetAside
<1> QED  BY <1>2, LeakStep

(* The replaced instruction is set aside, or it has no operands.           *)
LEMMA SubstituteLeak ==
  ASSUME Inv, LeakInv, NEW old \in select(End, TRUE), NEW new \in Fresh, NEW text \in Instr,
         NEW kind, kind \in Replacing \/ OperandChanges[heap[old]] = {},
         substitute(kind, old, new, text)
  PROVE  LeakInv'
<1>1. /\ ~pending /\ pending' = TRUE
      /\ heap' = [heap EXCEPT ![new] = text]
      /\ block' = replaceInst(block, old, new)
      /\ Old' = old /\ PrevTransformation' = kind
  BY DEF substitute, Propose
<1>2. /\ block \in DistinctSeq(Addr) /\ old \in Range(block) /\ new \in Addr \ Range(block)
      /\ Range(block) = Block /\ new \notin Live /\ heap \in [Addr -> Instr \union {Free}]
      /\ old \in Live /\ old \in Addr
  BY BlockFacts
<1>3. Block' = (Block \ {old}) \union {new}
  BY <1>1, <1>2, ReplaceElements DEF Block
<1>4. ASSUME NEW a \in Live' \ Block'
      PROVE  \/ a \in Live \ Block /\ heap'[a] = heap[a] /\ ~SetAside(a)
             \/ OperandChanges[heap'[a]] = {}
             \/ SetAside(a)'
  <2>1. a # new /\ a \in Addr /\ heap'[a] = heap[a] /\ a \in Live
    BY <1>1, <1>2, <1>3 DEF Live
  <2>2. CASE a = old
    BY <2>1, <2>2, <1>1 DEF SetAside
  <2>3. CASE a # old
    BY <2>1, <2>3, <1>1, <1>3 DEF SetAside
  <2> QED  BY <2>2, <2>3
<1> QED  BY <1>4, LeakStep

LEMMA MutateOpcodeLeak == Inv /\ LeakInv /\ MutateOpcode => LeakInv'
<1> SUFFICES ASSUME Inv, LeakInv, MutateOpcode PROVE LeakInv'
  OBVIOUS
<1>1. CASE ProposeNothing
  BY <1>1, ProposeNothingLeak
<1>2. CASE ~ProposeNothing
  <2>1. PICK old \in select(End, TRUE), new \in Fresh :
           \E text \in OpcodeChanges[heap[old]] : substitute("MUT_OPCODE", old, new, text)
    BY <1>2 DEF MutateOpcode
  <2>2. PICK text \in OpcodeChanges[heap[old]] : substitute("MUT_OPCODE", old, new, text)
    BY <2>1
  <2>3. heap[old] \in Instr
    BY BlockFacts DEF Live
  <2>4. text \in Instr
    BY <2>3, InstrAssumption
  <2> QED  BY <2>2, <2>4, SubstituteLeak DEF Replacing
<1> QED  BY <1>1, <1>2

LEMMA MutateOperandLeak == Inv /\ LeakInv /\ MutateOperand => LeakInv'
<1> SUFFICES ASSUME Inv, LeakInv, MutateOperand PROVE LeakInv'
  OBVIOUS
<1>1. CASE ProposeNothing
  BY <1>1, ProposeNothingLeak
<1>2. CASE ~ProposeNothing
  <2>1. PICK old \in select(End, TRUE), new \in Fresh :
             \/ /\ OperandChanges[heap[old]] = {}
                /\ substitute("NOP", old, new, heap[old])
             \/ \E text \in OperandChanges[heap[old]] :
                   substitute("MUT_OPERAND", old, new, text)
    BY <1>2 DEF MutateOperand
  <2>2. heap[old] \in Instr
    BY BlockFacts DEF Live
  <2>3. CASE OperandChanges[heap[old]] = {} /\ substitute("NOP", old, new, heap[old])
    BY <2>2, <2>3, SubstituteLeak
  <2>4. CASE \E text \in OperandChanges[heap[old]] :
                substitute("MUT_OPERAND", old, new, text)
    <3>1. PICK text \in OperandChanges[heap[old]] :
             substitute("MUT_OPERAND", old, new, text)
      BY <2>4
    <3>2. text \in Instr
      BY <2>2, InstrAssumption
    <3> QED  BY <3>1, <3>2, SubstituteLeak DEF Replacing
  <2> QED  BY <2>1, <2>3, <2>4
<1> QED  BY <1>1, <1>2

LEMMA ReplaceLeak == Inv /\ LeakInv /\ Replace => LeakInv'
<1> SUFFICES ASSUME Inv, LeakInv, Replace PROVE LeakInv'
  OBVIOUS
<1>1. CASE ProposeNothing
  BY <1>1, ProposeNothingLeak
<1>2. CASE ~ProposeNothing
  BY <1>2, SubstituteLeak DEF Replace, Replacing
<1> QED  BY <1>1, <1>2

(* Both originals are deleted and both clones linked. *)
LEMMA DoSwapLeak ==
  ASSUME Inv, LeakInv, \A x : ~SetAside(x),
         NEW a \in Block, NEW b \in Block, a # b,
         NEW aa \in Fresh, NEW bb \in Fresh, doSwap(a, b, aa, bb)
  PROVE  LeakInv'
<1>1. /\ aa # bb
      /\ heap' = [heap EXCEPT ![aa] = heap[a], ![bb] = heap[b], ![a] = Free, ![b] = Free]
      /\ block' = replaceInst(replaceInst(block, a, bb), b, aa)
  BY DEF doSwap
<1>2. /\ block \in DistinctSeq(Addr) /\ Range(block) = Block
      /\ Block \subseteq Live /\ Live \subseteq Addr /\ heap \in [Addr -> Instr \union {Free}]
      /\ aa \in Addr \ Live /\ bb \in Addr \ Live
  BY BlockFacts
<1> DEFINE t == replaceInst(block, a, bb)
<1>3. t \in DistinctSeq(Addr) /\ Range(t) = (Block \ {a}) \union {bb}
  BY <1>2, ReplaceElements
<1> HIDE DEF t
<1>4. b \in Range(t) /\ aa \in Addr \ Range(t)
  BY <1>1, <1>2, <1>3
<1>5. Range(replaceInst(t, b, aa)) = (Range(t) \ {b}) \union {aa}
  BY <1>3, <1>4, ReplaceElements
<1>6. Block' = (Block \ {a, b}) \union {aa, bb}
  BY <1>1, <1>2, <1>3, <1>5 DEF Block, t
<1>7. ASSUME NEW x \in Live' \ Block'
      PROVE  x \in Live \ Block /\ heap'[x] = heap[x] /\ ~SetAside(x)
  <2>1. x \in Addr /\ heap'[x] # Free /\ x # aa /\ x # bb
    BY <1>6 DEF Live
  <2>2. x # a /\ x # b
    BY <1>1, <1>2, <2>1
  <2>3. heap'[x] = heap[x]
    BY <1>1, <1>2, <2>1, <2>2
  <2> QED  BY <1>6, <2>1, <2>2, <2>3 DEF Live
<1> QED  BY <1>7, LeakStep

LEMMA SwapLeak == Inv /\ LeakInv /\ Swap => LeakInv'
<1> SUFFICES ASSUME Inv, LeakInv, Swap PROVE LeakInv'
  OBVIOUS
<1>1. CASE ProposeNothing
  BY <1>1, ProposeNothingLeak
<1>2. CASE ~ProposeNothing
  <2>1. PICK a \in select(End, TRUE) : \E b \in select(a, FALSE), aa, bb \in Fresh :
           doSwap(a, b, aa, bb)
    BY <1>2 DEF Swap
  <2>2. PICK b \in select(a, FALSE), aa \in Fresh, bb \in Fresh : doSwap(a, b, aa, bb)
    BY <2>1
  <2>3. a \in Block /\ b \in Block /\ a # b
    BY BlockFacts
  <2>4. \A x : ~SetAside(x)
    BY <1>2 DEF Swap, Propose, SetAside
  <2> QED  BY <2>2, <2>3, <2>4, DoSwapLeak
<1> QED  BY <1>1, <1>2

LEMMA MoveLeak == Inv /\ LeakInv /\ Move => LeakInv'
<1> SUFFICES ASSUME Inv, LeakInv, Move PROVE LeakInv'
  OBVIOUS
<1>1. CASE ProposeNothing
  BY <1>1, ProposeNothingLeak
<1>2. CASE ~ProposeNothing
  <2>1. PICK a \in select(End, TRUE) :
           \E loc \in select(getNextNode(block, a), TRUE) \ {a} :
              block' = insert(removeFromParent(block, a), loc, a)
    BY <1>2 DEF Move
  <2>2. PICK loc \in select(getNextNode(block, a), TRUE) \ {a} :
           block' = insert(removeFromParent(block, a), loc, a)
    BY <2>1
  <2>3. /\ block \in DistinctSeq(Addr) /\ Range(block) = Block /\ a \in Range(block)
        /\ loc \in (Range(block) \union {End}) \ {a}
    BY BlockFacts
  <2>4. Block' = Block
    BY <2>2, <2>3, MoveElements DEF Block
  <2>5. ~pending /\ heap' = heap
    BY <1>2 DEF Move, Propose
  <2>6. \A x \in Live' \ Block' : x \in Live \ Block /\ heap'[x] = heap[x] /\ ~SetAside(x)
    BY <2>4, <2>5 DEF Live, SetAside
  <2> QED  BY <2>6, LeakStep
<1> QED  BY <1>1, <1>2

LEMMA InsertLeak == Inv /\ LeakInv /\ Insert => LeakInv'
<1> SUFFICES ASSUME Inv, LeakInv, Insert PROVE LeakInv'
  OBVIOUS
<1>1. PICK new \in Fresh, text \in Instr :
         /\ heap' = [heap EXCEPT ![new] = text]
         /\ \E loc \in IF NumInstrs = 0 THEN {End} ELSE select(End, TRUE) :
               block' = insert(block, loc, new)
  BY DEF Insert
<1>2. PICK loc \in IF NumInstrs = 0 THEN {End} ELSE select(End, TRUE) :
         block' = insert(block, loc, new)
  BY <1>1
<1>3. /\ block \in DistinctSeq(Addr) /\ Range(block) = Block /\ Block \subseteq Live
      /\ loc \in Range(block) \union {End} /\ new \in Addr \ Range(block)
      /\ heap \in [Addr -> Instr \union {Free}]
  BY BlockFacts
<1>4. Block' = Block \union {new}
  BY <1>2, <1>3, InsertElements DEF Block
<1>5. ~pending
  BY DEF Insert, Propose
<1>6. \A x \in Live' \ Block' : x \in Live \ Block /\ heap'[x] = heap[x] /\ ~SetAside(x)
  BY <1>1, <1>3, <1>4, <1>5 DEF Live, SetAside
<1> QED  BY <1>6, LeakStep

LEMMA DeleteLeak == Inv /\ LeakInv /\ Delete => LeakInv'
<1> SUFFICES ASSUME Inv, LeakInv, Delete PROVE LeakInv'
  OBVIOUS
<1>1. CASE ProposeNothing
  BY <1>1, ProposeNothingLeak
<1>2. CASE ~ProposeNothing
  <2>1. PICK a \in select(End, TRUE) : New' = a /\ block' = removeFromParent(block, a)
    BY <1>2 DEF Delete
  <2>2. block \in DistinctSeq(Addr) /\ Range(block) = Block /\ a \in Range(block)
    BY BlockFacts
  <2>3. Block' = Block \ {a}
    BY <2>1, <2>2, RemoveElements DEF Block
  <2>4. ~pending /\ pending' /\ heap' = heap /\ PrevTransformation' = "DELETE"
    BY <1>2 DEF Delete, Propose
  <2>5. \A x \in Live' \ Block' :
           \/ x \in Live \ Block /\ heap'[x] = heap[x] /\ ~SetAside(x)
           \/ SetAside(x)'
    BY <2>1, <2>3, <2>4 DEF Live, SetAside
  <2> QED  BY <2>5, LeakStep
<1> QED  BY <1>1, <1>2

-------------------------------------------------------------------------------
LEMMA AcceptLeak == Inv /\ LeakInv /\ Accept => LeakInv'
<1> SUFFICES ASSUME Inv, LeakInv, Accept PROVE LeakInv'
  OBVIOUS
<1>1. pending /\ block' = block /\ UndoStateValid
  BY DEF Accept, Settle, Inv
<1>2. heap \in [Addr -> Instr \union {Free}]
  BY BlockFacts
<1>3. ASSUME NEW a \in Live' \ Block'
      PROVE  a \in Live \ Block /\ heap'[a] = heap[a] /\ ~SetAside(a)
  <2>1. a \in Addr /\ heap'[a] # Free /\ a \notin Block
    BY <1>1 DEF Live, Block
  <2>2. CASE PrevTransformation \in Replacing
    <3>1. heap' = [heap EXCEPT ![Old] = Free] /\ PrevTransformation # "DELETE"
      BY <2>2 DEF Accept, Replacing
    <3>2. a # Old /\ heap'[a] = heap[a]
      BY <2>1, <3>1, <1>2
    <3> QED  BY <2>1, <3>1, <3>2 DEF Live, SetAside
  <2>3. CASE PrevTransformation = "DELETE"
    <3>1. heap' = [heap EXCEPT ![New] = Free] /\ PrevTransformation \notin Replacing
      BY <2>3 DEF Accept, Replacing
    <3>2. a # New /\ heap'[a] = heap[a]
      BY <2>1, <3>1, <1>2
    <3> QED  BY <2>1, <3>1, <3>2 DEF Live, SetAside
  <2>4. CASE PrevTransformation \notin Replacing /\ PrevTransformation # "DELETE"
    <3>1. heap' = heap
      BY <2>4 DEF Accept
    <3> QED  BY <2>1, <2>4, <3>1 DEF Live, SetAside
  <2> QED  BY <2>2, <2>3, <2>4
<1> QED  BY <1>3, LeakStep

(* Each case of Undo links or deletes what it finds set aside.             *)
LEMMA UndoLeak == Inv /\ LeakInv /\ Undo => LeakInv'
<1> SUFFICES ASSUME Inv, LeakInv, Undo PROVE LeakInv'
  OBVIOUS
<1>1. pending /\ UndoStateValid
  BY DEF Undo, Settle, Inv
<1>2. /\ block \in DistinctSeq(Addr) /\ Range(block) = Block
      /\ Block \subseteq Live /\ Live \subseteq Addr /\ End \notin Addr
      /\ heap \in [Addr -> Instr \union {Free}]
  BY BlockFacts
<1>3. CASE UndoNothing
  <2>1. block' = block /\ heap' = heap /\ \A x : ~SetAside(x)
    BY <1>3 DEF UndoNothing, SetAside, Replacing
  <2>2. \A x \in Live' \ Block' : x \in Live \ Block /\ heap'[x] = heap[x] /\ ~SetAside(x)
    BY <2>1 DEF Live, Block
  <2> QED  BY <2>2, LeakStep
<1>4. CASE UndoReplacing
  <2>1. /\ PrevTransformation \in Replacing /\ PrevTransformation # "DELETE"
        /\ block' = replaceInst(block, New, Old) /\ heap' = [heap EXCEPT ![New] = Free]
    BY <1>4 DEF UndoReplacing, Replacing
  <2>2. New \in Range(block) /\ Old \in Addr \ Range(block)
    BY <1>1, <1>2, <2>1 DEF UndoStateValid
  <2>3. Block' = (Block \ {New}) \union {Old}
    BY <1>2, <2>1, <2>2, ReplaceElements DEF Block
  <2>4. ASSUME NEW x \in Live' \ Block'
        PROVE  x \in Live \ Block /\ heap'[x] = heap[x] /\ ~SetAside(x)
    <3>1. x \in Addr /\ heap'[x] # Free /\ x # Old
      BY <2>3 DEF Live
    <3>2. x # New /\ heap'[x] = heap[x]
      BY <3>1, <1>2, <2>1
    <3> QED  BY <3>1, <3>2, <2>1, <2>3 DEF Live, SetAside
  <2> QED  BY <2>4, LeakStep
<1>5. CASE UndoInsert
  <2>1. /\ \A x : ~SetAside(x) /\ PrevTransformation = "INSERT"
        /\ block' = removeFromParent(block, New) /\ heap' = [heap EXCEPT ![New] = Free]
    BY <1>5 DEF UndoInsert, SetAside, Replacing
  <2>2. New \in Range(block)
    BY <1>1, <1>2, <2>1 DEF UndoStateValid
  <2>3. Block' = Block \ {New}
    BY <1>2, <2>1, <2>2, RemoveElements DEF Block
  <2>4. ASSUME NEW x \in Live' \ Block'
        PROVE  x \in Live \ Block /\ heap'[x] = heap[x] /\ ~SetAside(x)
    <3>1. x \in Addr /\ heap'[x] # Free
      BY DEF Live
    <3>2. x # New /\ heap'[x] = heap[x]
      BY <3>1, <1>2, <2>1
    <3> QED  BY <3>1, <3>2, <2>1, <2>3 DEF Live
  <2> QED  BY <2>4, LeakStep
<1>6. CASE UndoSwap
  <2>1. PrevTransformation = "SWAP" /\ \A x : ~SetAside(x)
    BY <1>6 DEF UndoSwap, SetAside, Replacing
  <2>2. Swapped1 \in Block /\ Swapped2 \in Block /\ Swapped1 # Swapped2
    BY <1>1, <2>1 DEF UndoStateValid
  <2> QED  BY <1>6, <2>1, <2>2, DoSwapLeak DEF UndoSwap
<1>7. CASE UndoMove
  <2>1. /\ PrevTransformation = "MOVE" /\ heap' = heap /\ \A x : ~SetAside(x)
        /\ block' = insert(removeFromParent(block, New), NextLoc, New)
    BY <1>7 DEF UndoMove, SetAside, Replacing
  <2>2. New \in Range(block) /\ NextLoc \in (Range(block) \union {End}) \ {New}
    BY <1>1, <1>2, <2>1 DEF UndoStateValid
  <2>3. Block' = Block
    BY <1>2, <2>1, <2>2, MoveElements DEF Block
  <2>4. \A x \in Live' \ Block' : x \in Live \ Block /\ heap'[x] = heap[x] /\ ~SetAside(x)
    BY <2>1, <2>3 DEF Live
  <2> QED  BY <2>4, LeakStep
<1>8. CASE UndoDelete
  <2>1. /\ PrevTransformation = "DELETE" /\ heap' = heap /\ PrevTransformation \notin Replacing
        /\ block' = insert(block, NextLoc, New)
    BY <1>8 DEF UndoDelete, Replacing
  <2>2. New \in Addr \ Range(block) /\ NextLoc \in Range(block) \union {End}
    BY <1>1, <1>2, <2>1 DEF UndoStateValid
  <2>3. Block' = Block \union {New}
    BY <1>2, <2>1, <2>2, InsertElements DEF Block
  <2>4. \A x \in Live' \ Block' : x \in Live \ Block /\ heap'[x] = heap[x] /\ ~SetAside(x)
    BY <2>1, <2>3 DEF Live, SetAside
  <2> QED  BY <2>4, LeakStep
<1> QED  BY <1>3, <1>4, <1>5, <1>6, <1>7, <1>8 DEF Undo

LEMMA LeakInvStep == Inv /\ LeakInv /\ [Next]_vars => LeakInv'
<1>1. Inv /\ LeakInv /\ UNCHANGED vars => LeakInv'
  BY DEF LeakInv, SetAside, Live, Block, vars, undoState
<1> QED
  BY <1>1, MutateOpcodeLeak, MutateOperandLeak, ReplaceLeak, SwapLeak, MoveLeak, InsertLeak,
     DeleteLeak, AcceptLeak, UndoLeak DEF Next, Mutate

(* Whatever a proposal sets aside is deleted or linked again when it is     *)
(* settled; only an instruction without operands can be lost.              *)
THEOREM NothingLeaks == Spec => []NoLeak
<1>1. Init => LeakInv
  BY DEF Init, LeakInv, Live
<1>2. LeakInv => NoLeak
  BY DEF LeakInv, NoLeak, SetAside
<1> QED  BY <1>1, <1>2, LeakInvStep, Invariance, PTL DEF Spec

-------------------------------------------------------------------------------
(* The strategy of Rewriter.                                               *)

(* A rewrite never outgrows MaxInstrs.  The bound alone is not inductive:  *)
(* undoing a deletion lets the rewrite grow by one without a draw, so a    *)
(* pending deletion must leave room for it.                                *)
RewriterInv ==
    /\ Inv
    /\ SizeBounded
    /\ pending /\ PrevTransformation = "DELETE" => NumInstrs < MaxInstrs

(* A full rewrite is never extended: no draw is above n / MaxInstrs = 1.   *)
LEMMA FullIsNotExtended ==
  ASSUME NEW n \in 0 .. MaxInstrs, "INSERT" \in Proposals[n]
  PROVE  n < MaxInstrs
<1>1. MaxInstrs \in Nat \ {0}
  BY MaxInstrsAssumption
<1>2. PICK r \in Draw, r2 \in Draw : Proposal(n, r, r2) = "INSERT"
  BY <1>1 DEF Proposals
<1>3. n = 0 \/ ~DrawsReplace(n, r2)
  BY <1>2 DEF Proposal
<1>4. ASSUME n = MaxInstrs PROVE DrawsReplace(n, r2)
  <2>1. r2 \in Int /\ r2 <= 100
    BY DEF Draw, Scale
  <2>2. r2 * MaxInstrs <= 100 * MaxInstrs
    BY <2>1, <1>1
  <2> QED  BY <2>2, <1>4 DEF DrawsReplace, Scale
<1> QED  BY <1>1, <1>3, <1>4

(* An empty rewrite without a proposal satisfies it.                       *)
LEMMA RewriterInitInv == Init => RewriterInv
BY InitInv, MaxInstrsAssumption DEF RewriterInv, SizeBounded, Init

(* Every step of the strategy keeps it: only an insertion and the undoing  *)
(* of a deletion lengthen a rewrite.                                       *)
LEMMA RewriterNextInv == RewriterInv /\ [RewriterNext]_vars => RewriterInv'
<1> SUFFICES ASSUME RewriterInv, [RewriterNext]_vars PROVE RewriterInv'
  OBVIOUS
<1>1. /\ Inv /\ NumInstrs \in Nat /\ NumInstrs <= MaxInstrs
      /\ MaxInstrs \in Nat \ {0}
  BY MaxInstrsAssumption DEF RewriterInv, Inv, TypeOK, SizeBounded
<1>2. Inv'
  <2>1. [Next]_vars
    BY DEF RewriterNext, transformRewrite, Next, Mutate
  <2> QED  BY <2>1, <1>1, NextInv
<1>3. CASE MutateOpcode \/ MutateOperand \/ Replace \/ Swap \/ Move
  <2>1. NumInstrs' = NumInstrs /\ PrevTransformation' # "DELETE"
    BY <1>3 DEF MutateOpcode, MutateOperand, Replace, Swap, Move, substitute, ProposeNothing
  <2> QED  BY <2>1, <1>1, <1>2 DEF RewriterInv, SizeBounded
<1>4. CASE Delete
  <2>1. CASE ProposeNothing
    BY <2>1, <1>1, <1>2 DEF RewriterInv, SizeBounded, ProposeNothing
  <2>2. CASE ~ProposeNothing
    <3>1. NumInstrs' = NumInstrs - 1
      BY <1>4, <2>2 DEF Delete
    <3> QED  BY <3>1, <1>1, <1>2 DEF RewriterInv, SizeBounded
  <2> QED  BY <2>1, <2>2
<1>5. CASE "INSERT" \in Proposals[NumInstrs] /\ Insert
  <2>1. NumInstrs < MaxInstrs
    BY <1>1, <1>5, FullIsNotExtended
  <2>2. NumInstrs' = NumInstrs + 1 /\ PrevTransformation' = "INSERT"
    BY <1>5 DEF Insert
  <2> QED  BY <2>1, <2>2, <1>1, <1>2 DEF RewriterInv, SizeBounded
<1>6. CASE Accept
  <2>1. NumInstrs' = NumInstrs /\ pending' = FALSE
    BY <1>6 DEF Accept, Settle
  <2> QED  BY <2>1, <1>1, <1>2 DEF RewriterInv, SizeBounded
<1>7. CASE Undo
  <2>1. pending /\ pending' = FALSE
    BY <1>7 DEF Undo, Settle
  <2>2. CASE UndoDelete
    <3>1. NumInstrs < MaxInstrs /\ NumInstrs' = NumInstrs + 1
      BY <2>1, <2>2 DEF RewriterInv, UndoDelete
    <3> QED  BY <2>1, <3>1, <1>1, <1>2 DEF RewriterInv, SizeBounded
  <2>3. CASE ~UndoDelete
    <3>1. NumInstrs' \in {NumInstrs, NumInstrs - 1}
      BY <1>7, <2>3 DEF Undo, UndoNothing, UndoReplacing, UndoInsert, UndoSwap, UndoMove
    <3> QED  BY <2>1, <3>1, <1>1, <1>2 DEF RewriterInv, SizeBounded
  <2> QED  BY <2>2, <2>3
<1>8. CASE UNCHANGED vars
  BY <1>8, <1>1, <1>2 DEF RewriterInv, SizeBounded, vars, undoState
<1> QED
  BY <1>3, <1>4, <1>5, <1>6, <1>7, <1>8 DEF RewriterNext, transformRewrite

(* A rewrite never has more than MaxInstrs instructions.                   *)
THEOREM SizeAlwaysBounded == RewriterSpec => []SizeBounded
<1>1. RewriterInv => SizeBounded
  BY DEF RewriterInv
<1> QED  BY <1>1, RewriterInitInv, RewriterNextInv, PTL DEF RewriterSpec
===============================================================================
