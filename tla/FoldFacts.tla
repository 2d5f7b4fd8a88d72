----------------------------- MODULE FoldFacts -----------------------------
(***************************************************************************)
(* What is so of every fold over a sequence, for the proofs about what is  *)
(* read one element after the other: a frame by the peer of a tunnel, a    *)
(* character by a parser.  Take is what an element does; a proof takes the *)
(* facts by INSTANCE with the operator its own FoldLeft has, and shows     *)
(* that FoldLeft is Folded by expanding it.                                *)
(*                                                                         *)
(* Facts about a fold go by induction.  The library's induction theorems   *)
(* take a predicate, which no prover here can instantiate: the predicate   *)
(* is put into a set of naturals instead, and NatSetInduction is about the *)
(* set.                                                                    *)
(***************************************************************************)
EXTENDS Integers, Sequences, WellFoundedInduction, TLAPS

CONSTANT Take(_, _)   \* what has been read, and the next element -> what has been read then

----------------------------------------------------------------------------
(* Induction.                                                              *)

\* A set of naturals that is not empty has a least element.
LEMMA Least ==
    ASSUME NEW T \in SUBSET Nat, T # {}
    PROVE  \E x \in T : \A y \in T : x <= y
<1> DEFINE R == OpToRel(<, Nat)
<1>1. \A x, y \in Nat : x < y => <<x, y>> \in R
  BY DEF OpToRel
<1>2. IsWellFoundedOn(R, Nat)
  BY NatLessThanWellFounded
<1> HIDE DEF R
<1>3. PICK x \in T : \A y \in T : ~ (<<y, x>> \in R)
  BY <1>2, WFMin
<1>4. \A y \in T : ~(y < x)
  BY <1>1, <1>3
<1> QED BY <1>4

\* A set that has 0, and with each natural the next, has all.
LEMMA NatSetInduction ==
    ASSUME NEW S, 0 \in S, \A n \in Nat : n \in S => n + 1 \in S
    PROVE  Nat \subseteq S
<1> DEFINE T == Nat \ S
<1> SUFFICES ASSUME T # {} PROVE FALSE
  OBVIOUS
<1>1. PICK x \in T : \A y \in T : x <= y
  BY Least
<1>2. x # 0 /\ x \in Nat /\ x - 1 \in Nat
  OBVIOUS
<1>3. x - 1 \in S
  BY <1>1, <1>2
<1>4. (x - 1) + 1 \in S
  BY <1>3, <1>2
<1> QED BY <1>4, <1>2

----------------------------------------------------------------------------
(* The fold.                                                                *)

\* The greatest element, as FiniteSetsExt has it.
Greatest(d) == CHOOSE x \in d : \A y \in d : x >= y

\* The function FoldLeft chooses: what is folded from each set of places in s.
Folds(g, v, s, D) ==
    g = [d \in SUBSET D |-> IF d = {} THEN v ELSE Take(g[d \ {Greatest(d)}], s[Greatest(d)])]

\* FoldLeft(Take, v, s), unfolded.
Folded(v, s) == (CHOOSE g : Folds(g, v, s, DOMAIN s))[DOMAIN s]

\* The greatest of some places up to the last is the last.
LEMMA GreatestIsLast ==
    ASSUME NEW n \in Nat, NEW s \in SUBSET (1 .. n + 1), n + 1 \in s
    PROVE  Greatest(s) = n + 1
<1>1. \A y \in s : n + 1 >= y /\ y \in Nat
  OBVIOUS
<1>2. \E x \in s : \A y \in s : x >= y
  BY <1>1
<1>3. Greatest(s) \in s /\ \A y \in s : Greatest(s) >= y
  BY <1>2, Zenon DEF Greatest
<1>4. Greatest(s) >= n + 1 /\ n + 1 >= Greatest(s) /\ Greatest(s) \in Nat
  BY <1>1, <1>3
<1> QED  BY <1>4

\* Such a function exists.
LEMMA FoldsExists ==
    ASSUME NEW v, NEW part, NEW n \in Nat
    PROVE  \E g : Folds(g, v, part, 1 .. n)
<1> DEFINE S == {k \in Nat : \E g : Folds(g, v, part, 1 .. k)}
<1>1. 0 \in S
  <2> DEFINE g == [s \in SUBSET (1 .. 0) |-> v]
  <2>1. \A s \in SUBSET (1 .. 0) : s = {}
    OBVIOUS
  <2>2. Folds(g, v, part, 1 .. 0)
    BY <2>1 DEF Folds
  <2> QED  BY <2>2
<1>2. ASSUME NEW k \in Nat, k \in S PROVE k + 1 \in S
  <2>1. PICK g : Folds(g, v, part, 1 .. k)
    BY <1>2
  <2> DEFINE h == [s \in SUBSET (1 .. k + 1) |->
                     IF k + 1 \in s THEN Take(g[s \ {k + 1}], part[k + 1]) ELSE g[s]]
  <2>2. ASSUME NEW s \in SUBSET (1 .. k + 1)
        PROVE  h[s] = IF s = {} THEN v ELSE Take(h[s \ {Greatest(s)}], part[Greatest(s)])
    <3>1. CASE k + 1 \in s
      <4>1. Greatest(s) = k + 1 /\ s # {}
        BY <3>1, GreatestIsLast
      <4>2. s \ {k + 1} \in SUBSET (1 .. k + 1) /\ k + 1 \notin s \ {k + 1}
        OBVIOUS
      <4> QED  BY <3>1, <4>1, <4>2
    <3>2. CASE k + 1 \notin s
      <4>1. s \in SUBSET (1 .. k)
        BY <3>2
      <4>2. g[s] = IF s = {} THEN v ELSE Take(g[s \ {Greatest(s)}], part[Greatest(s)])
        BY <2>1, <4>1 DEF Folds
      <4>3. s \ {Greatest(s)} \in SUBSET (1 .. k + 1) /\ k + 1 \notin s \ {Greatest(s)}
        BY <3>2
      <4> QED  BY <3>2, <4>2, <4>3
    <3> QED  BY <3>1, <3>2
  <2>3. Folds(h, v, part, 1 .. k + 1)
    BY <2>2 DEF Folds
  <2> QED  BY <2>3
<1> HIDE DEF S
<1>3. Nat \subseteq S
  BY <1>1, <1>2, NatSetInduction
<1> QED  BY <1>3 DEF S

\* Two of sequences that begin alike agree on what is alike.
LEMMA FoldsAgree ==
    ASSUME NEW v, NEW g, NEW h, NEW part, NEW more, NEW n \in Nat, NEW m \in Nat, n <= m,
           Folds(g, v, part, 1 .. n), Folds(h, v, more, 1 .. m),
           \A i \in 1 .. n : more[i] = part[i]
    PROVE  g[1 .. n] = h[1 .. n]
<1> DEFINE S == {k \in Nat : k <= n => \A s \in SUBSET (1 .. k) : g[s] = h[s]}
<1>1. 0 \in S
  <2>1. \A s \in SUBSET (1 .. 0) : s = {} /\ s \in SUBSET (1 .. n) /\ s \in SUBSET (1 .. m)
    OBVIOUS
  <2>2. \A s \in SUBSET (1 .. 0) : g[s] = v /\ h[s] = v
    BY <2>1 DEF Folds
  <2> QED  BY <2>2
<1>2. ASSUME NEW k \in Nat, k \in S PROVE k + 1 \in S
  <2> SUFFICES ASSUME k + 1 <= n, NEW s \in SUBSET (1 .. k + 1) PROVE g[s] = h[s]
    OBVIOUS
  <2>1. CASE k + 1 \in s
    <3>1. Greatest(s) = k + 1 /\ s # {} /\ s \in SUBSET (1 .. n) /\ s \in SUBSET (1 .. m)
      BY <2>1, GreatestIsLast
    <3>2. g[s] = Take(g[s \ {k + 1}], part[k + 1]) /\ h[s] = Take(h[s \ {k + 1}], more[k + 1])
      BY <3>1 DEF Folds
    <3>3. s \ {k + 1} \in SUBSET (1 .. k)
      OBVIOUS
    <3>4. g[s \ {k + 1}] = h[s \ {k + 1}]
      BY <1>2, <3>3
    <3> QED  BY <3>2, <3>4
  <2>2. CASE k + 1 \notin s
    BY <1>2, <2>2
  <2> QED  BY <2>1, <2>2
<1> HIDE DEF S
<1>3. Nat \subseteq S
  BY <1>1, <1>2, NatSetInduction
<1>4. n \in S
  BY <1>3
<1> QED  BY <1>4 DEF S

\* No element changes nothing.
LEMMA FoldedNothing == ASSUME NEW v PROVE Folded(v, <<>>) = v
<1> DEFINE g == CHOOSE h : Folds(h, v, <<>>, DOMAIN <<>>)
<1>1. DOMAIN <<>> = 1 .. 0
  OBVIOUS
<1>2. Folds(g, v, <<>>, 1 .. 0)
  BY <1>1, FoldsExists, Zenon
<1> HIDE DEF g
<1>3. g[1 .. 0] = v
  BY <1>2 DEF Folds
<1>4. Folded(v, <<>>) = g[1 .. 0]
  BY <1>1 DEF Folded, g
<1> QED  BY <1>3, <1>4

\* So do those of a sequence and of its beginning.
LEMMA FoldsAgreeBefore ==
    ASSUME NEW v, NEW g, NEW h, NEW part, NEW more, NEW D, NEW E,
           Folds(g, v, part, D), Folds(h, v, more, E), \A i \in D : more[i] = part[i],
           \E n, m \in Nat : n <= m /\ D = 1 .. n /\ E = 1 .. m
    PROVE  g[D] = h[D]
<1>1. PICK n \in Nat, m \in Nat : n <= m /\ D = 1 .. n /\ E = 1 .. m
  OBVIOUS
<1>2. n <= m /\ Folds(g, v, part, 1 .. n) /\ Folds(h, v, more, 1 .. m) /\ \A i \in 1 .. n : more[i] = part[i]
  BY <1>1
<1>3. g[1 .. n] = h[1 .. n]
  BY <1>2, FoldsAgree
<1> QED  BY <1>1, <1>3

\* One element more is taken after the rest.
LEMMA FoldedAppend ==
    ASSUME NEW v, NEW T, NEW s \in Seq(T), NEW x \in T
    PROVE  Folded(v, Append(s, x)) = Take(Folded(v, s), x)
<1> DEFINE n == Len(s)
           t == Append(s, x)
           g == CHOOSE h : Folds(h, v, s, DOMAIN s)
           h == CHOOSE k : Folds(k, v, t, DOMAIN t)
<1>1. n \in Nat /\ DOMAIN s = 1 .. n /\ DOMAIN t = 1 .. n + 1 /\ t[n + 1] = x /\ \A i \in 1 .. n : t[i] = s[i]
  OBVIOUS
<1>2. Folds(g, v, s, 1 .. n)
  <2>1. \E k : Folds(k, v, s, DOMAIN s)
    BY <1>1, FoldsExists
  <2>2. Folds(g, v, s, DOMAIN s)
    BY <2>1, Zenon
  <2> QED  BY <1>1, <2>2
<1>3. Folds(h, v, t, 1 .. n + 1)
  <2>1. \E k : Folds(k, v, t, DOMAIN t)
    BY <1>1, FoldsExists
  <2>2. Folds(h, v, t, DOMAIN t)
    BY <2>1, Zenon
  <2> QED  BY <1>1, <2>2
<1>4. Folded(v, s) = g[1 .. n] /\ Folded(v, t) = h[1 .. n + 1]
  <2>1. Folded(v, s) = g[DOMAIN s] /\ Folded(v, t) = h[DOMAIN t]
    BY DEF Folded
  <2> QED  BY <1>1, <2>1
<1> HIDE DEF n, t, g, h
<1>5. g[1 .. n] = h[1 .. n]
  <2> DEFINE D == 1 .. n
             E == 1 .. n + 1
  <2>1. Folds(g, v, s, D) /\ Folds(h, v, t, E) /\ \A i \in D : t[i] = s[i]
    BY <1>1, <1>2, <1>3
  <2>2. n \in Nat /\ n + 1 \in Nat /\ n <= n + 1 /\ D = 1 .. n /\ E = 1 .. n + 1
    BY <1>1
  <2>3. \E i, j \in Nat : i <= j /\ D = 1 .. i /\ E = 1 .. j
    BY <2>2, Zenon
  <2> HIDE DEF D, E
  <2>4. g[D] = h[D]
    BY <2>1, <2>3, FoldsAgreeBefore
  <2> QED  BY <2>4 DEF D
<1>6. h[1 .. n + 1] = Take(h[1 .. n], x)
  <2>1. n \in Nat /\ n + 1 \in 1 .. n + 1 /\ 1 .. n + 1 \in SUBSET (1 .. n + 1)
    BY <1>1
  <2>2. Greatest(1 .. n + 1) = n + 1
    BY <2>1, GreatestIsLast, Zenon
  <2>3. (1 .. n + 1) \ {n + 1} = 1 .. n
    BY <2>1
  <2>4. h[1 .. n + 1] = Take(h[(1 .. n + 1) \ {n + 1}], t[n + 1])
    <3>1. h[1 .. n + 1] = IF 1 .. n + 1 = {} THEN v
                          ELSE Take(h[(1 .. n + 1) \ {Greatest(1 .. n + 1)}], t[Greatest(1 .. n + 1)])
      BY <1>3, <2>1, Zenon DEF Folds
    <3>2. 1 .. n + 1 # {}
      BY <2>1
    <3> QED  BY <2>2, <3>1, <3>2, Zenon
  <2> QED  BY <1>1, <2>3, <2>4, Zenon
<1> QED  BY <1>4, <1>5, <1>6 DEF t

\* A sequence is its first part and its last element.
LEMMA LastApart ==
    ASSUME NEW T, NEW s \in Seq(T), NEW n \in Nat, Len(s) = n + 1
    PROVE  /\ SubSeq(s, 1, n) \in Seq(T) /\ Len(SubSeq(s, 1, n)) = n /\ s[n + 1] \in T
           /\ s = Append(SubSeq(s, 1, n), s[n + 1])
<1> DEFINE r == SubSeq(s, 1, n)
<1>1. r \in Seq(T) /\ Len(r) = n /\ s[n + 1] \in T /\ \A i \in 1 .. n : r[i] = s[i]
  OBVIOUS
<1> HIDE DEF r
<1>2. /\ Append(r, s[n + 1]) \in Seq(T) /\ Len(Append(r, s[n + 1])) = n + 1
      /\ \A i \in 1 .. n + 1 : Append(r, s[n + 1])[i] = s[i]
  BY <1>1
<1>3. s = Append(r, s[n + 1])
  BY <1>2
<1> QED  BY <1>1, <1>3 DEF r

\* Sequences of the same length and elements are the same.
LEMMA SameSequence ==
    ASSUME NEW T, NEW a \in Seq(T), NEW b \in Seq(T), Len(a) = Len(b), \A i \in 1 .. Len(a) : a[i] = b[i]
    PROVE  a = b
OBVIOUS

\* A sequence cut in two, and one element more.
LEMMA CutApart ==
    ASSUME NEW T, NEW r \in Seq(T), NEW x \in T, NEW n \in Nat, n <= Len(r)
    PROVE  /\ SubSeq(Append(r, x), 1, n) = SubSeq(r, 1, n)
           /\ SubSeq(Append(r, x), n + 1, Len(r) + 1) = Append(SubSeq(r, n + 1, Len(r)), x)
           /\ SubSeq(r, n + 1, Len(r)) \in Seq(T)
<1> DEFINE s == Append(r, x)
           a == SubSeq(r, n + 1, Len(r))
           b == SubSeq(s, n + 1, Len(r) + 1)
<1>1. s \in Seq(T) /\ Len(s) = Len(r) + 1 /\ s[Len(r) + 1] = x /\ \A i \in 1 .. Len(r) : s[i] = r[i]
  OBVIOUS
<1> HIDE DEF s
<1>2. a \in Seq(T) /\ Len(a) = Len(r) - n /\ \A i \in 1 .. Len(r) - n : a[i] = r[n + i]
  OBVIOUS
<1>3. b \in Seq(T) /\ Len(b) = Len(r) + 1 - n /\ \A i \in 1 .. Len(r) + 1 - n : b[i] = s[n + i]
  BY <1>1
<1>4. SubSeq(s, 1, n) = SubSeq(r, 1, n)
  BY <1>1
<1> HIDE DEF a, b
<1>5. /\ Append(a, x) \in Seq(T) /\ Len(Append(a, x)) = Len(a) + 1 /\ Append(a, x)[Len(a) + 1] = x
      /\ \A i \in 1 .. Len(a) : Append(a, x)[i] = a[i]
  BY <1>2
<1>6. ASSUME NEW i \in 1 .. Len(r) + 1 - n PROVE Append(a, x)[i] = b[i]
  <2>1. CASE i <= Len(r) - n
    <3>1. i \in 1 .. Len(a) /\ i \in 1 .. Len(r) - n /\ n + i \in 1 .. Len(r)
      BY <1>2, <2>1
    <3> QED  BY <1>1, <1>2, <1>3, <1>5, <3>1
  <2>2. CASE i = Len(r) - n + 1
    <3>1. i = Len(a) + 1 /\ n + i = Len(r) + 1
      BY <1>2, <2>2
    <3> QED  BY <1>1, <1>3, <1>5, <3>1
  <2>3. i <= Len(r) - n \/ i = Len(r) - n + 1
    OBVIOUS
  <2> QED  BY <2>1, <2>2, <2>3
<1>7. Append(a, x) = b
  <2>1. Len(Append(a, x)) = Len(b) /\ Len(b) = Len(r) + 1 - n
    BY <1>2, <1>3, <1>5
  <2>2. \A i \in 1 .. Len(Append(a, x)) : Append(a, x)[i] = b[i]
    BY <1>6, <2>1
  <2> QED  BY <1>3, <1>5, <2>1, <2>2, SameSequence, Zenon
<1> QED  BY <1>2, <1>4, <1>7 DEF s, a, b

\* What is read in two parts is what is read at once.
LEMMA FoldedSplit ==
    ASSUME NEW v, NEW T, NEW s \in Seq(T), NEW n \in Nat, n <= Len(s)
    PROVE  Folded(Folded(v, SubSeq(s, 1, n)), SubSeq(s, n + 1, Len(s))) = Folded(v, s)
<1> DEFINE Split(r) == Folded(Folded(v, SubSeq(r, 1, n)), SubSeq(r, n + 1, Len(r))) = Folded(v, r)
           S == {k \in Nat : \A r \in Seq(T) : Len(r) = n + k => Split(r)}
<1>1. 0 \in S
  <2> SUFFICES ASSUME NEW r \in Seq(T), Len(r) = n PROVE Split(r)
    OBVIOUS
  <2>1. SubSeq(r, 1, n) = r /\ SubSeq(r, n + 1, Len(r)) = <<>>
    OBVIOUS
  <2> QED  BY <2>1, FoldedNothing
<1>2. ASSUME NEW k \in Nat, k \in S PROVE k + 1 \in S
  <2> SUFFICES ASSUME NEW r \in Seq(T), Len(r) = n + k + 1 PROVE Split(r)
    OBVIOUS
  <2> DEFINE q == SubSeq(r, 1, n + k)
             x == r[n + k + 1]
             first == SubSeq(q, 1, n)
             second == SubSeq(q, n + 1, Len(q))
  <2>1. q \in Seq(T) /\ Len(q) = n + k /\ x \in T /\ r = Append(q, x)
    <3>1. n + k \in Nat
      OBVIOUS
    <3> QED  BY <3>1, LastApart, Zenon
  <2> HIDE DEF q, x
  <2>2. SubSeq(r, 1, n) = first /\ SubSeq(r, n + 1, Len(r)) = Append(second, x) /\ second \in Seq(T)
    <3>1. n <= Len(q) /\ Len(r) = Len(q) + 1
      BY <2>1
    <3>2. /\ SubSeq(Append(q, x), 1, n) = SubSeq(q, 1, n)
          /\ SubSeq(Append(q, x), n + 1, Len(q) + 1) = Append(SubSeq(q, n + 1, Len(q)), x)
          /\ SubSeq(q, n + 1, Len(q)) \in Seq(T)
      BY <2>1, <3>1, CutApart
    <3> QED  BY <2>1, <3>1, <3>2
  <2>3. Folded(Folded(v, first), second) = Folded(v, q)
    BY <1>2, <2>1
  <2> HIDE DEF first, second
  <2>4. Folded(Folded(v, first), Append(second, x)) = Take(Folded(Folded(v, first), second), x)
    <3>1. second \in Seq(T) /\ x \in T
      BY <2>1, <2>2
    <3>2. ASSUME NEW w PROVE Folded(w, Append(second, x)) = Take(Folded(w, second), x)
      BY <3>1, FoldedAppend
    <3> QED  BY <3>2
  <2>5. Folded(v, Append(q, x)) = Take(Folded(v, q), x)
    BY <2>1, FoldedAppend, Zenon
  <2> QED  BY <2>1, <2>2, <2>3, <2>4, <2>5, Zenon
<1> HIDE DEF S
<1>3. Nat \subseteq S
  BY <1>1, <1>2, NatSetInduction
<1>4. Len(s) - n \in S
  BY <1>3
<1> QED  BY <1>4 DEF S

\* The same, of two sequences that are joined.
LEMMA FoldedJoined ==
    ASSUME NEW v, NEW T, NEW a \in Seq(T), NEW b \in Seq(T)
    PROVE  Folded(Folded(v, a), b) = Folded(v, a \o b)
<1> DEFINE s == a \o b
<1>1. s \in Seq(T) /\ Len(a) \in Nat /\ Len(a) <= Len(s)
  OBVIOUS
<1>2. SubSeq(s, 1, Len(a)) = a /\ SubSeq(s, Len(a) + 1, Len(s)) = b
  OBVIOUS
<1> HIDE DEF s
<1>3. Folded(Folded(v, SubSeq(s, 1, Len(a))), SubSeq(s, Len(a) + 1, Len(s))) = Folded(v, s)
  BY <1>1, FoldedSplit, Zenon
<1> QED  BY <1>2, <1>3 DEF s
=============================================================================
