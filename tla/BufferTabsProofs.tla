-------------------------- MODULE BufferTabsProofs --------------------------
(***************************************************************************)
(* That the panes agree with the buffers, for any number of buffers, panes *)
(* and files: every pane shows one of its tabs, no buffer has two tabs in  *)
(* a pane, the buffer in front is the focused pane's and the preview is    *)
(* one.  And of the steps: closing a buffer leaves what the other panes    *)
(* show, a drag moves one tab.                                             *)
(*                                                                         *)
(* The argument: an operation is a function of the state it finds, and     *)
(* those that compose (a preview replaced before a file is opened, a group *)
(* closed in the middle of a drag) each leave a good state, or one that is *)
(* good but for the tabs of one pane, which goes next.                     *)
(***************************************************************************)
EXTENDS BufferTabs, SequenceTheorems, FiniteSetTheorems, WellFoundedInduction, TLAPS

-----------------------------------------------------------------------------
(* Induction, on sets of numbers *)

\* Strong induction, for one set at a time.
LEMMA EveryNumber ==
  ASSUME NEW T, \A n \in Nat : (\A m \in Nat : m < n => m \in T) => n \in T
  PROVE  Nat \subseteq T
<1>1. ASSUME Nat \ T # {} PROVE FALSE
  <2>1. Nat \ T \in SUBSET Nat
    OBVIOUS
  <2>2. PICK x \in Nat \ T : \A y \in Nat \ T : <<y, x>> \notin OpToRel(<, Nat)
    BY <1>1, <2>1, WFMin, NatLessThanWellFounded
  <2>3. ASSUME NEW m \in Nat, m < x PROVE m \in T
    <3>1. <<m, x>> \in OpToRel(<, Nat)
      BY <2>2, <2>3 DEF OpToRel
    <3> QED
      BY <2>2, <3>1
  <2> QED
    BY <2>2, <2>3
<1> QED
  BY <1>1

\* A number of a set that has one: the least.
LEMMA LeastOf ==
  ASSUME NEW T \in SUBSET Nat, T # {}
  PROVE  \E x \in T : \A y \in T : x <= y
<1>1. PICK x \in T : \A y \in T : <<y, x>> \notin OpToRel(<, Nat)
  BY WFMin, NatLessThanWellFounded
<1>2. ASSUME NEW y \in T, ~(x <= y) PROVE FALSE
  <2>1. <<y, x>> \in Nat \X Nat /\ y < x
    BY <1>2
  <2>2. <<y, x>> \in OpToRel(<, Nat)
    BY <2>1 DEF OpToRel
  <2> QED
    BY <1>1, <2>2
<1> QED
  BY <1>2

-----------------------------------------------------------------------------
(* Filtering *)

\* What is kept after i elements.
KeptUpto(s, S, F, n) ==
  F = [i \in 0..n |-> IF i = 0 THEN <<>>
                      ELSE IF s[i] \in S THEN Append(F[i - 1], s[i]) ELSE F[i - 1]]

\* The recursion behind Keeping has a solution on every initial segment.
LEMMA KeptUptoExists ==
  ASSUME NEW s, NEW S, NEW n \in Nat
  PROVE  \E F : KeptUpto(s, S, F, n)
<1> DEFINE T == {m \in Nat : \E F : KeptUpto(s, S, F, m)}
<1>1. ASSUME NEW m \in Nat, \A k \in Nat : k < m => k \in T
      PROVE  m \in T
  <2>1. CASE m = 0
    <3> DEFINE F == [i \in 0..0 |-> <<>>]
    <3>1. KeptUpto(s, S, F, 0)
      BY DEF KeptUpto
    <3> QED
      BY <2>1, <3>1
  <2>2. CASE m # 0
    <3>1. PICK F : KeptUpto(s, S, F, m - 1)
      BY <1>1, <2>2
    <3> DEFINE G == [i \in 0..m |-> IF i = m
                       THEN IF s[m] \in S THEN Append(F[m - 1], s[m]) ELSE F[m - 1]
                       ELSE F[i]]
    <3>2. \A i \in 0..(m - 1) : G[i] = F[i]
      OBVIOUS
    <3>3. \A i \in 0..m : G[i] = IF i = 0 THEN <<>>
                                 ELSE IF s[i] \in S THEN Append(G[i - 1], s[i]) ELSE G[i - 1]
      <4> TAKE i \in 0..m
      <4>1. CASE i = m
        BY <2>2, <3>2, <4>1
      <4>2. CASE i # m
        <5>1. i \in 0..(m - 1) /\ (i # 0 => i - 1 \in 0..(m - 1))
          BY <4>2
        <5>2. F[i] = IF i = 0 THEN <<>>
                     ELSE IF s[i] \in S THEN Append(F[i - 1], s[i]) ELSE F[i - 1]
          BY <3>1, <5>1 DEF KeptUpto
        <5> HIDE DEF G
        <5> QED
          BY <3>2, <5>1, <5>2
      <4> QED
        BY <4>1, <4>2
    <3>4. KeptUpto(s, S, G, m)
      <4>1. G = [i \in 0..m |-> G[i]]
        OBVIOUS
      <4> HIDE DEF G
      <4> QED
        BY <3>3, <4>1 DEF KeptUpto
    <3> QED
      BY <3>4
  <2> QED
    BY <2>1, <2>2
<1> QED
  <2> HIDE DEF T
  <2>1. n \in T
    BY <1>1, EveryNumber
  <2> QED
    BY <2>1 DEF T

\* What is kept is, in order, everything that is in the set.
Picks(s, S, r, n, h) ==
  /\ h \in [1..Len(r) -> 1..n]
  /\ \A k \in 1..Len(r) : r[k] = s[h[k]] /\ s[h[k]] \in S
  /\ \A k, l \in 1..Len(r) : k < l => h[k] < h[l]
  /\ \A j \in 1..n : s[j] \in S => \E k \in 1..Len(r) : h[k] = j

\* Keeping returns the elements of S in their order: an increasing choice of their positions.
LEMMA KeepingPicks ==
  ASSUME NEW X, NEW s \in Seq(X), NEW S
  PROVE  /\ Keeping(s, S) \in Seq(X)
         /\ \E h : Picks(s, S, Keeping(s, S), Len(s), h)
<1> DEFINE F == CHOOSE F : KeptUpto(s, S, F, Len(s))
           T == {n \in Nat : n <= Len(s) =>
                   F[n] \in Seq(X) /\ \E h : Picks(s, S, F[n], n, h)}
<1>0. Len(s) \in Nat /\ \A i \in 1..Len(s) : s[i] \in X
  BY LenProperties, ElementOfSeq
<1>1. KeptUpto(s, S, F, Len(s))
  BY <1>0, KeptUptoExists
<1>2. Keeping(s, S) = F[Len(s)]
  BY DEF Keeping, KeptUpto
<1> HIDE DEF F
<1>3. ASSUME NEW n \in Nat, \A m \in Nat : m < n => m \in T
      PROVE  n \in T
  <2> SUFFICES ASSUME n <= Len(s)
               PROVE  F[n] \in Seq(X) /\ \E h : Picks(s, S, F[n], n, h)
    OBVIOUS
  <2>1. CASE n = 0
    <3>1. F[0] = <<>>
      BY <1>0, <1>1 DEF KeptUpto
    <3> DEFINE h == [k \in 1..0 |-> 0]
    <3>2. Picks(s, S, <<>>, 0, h)
      BY DEF Picks
    <3> QED
      BY <2>1, <3>1, <3>2
  <2>2. CASE n # 0
    <3>1. n - 1 \in Nat /\ n - 1 \in T /\ n - 1 <= Len(s) /\ n \in 1..Len(s)
      BY <1>0, <1>3, <2>2
    <3>2. F[n] = IF s[n] \in S THEN Append(F[n - 1], s[n]) ELSE F[n - 1]
      <4>1. n \in 0..Len(s)
        BY <1>0, <3>1
      <4> QED
        BY <1>1, <2>2, <4>1 DEF KeptUpto
    <3> DEFINE r == F[n - 1]
    <3>3. r \in Seq(X)
      BY <3>1
    <3>4. PICK h : Picks(s, S, r, n - 1, h)
      BY <3>1
    <3>5. CASE s[n] \notin S
      <4>1. Picks(s, S, r, n, h)
        <5> HIDE DEF r
        <5> QED BY <3>1, <3>4, <3>5 DEF Picks
      <4> QED
        BY <3>2, <3>3, <3>5, <4>1
    <3>6. CASE s[n] \in S
      <4> DEFINE q == Append(r, s[n])
                 g == [k \in 1..Len(q) |-> IF k = Len(q) THEN n ELSE h[k]]
      <4> HIDE DEF r
      <4>1. /\ q \in Seq(X) /\ Len(q) = Len(r) + 1 /\ Len(r) \in Nat
            /\ q[Len(q)] = s[n] /\ \A k \in 1..Len(r) : q[k] = r[k]
        BY <1>0, <3>1, <3>3, AppendProperties
      <4>2. \A k \in 1..Len(r) : h[k] \in 1..(n - 1)
        BY <3>4 DEF Picks
      <4> HIDE DEF q
      <4>3. g \in [1..Len(q) -> 1..n]
        BY <3>1, <4>1, <4>2
      <4>4. \A k \in 1..Len(r) : g[k] = h[k] /\ k \in 1..Len(q) /\ k # Len(q)
        BY <4>1
      <4>5. g[Len(q)] = n /\ Len(q) \in 1..Len(q)
        BY <4>1
      <4>6. \A k \in 1..Len(q) : k = Len(q) \/ k \in 1..Len(r)
        BY <4>1
      <4> HIDE DEF g
      <4>7. \A k \in 1..Len(q) : q[k] = s[g[k]] /\ s[g[k]] \in S
        BY <3>4, <3>6, <4>1, <4>4, <4>5, <4>6 DEF Picks
      <4>8. \A k, l \in 1..Len(q) : k < l => g[k] < g[l]
        <5> SUFFICES ASSUME NEW k \in 1..Len(q), NEW l \in 1..Len(q), k < l
                     PROVE  g[k] < g[l]
          OBVIOUS
        <5>1. k \in 1..Len(r)
          BY <4>1
        <5>2. CASE l = Len(q)
          BY <3>1, <4>2, <4>4, <4>5, <5>1, <5>2
        <5>3. CASE l # Len(q)
          BY <3>4, <4>4, <4>6, <5>1, <5>3 DEF Picks
        <5> QED
          BY <5>2, <5>3
      <4>9. ASSUME NEW j \in 1..n, s[j] \in S
            PROVE  \E k \in 1..Len(q) : g[k] = j
        <5>1. CASE j = n
          BY <4>5, <5>1
        <5>2. CASE j # n
          <6>1. j \in 1..(n - 1)
            BY <3>1, <5>2
          <6> QED
            BY <3>4, <4>4, <4>9, <6>1 DEF Picks
        <5> QED
          BY <5>1, <5>2
      <4>10. Picks(s, S, q, n, g)
        BY <4>3, <4>7, <4>8, <4>9 DEF Picks
      <4>11. F[n] = q
        BY <3>2, <3>6 DEF q, r
      <4> QED
        BY <4>1, <4>10, <4>11
    <3> QED
      BY <3>5, <3>6
  <2> QED
    BY <2>1, <2>2
<1> HIDE DEF T
<1>4. Len(s) \in T
  BY <1>0, <1>3, EveryNumber
<1> QED
  BY <1>0, <1>2, <1>4 DEF T

\* Keeping, by the elements: those in the set, and none twice unless it was there
\* twice before.
LEMMA KeepingIs ==
  ASSUME NEW X, NEW s \in Seq(X), NEW S
  PROVE  /\ Keeping(s, S) \in Seq(X)
         /\ ToSet(Keeping(s, S)) = ToSet(s) \cap S
         /\ (\A j, k \in 1..Len(s) : s[j] = s[k] /\ s[j] \in S => j = k)
              => IsInjective(Keeping(s, S))
<1> DEFINE r == Keeping(s, S)
<1>1. r \in Seq(X)
  BY KeepingPicks
<1>2. PICK h : Picks(s, S, r, Len(s), h)
  BY KeepingPicks
<1>3. /\ Len(s) \in Nat /\ DOMAIN s = 1..Len(s)
      /\ Len(r) \in Nat /\ DOMAIN r = 1..Len(r)
  BY <1>1, LenProperties
<1> HIDE DEF r
<1>4. \A k \in 1..Len(r) : h[k] \in 1..Len(s) /\ r[k] = s[h[k]] /\ r[k] \in S
  BY <1>2 DEF Picks
<1>5. ToSet(r) = ToSet(s) \cap S
  <2>1. ASSUME NEW x \in ToSet(s) \cap S PROVE x \in ToSet(r)
    <3>1. PICK j \in 1..Len(s) : x = s[j]
      BY <1>3, <2>1 DEF ToSet
    <3>2. PICK k \in 1..Len(r) : h[k] = j
      BY <1>2, <2>1, <3>1 DEF Picks
    <3> QED BY <1>3, <1>4, <3>1, <3>2 DEF ToSet
  <2>2. ASSUME NEW x \in ToSet(r) PROVE x \in ToSet(s) \cap S
    BY <1>3, <1>4, <2>2 DEF ToSet
  <2> QED BY <2>1, <2>2
<1>6. ASSUME \A j, k \in 1..Len(s) : s[j] = s[k] /\ s[j] \in S => j = k
      PROVE  IsInjective(r)
  <2> SUFFICES ASSUME NEW k \in 1..Len(r), NEW l \in 1..Len(r), r[k] = r[l], k < l
               PROVE  FALSE
    <3>1. \A k, l \in 1..Len(r) : r[k] = r[l] => ~(k < l) /\ ~(l < k)
      OBVIOUS
    <3> QED BY <1>3, <3>1 DEF IsInjective
  <2>1. h[k] = h[l]
    BY <1>4, <1>6
  <2>2. h[k] < h[l] /\ h[k] \in 1..Len(s) /\ h[l] \in 1..Len(s)
    BY <1>2, <1>4 DEF Picks
  <2> QED BY <2>1, <2>2
<1> QED BY <1>1, <1>5, <1>6 DEF r

-----------------------------------------------------------------------------
(* Sequences with an element more or less *)

\* A sequence, by its elements.
LEMMA ElementsOf ==
  ASSUME NEW S, NEW s \in Seq(S)
  PROVE  /\ Len(s) \in Nat /\ DOMAIN s = 1..Len(s)
         /\ \A i \in 1..Len(s) : s[i] \in S /\ s[i] \in ToSet(s)
         /\ \A x \in ToSet(s) : x \in S /\ \E i \in 1..Len(s) : s[i] = x
BY LenProperties, ElementOfSeq DEF ToSet

\* A concatenation, by its elements.
Joins(S, a, b, r) ==
  /\ r \in Seq(S) /\ Len(r) = Len(a) + Len(b)
  /\ \A k \in 1..(Len(a) + Len(b)) : r[k] = IF k <= Len(a) THEN a[k] ELSE b[k - Len(a)]

\* What the library says of a concatenation, in that form.
LEMMA JoinIs ==
  ASSUME NEW S, NEW a \in Seq(S), NEW b \in Seq(S), NEW r, r = a \o b
  PROVE  Joins(S, a, b, r)
BY ConcatProperties, Zenon DEF Joins

\* RemoveAt, by its elements.
LEMMA RemoveAtIs ==
  ASSUME NEW S, NEW s \in Seq(S), NEW i \in 1..Len(s)
  PROVE  /\ RemoveAt(s, i) \in Seq(S)
         /\ Len(RemoveAt(s, i)) = Len(s) - 1
         /\ \A k \in 1..(Len(s) - 1) : RemoveAt(s, i)[k] = IF k < i THEN s[k] ELSE s[k + 1]
<1> DEFINE a == SubSeq(s, 1, i - 1)
           c == SubSeq(s, i + 1, Len(s))
<1>0. Len(s) \in Nat /\ \A k \in 1..Len(s) : s[k] \in S
  BY ElementsOf
<1>1. /\ a \in Seq(S) /\ Len(a) = i - 1
      /\ \A k \in 1..(i - 1) : a[k] = s[k]
  <2>1. \A k \in 1..(i - 1) : s[k] \in S
    BY <1>0
  <2> QED BY <1>0, <2>1, SubSeqProperties
<1>2. /\ c \in Seq(S) /\ Len(c) = Len(s) - i
      /\ \A k \in 1..(Len(s) - i) : c[k] = s[i + k]
  <2>1. \A k \in (i + 1)..Len(s) : s[k] \in S
    BY <1>0
  <2> QED BY <1>0, <2>1, SubSeqProperties
<1> HIDE DEF a, c
<1> DEFINE r == RemoveAt(s, i)
<1>4. r = a \o c
  BY DEF RemoveAt, a, c
<1> HIDE DEF r
<1>3. Joins(S, a, c, r)
  <2>1. a \in Seq(S) /\ c \in Seq(S)
    BY <1>1, <1>2
  <2> QED BY <2>1, <1>4, JoinIs
<1>5. ASSUME NEW k \in 1..(Len(s) - 1)
      PROVE  r[k] = IF k < i THEN s[k] ELSE s[k + 1]
  <2>0. k \in 1..(Len(a) + Len(c)) /\ Len(a) = i - 1 /\ i \in Nat /\ k \in Nat
    BY <1>0, <1>1, <1>2
  <2>1. r[k] = IF k <= i - 1 THEN a[k] ELSE c[k - (i - 1)]
    BY <1>3, <2>0 DEF Joins
  <2>2. k < i => a[k] = s[k]
    BY <1>1, <2>0
  <2>3. ~(k < i) => c[k - (i - 1)] = s[k + 1]
    <3> SUFFICES ASSUME ~(k < i) PROVE c[k - (i - 1)] = s[k + 1]
      OBVIOUS
    <3> DEFINE m == k - (i - 1)
    <3>1. m \in 1..(Len(s) - i) /\ i + m = k + 1
      BY <1>0
    <3> HIDE DEF m
    <3>2. c[m] = s[k + 1]
      BY <1>2, <3>1
    <3> QED BY <3>2 DEF m
  <2> QED BY <2>0, <2>1, <2>2, <2>3
<1> QED BY <1>0, <1>1, <1>2, <1>3, <1>5 DEF r, Joins

\* InsertAt, by what it keeps.
LEMMA InsertAtIs ==
  ASSUME NEW S, NEW s \in Seq(S), NEW i \in 1..(Len(s) + 1), NEW e \in S
  PROVE  /\ InsertAt(s, i, e) \in Seq(S)
         /\ Len(InsertAt(s, i, e)) = Len(s) + 1
         /\ \A k \in 1..(Len(s) + 1) :
              InsertAt(s, i, e)[k] = IF k < i THEN s[k] ELSE IF k = i THEN e ELSE s[k - 1]
<1> DEFINE a == SubSeq(s, 1, i - 1)
           b == <<e>>
           c == SubSeq(s, i, Len(s))
           d == a \o b
           r == d \o c
<1>0. Len(s) \in Nat /\ \A k \in 1..Len(s) : s[k] \in S
  BY ElementsOf
<1>1. /\ a \in Seq(S) /\ Len(a) = i - 1
      /\ \A k \in 1..(i - 1) : a[k] = s[k]
  <2>1. \A k \in 1..(i - 1) : s[k] \in S
    BY <1>0
  <2> QED BY <1>0, <2>1, SubSeqProperties
<1>2. /\ c \in Seq(S) /\ Len(c) = Len(s) - i + 1
      /\ \A k \in 1..(Len(s) - i + 1) : c[k] = s[i + k - 1]
  <2>1. \A k \in i..Len(s) : s[k] \in S
    BY <1>0
  <2> QED BY <1>0, <2>1, SubSeqProperties
<1>3. b \in Seq(S) /\ Len(b) = 1 /\ b[1] = e
  OBVIOUS
<1> HIDE DEF a, b, c
<1>6. InsertAt(s, i, e) = r
  BY DEF InsertAt, a, b, c
<1>8. d = a \o b /\ r = d \o c
  OBVIOUS
<1> HIDE DEF d, r
<1>4. Joins(S, a, b, d)
  <2>1. a \in Seq(S) /\ b \in Seq(S)
    BY <1>1, <1>3
  <2> QED BY <2>1, <1>8, JoinIs
<1>5. Joins(S, d, c, r)
  <2>1. d \in Seq(S) /\ c \in Seq(S)
    BY <1>2, <1>4 DEF Joins
  <2> QED BY <2>1, <1>8, JoinIs
<1>7. ASSUME NEW k \in 1..(Len(s) + 1)
      PROVE  r[k] = IF k < i THEN s[k] ELSE IF k = i THEN e ELSE s[k - 1]
  <2>0. /\ Len(a) = i - 1 /\ i \in Nat /\ k \in Nat /\ Len(d) = i
        /\ k \in 1..(Len(d) + Len(c)) /\ (k <= i => k \in 1..(Len(a) + Len(b)))
    <3>1. Len(d) = Len(a) + Len(b)
      BY <1>4 DEF Joins
    <3>2. Len(a) = i - 1 /\ Len(b) = 1 /\ Len(c) = Len(s) - i + 1
      BY <1>1, <1>2, <1>3
    <3> QED BY <1>0, <3>1, <3>2
  <2>1. r[k] = IF k <= i THEN d[k] ELSE c[k - i]
    BY <1>5, <2>0 DEF Joins
  <2>2. k <= i => d[k] = IF k <= i - 1 THEN a[k] ELSE b[k - (i - 1)]
    BY <1>4, <2>0 DEF Joins
  <2>3. k < i => a[k] = s[k]
    BY <1>1, <2>0
  <2>4. k = i => k - (i - 1) = 1
    BY <2>0
  <2>5. k > i => c[k - i] = s[k - 1]
    <3> SUFFICES ASSUME k > i PROVE c[k - i] = s[k - 1]
      OBVIOUS
    <3> DEFINE m == k - i
    <3>1. m \in 1..(Len(s) - i + 1) /\ i + m - 1 = k - 1
      BY <1>0
    <3> HIDE DEF m
    <3>2. c[m] = s[k - 1]
      BY <1>2, <3>1
    <3> QED BY <3>2 DEF m
  <2> QED BY <1>3, <2>0, <2>1, <2>2, <2>3, <2>4, <2>5
<1> QED BY <1>0, <1>1, <1>2, <1>3, <1>4, <1>5, <1>6, <1>7 DEF Joins

-----------------------------------------------------------------------------
(* Tab lists *)

\* The tabs of a pane: numbers of buffers, none of them twice.
Strip(tabs, n) == tabs \in Seq(1..n) /\ IsInjective(tabs)

\* A tab that is there already is not added again.
LEMMA WithTabIs ==
  ASSUME NEW n \in Nat, NEW tabs, Strip(tabs, n), NEW b \in 1..n
  PROVE  Strip(WithTab(tabs, b), n) /\ ToSet(WithTab(tabs, b)) = ToSet(tabs) \cup {b}
<1>0. tabs \in Seq(1..n) /\ IsInjective(tabs)
  BY DEF Strip
<1>1. CASE b \in ToSet(tabs)
  BY <1>1 DEF WithTab, Strip
<1>2. CASE b \notin ToSet(tabs)
  <2> DEFINE r == Append(tabs, b)
             l == Len(tabs)
  <2>1. /\ l \in Nat /\ DOMAIN tabs = 1..l
        /\ \A k \in 1..l : tabs[k] \in ToSet(tabs)
        /\ \A x \in ToSet(tabs) : \E k \in 1..l : tabs[k] = x
    BY <1>0, ElementsOf
  <2>2. /\ r \in Seq(1..n) /\ Len(r) = l + 1
        /\ \A k \in 1..l : r[k] = tabs[k]
        /\ r[l + 1] = b
    BY <1>0, <2>1, AppendProperties
  <2>3. WithTab(tabs, b) = r
    BY <1>2 DEF WithTab
  <2> HIDE DEF r, l
  <2>4. /\ DOMAIN r = 1..(l + 1) /\ \A k \in 1..(l + 1) : k \in 1..l \/ k = l + 1
        /\ \A k \in 1..(l + 1) : r[k] \in ToSet(r)
        /\ l + 1 \in 1..(l + 1) /\ \A k \in 1..l : k \in 1..(l + 1)
    <3>1. \A k \in 1..Len(r) : r[k] \in ToSet(r)
      BY <2>2, ElementsOf
    <3> QED BY <2>1, <2>2, <3>1
  <2>5. IsInjective(r)
    BY <1>0, <1>2, <2>1, <2>2, <2>4 DEF IsInjective
  <2>6. ToSet(r) = ToSet(tabs) \cup {b}
    <3>1. ASSUME NEW x \in ToSet(r) PROVE x \in ToSet(tabs) \cup {b}
      BY <2>1, <2>2, <2>4, <3>1 DEF ToSet
    <3>2. ASSUME NEW x \in ToSet(tabs) PROVE x \in ToSet(r)
      <4>1. PICK k \in 1..l : tabs[k] = x
        BY <2>1, <3>2
      <4> QED BY <2>2, <2>4, <4>1
    <3>3. b \in ToSet(r)
      BY <2>2, <2>4
    <3> QED BY <3>1, <3>2, <3>3
  <2> QED BY <2>2, <2>3, <2>5, <2>6 DEF Strip
<1> QED BY <1>1, <1>2

\* A tab taken out of a strip.
LEMMA WithoutTabIs ==
  ASSUME NEW n \in Nat, NEW tabs, Strip(tabs, n), NEW b
  PROVE  Strip(WithoutTab(tabs, b), n) /\ ToSet(WithoutTab(tabs, b)) = ToSet(tabs) \ {b}
<1> DEFINE S == ToSet(tabs) \ {b}
<1>1. tabs \in Seq(1..n) /\ DOMAIN tabs = 1..Len(tabs) /\ IsInjective(tabs)
  BY ElementsOf DEF Strip
<1>2. \A j, k \in 1..Len(tabs) : tabs[j] = tabs[k] /\ tabs[j] \in S => j = k
  BY <1>1 DEF IsInjective
<1>3. ToSet(tabs) \cap S = S
  OBVIOUS
<1> HIDE DEF S
<1>4. /\ Keeping(tabs, S) \in Seq(1..n) /\ ToSet(Keeping(tabs, S)) = ToSet(tabs) \cap S
      /\ IsInjective(Keeping(tabs, S))
  BY <1>1, <1>2, KeepingIs
<1>5. WithoutTab(tabs, b) = Keeping(tabs, S)
  BY DEF WithoutTab, S
<1> QED BY <1>3, <1>4, <1>5 DEF Strip, S

\* What a new buffer leaves of a strip, when it takes the place of a placeholder.
LEMMA ReplacingIs ==
  ASSUME NEW n \in Nat, NEW tabs, Strip(tabs, n), NEW bufs
  PROVE  Strip(Replacing(tabs, bufs), n)
<1> DEFINE S == {t \in DOMAIN bufs : bufs[t].kind # "placeholder"}
<1>1. tabs \in Seq(1..n) /\ DOMAIN tabs = 1..Len(tabs) /\ IsInjective(tabs)
  BY ElementsOf DEF Strip
<1>2. Replacing(tabs, bufs) = Keeping(tabs, S)
  BY DEF Replacing
<1> HIDE DEF S
<1>3. \A j, k \in 1..Len(tabs) : tabs[j] = tabs[k] /\ tabs[j] \in S => j = k
  BY <1>1 DEF IsInjective
<1>4. Keeping(tabs, S) \in Seq(1..n) /\ IsInjective(Keeping(tabs, S))
  BY <1>1, <1>3, KeepingIs
<1> QED BY <1>2, <1>4 DEF Strip

\* A close leaves the numbers of the buffers that stay, none of them twice: the
\* only two that become one are those of the closed buffer and its successor.
LEMMA TabsAfterIs ==
  ASSUME NEW n \in Nat, NEW tabs, Strip(tabs, n), NEW i \in 1..n
  PROVE  Strip(TabsAfter(tabs, i), n - 1)
<1> DEFINE moved == [k \in DOMAIN tabs |-> IF tabs[k] > i THEN tabs[k] - 1 ELSE tabs[k]]
           S == ToSet(moved) \ {i}
           r == Keeping(moved, S)
           l == Len(tabs)
<1>1. /\ tabs \in Seq(1..n) /\ l \in Nat /\ DOMAIN tabs = 1..l
      /\ \A k \in 1..l : tabs[k] \in 1..n
      /\ \A j, k \in 1..l : tabs[j] = tabs[k] => j = k
  BY ElementsOf DEF Strip, IsInjective
<1>2. \A k \in 1..l : moved[k] = IF tabs[k] > i THEN tabs[k] - 1 ELSE tabs[k]
  BY <1>1
<1>3. \A k \in 1..l : moved[k] \in 1..n
  BY <1>1, <1>2
<1>4. moved \in Seq(1..n) /\ Len(moved) = l
  <2>1. moved \in [1..l -> 1..n]
    <3> DEFINE e(k) == IF tabs[k] > i THEN tabs[k] - 1 ELSE tabs[k]
    <3>1. moved = [k \in 1..l |-> e(k)] /\ \A k \in 1..l : e(k) \in 1..n
      BY <1>1, <1>2, <1>3
    <3> HIDE DEF e
    <3> QED BY <3>1
  <2> HIDE DEF moved, l
  <2> QED BY <1>1, <2>1
<1>5. TabsAfter(tabs, i) = r
  BY DEF TabsAfter, WithoutTab
<1> HIDE DEF moved, l
<1>6. \A j, k \in 1..l : moved[j] = moved[k] /\ moved[j] \in S => j = k
  BY <1>1, <1>2 DEF S
<1>7. S \subseteq 1..(n - 1)
  <2> SUFFICES ASSUME NEW x \in S PROVE x \in 1..(n - 1)
    OBVIOUS
  <2>1. PICK k \in 1..l : x = moved[k] /\ x # i
    BY <1>4, ElementsOf DEF S
  <2> QED BY <1>1, <1>2, <2>1
<1> HIDE DEF S
<1>8. r \in Seq(1..n) /\ ToSet(r) = ToSet(moved) \cap S /\ IsInjective(r)
  BY <1>4, <1>6, KeepingIs
<1> HIDE DEF r
<1>9. r \in Seq(1..(n - 1))
  <2>1. Len(r) \in Nat /\ r \in [1..Len(r) -> 1..n] /\ \A k \in 1..Len(r) : r[k] \in ToSet(r)
    BY <1>8, LenProperties, ElementsOf
  <2>2. r \in [1..Len(r) -> 1..(n - 1)]
    BY <1>7, <1>8, <2>1
  <2> QED BY <2>1, <2>2
<1> QED BY <1>5, <1>8, <1>9 DEF Strip

\* The tab at a place taken out.
LEMMA RemovedTabIs ==
  ASSUME NEW n \in Nat, NEW tabs, Strip(tabs, n), NEW k \in 1..Len(tabs)
  PROVE  /\ Strip(RemoveAt(tabs, k), n)
         /\ ToSet(RemoveAt(tabs, k)) = ToSet(tabs) \ {tabs[k]}
         /\ Len(RemoveAt(tabs, k)) = Len(tabs) - 1
<1> DEFINE r == RemoveAt(tabs, k)
           l == Len(tabs)
<1>1. /\ tabs \in Seq(1..n) /\ l \in Nat /\ DOMAIN tabs = 1..l
      /\ \A i, j \in 1..l : tabs[i] = tabs[j] => i = j
  BY ElementsOf DEF Strip, IsInjective
<1>2. /\ r \in Seq(1..n) /\ Len(r) = l - 1
      /\ \A j \in 1..(l - 1) : r[j] = IF j < k THEN tabs[j] ELSE tabs[j + 1]
  BY <1>1, RemoveAtIs
<1> HIDE DEF r
<1>3. DOMAIN r = 1..(l - 1)
  BY <1>1, <1>2, LenProperties
<1> HIDE DEF l
<1>0. k \in 1..l
  BY DEF l
<1>4. IsInjective(r)
  <2> SUFFICES ASSUME NEW i \in 1..(l - 1), NEW j \in 1..(l - 1), r[i] = r[j] PROVE i = j
    BY <1>3 DEF IsInjective
  <2> DEFINE at(m) == IF m < k THEN m ELSE m + 1
  <2>1. at(i) \in 1..l /\ at(j) \in 1..l /\ (at(i) = at(j) => i = j)
    BY <1>0, <1>1
  <2>2. r[i] = tabs[at(i)] /\ r[j] = tabs[at(j)]
    BY <1>2
  <2> HIDE DEF at
  <2> QED BY <1>1, <2>1, <2>2
<1>5. ToSet(r) = ToSet(tabs) \ {tabs[k]}
  <2>1. ASSUME NEW x \in ToSet(r) PROVE x \in ToSet(tabs) \ {tabs[k]}
    <3>1. PICK j \in 1..(l - 1) : r[j] = x
      BY <1>3, <2>1 DEF ToSet
    <3>2. j \in 1..l /\ j + 1 \in 1..l
      BY <1>1
    <3> DEFINE m == IF j < k THEN j ELSE j + 1
    <3>3. m \in 1..l /\ m # k /\ x = tabs[m]
      <4>1. x = tabs[m]
        BY <1>2, <3>1
      <4>2. m \in 1..l /\ m # k
        BY <1>0, <3>2
      <4> QED BY <4>1, <4>2
    <3> HIDE DEF m
    <3> QED BY <1>0, <1>1, <3>3 DEF ToSet
  <2>2. ASSUME NEW x \in ToSet(tabs) \ {tabs[k]} PROVE x \in ToSet(r)
    <3>1. PICK m \in 1..l : tabs[m] = x /\ m # k
      BY <1>1, <2>2 DEF ToSet
    <3> DEFINE j == IF m < k THEN m ELSE m - 1
    <3>2. j \in 1..(l - 1) /\ r[j] = x
      <4>1. CASE m < k
        BY <1>0, <1>1, <1>2, <3>1, <4>1
      <4>2. CASE m > k
        <5>1. m - 1 \in 1..(l - 1) /\ ~(m - 1 < k) /\ (m - 1) + 1 = m
          BY <1>0, <1>1, <4>2
        <5> QED BY <1>2, <3>1, <4>2, <5>1
      <4> QED BY <1>0, <1>1, <3>1, <4>1, <4>2
    <3> HIDE DEF j
    <3> QED BY <1>3, <3>2 DEF ToSet
  <2> QED BY <2>1, <2>2
<1> QED BY <1>2, <1>4, <1>5 DEF r, Strip, l

\* A tab put in at a place.
LEMMA InsertedTabIs ==
  ASSUME NEW n \in Nat, NEW tabs, Strip(tabs, n), NEW k \in 1..(Len(tabs) + 1),
         NEW b \in 1..n, b \notin ToSet(tabs)
  PROVE  Strip(InsertAt(tabs, k, b), n) /\ ToSet(InsertAt(tabs, k, b)) = ToSet(tabs) \cup {b}
<1> DEFINE r == InsertAt(tabs, k, b)
           l == Len(tabs)
<1>1. /\ tabs \in Seq(1..n) /\ l \in Nat /\ DOMAIN tabs = 1..l
      /\ \A i, j \in 1..l : tabs[i] = tabs[j] => i = j
      /\ \A i \in 1..l : tabs[i] # b
  <2>1. tabs \in Seq(1..n) /\ IsInjective(tabs)
    BY DEF Strip
  <2>2. l \in Nat /\ DOMAIN tabs = 1..l /\ \A i \in 1..l : tabs[i] \in ToSet(tabs)
    BY <2>1, ElementsOf
  <2> QED BY <2>1, <2>2 DEF IsInjective
<1>2. /\ r \in Seq(1..n) /\ Len(r) = l + 1
      /\ \A j \in 1..(l + 1) : r[j] = IF j < k THEN tabs[j] ELSE IF j = k THEN b ELSE tabs[j - 1]
  <2> DEFINE N == 1..n
  <2>1. tabs \in Seq(N) /\ b \in N /\ k \in 1..(Len(tabs) + 1)
    BY <1>1
  <2> HIDE DEF r, N
  <2>2. /\ InsertAt(tabs, k, b) \in Seq(N)
        /\ Len(InsertAt(tabs, k, b)) = Len(tabs) + 1
        /\ \A j \in 1..(Len(tabs) + 1) : InsertAt(tabs, k, b)[j] =
              IF j < k THEN tabs[j] ELSE IF j = k THEN b ELSE tabs[j - 1]
    BY <2>1, InsertAtIs
  <2> QED BY <2>2 DEF r, N
<1> HIDE DEF r
<1>3. DOMAIN r = 1..(l + 1)
  BY <1>1, <1>2, LenProperties
<1>0. k \in 1..(l + 1)
  OBVIOUS
<1> HIDE DEF l
<1>4. IsInjective(r)
  <2> SUFFICES ASSUME NEW i \in 1..(l + 1), NEW j \in 1..(l + 1), r[i] = r[j] PROVE i = j
    BY <1>3 DEF IsInjective
  <2> DEFINE at(m) == IF m < k THEN m ELSE m - 1
  <2>1. \A m \in 1..(l + 1) : m # k => at(m) \in 1..l
    BY <1>0, <1>1
  <2>2. \A m \in 1..(l + 1) : r[m] = IF m = k THEN b ELSE tabs[at(m)]
    BY <1>0, <1>2
  <2>3. i # k /\ j # k => (at(i) = at(j) => i = j)
    BY <1>0
  <2> HIDE DEF at
  <2>4. i = k <=> j = k
    BY <1>1, <2>1, <2>2
  <2> QED BY <1>1, <2>1, <2>2, <2>3, <2>4
<1>5. ToSet(r) = ToSet(tabs) \cup {b}
  <2>1. ASSUME NEW x \in ToSet(r) PROVE x \in ToSet(tabs) \cup {b}
    <3>1. PICK j \in 1..(l + 1) : r[j] = x
      BY <1>3, <2>1 DEF ToSet
    <3>2. (j < k => j \in 1..l) /\ (j > k => j - 1 \in 1..l)
      BY <1>0, <1>1
    <3>3. \A m \in 1..l : tabs[m] \in ToSet(tabs)
      BY <1>1 DEF ToSet
    <3>4. CASE j < k
      BY <1>2, <3>1, <3>2, <3>3, <3>4
    <3>5. CASE j = k
      BY <1>0, <1>2, <3>1, <3>5
    <3>6. CASE j > k
      BY <1>0, <1>2, <3>1, <3>2, <3>3, <3>6
    <3> QED BY <1>0, <3>4, <3>5, <3>6
  <2>2. b \in ToSet(r)
    <3>1. r[k] = b
      BY <1>0, <1>1, <1>2
    <3> QED BY <1>0, <1>3, <3>1 DEF ToSet
  <2>3. ASSUME NEW x \in ToSet(tabs) PROVE x \in ToSet(r)
    <3>1. PICK m \in 1..l : tabs[m] = x
      BY <1>1, <2>3 DEF ToSet
    <3> DEFINE j == IF m < k THEN m ELSE m + 1
    <3>2. j \in 1..(l + 1) /\ r[j] = x
      <4>1. CASE m < k
        BY <1>0, <1>1, <1>2, <3>1, <4>1
      <4>2. CASE ~(m < k)
        <5>1. m + 1 \in 1..(l + 1) /\ m + 1 > k /\ (m + 1) - 1 = m
          BY <1>0, <1>1, <4>2
        <5>2. r[m + 1] = tabs[(m + 1) - 1]
          BY <1>0, <1>2, <5>1
        <5> QED BY <3>1, <4>2, <5>1, <5>2
      <4> QED BY <4>1, <4>2
    <3> HIDE DEF j
    <3> QED BY <1>3, <3>2 DEF ToSet
  <2> QED BY <2>1, <2>2, <2>3
<1> QED BY <1>2, <1>4, <1>5 DEF r, Strip

-----------------------------------------------------------------------------
(* Panes *)

\* A pane that may show a buffer it has no tab of, as some are for a while.
Loose(n) == {q \in [buffer : 1..n, tabs : Seq(1..n), view : Nat, viewOf : 0..n] :
               IsInjective(q.tabs)}

\* A pane that shows one of its tabs.
Tight(n) == {q \in Loose(n) : q.buffer \in ToSet(q.tabs)}

PaneOf(b, tabs, view, viewOf) ==
  [buffer |-> b, tabs |-> tabs, view |-> view, viewOf |-> viewOf]

\* The records the operations write, spelt out.
LEMMA PaneWith ==
  ASSUME NEW n \in Nat, NEW q \in Loose(n)
  PROVE  /\ q = PaneOf(q.buffer, q.tabs, q.view, q.viewOf)
         /\ \A b : [q EXCEPT !.buffer = b] = PaneOf(b, q.tabs, q.view, q.viewOf)
         /\ \A t : [q EXCEPT !.tabs = t] = PaneOf(q.buffer, t, q.view, q.viewOf)
         /\ \A v, o : [q EXCEPT !.view = v, !.viewOf = o] = PaneOf(q.buffer, q.tabs, v, o)
         /\ \A b, t, o : [q EXCEPT !.buffer = b, !.tabs = t, !.viewOf = o] =
                           PaneOf(b, t, q.view, o)
         /\ \A b, t : [q EXCEPT !.tabs = t, !.buffer = b] = PaneOf(b, t, q.view, q.viewOf)
<1> DEFINE F == {"buffer", "tabs", "view", "viewOf"}
<1>1. q \in [buffer : 1..n, tabs : Seq(1..n), view : Nat, viewOf : 0..n]
  BY DEF Loose
<1>2. DOMAIN q = F /\ q = [x \in F |-> q[x]]
  BY <1>1
<1>3. ASSUME NEW u, u = [x \in F |-> u[x]]
      PROVE  u = PaneOf(u.buffer, u.tabs, u.view, u.viewOf)
  BY <1>3 DEF PaneOf
<1>4. q = PaneOf(q.buffer, q.tabs, q.view, q.viewOf)
  BY <1>2, <1>3
<1>5. ASSUME NEW b
      PROVE  [q EXCEPT !.buffer = b] = PaneOf(b, q.tabs, q.view, q.viewOf)
  <2> DEFINE u == [q EXCEPT !.buffer = b]
  <2>1. /\ u.buffer = b /\ u.tabs = q.tabs /\ u.view = q.view /\ u.viewOf = q.viewOf
        /\ u = [x \in F |-> u[x]]
    BY <1>2
  <2> HIDE DEF u
  <2>2. u = PaneOf(u.buffer, u.tabs, u.view, u.viewOf)
    BY <1>3, <2>1
  <2> QED BY <2>1, <2>2 DEF u
<1>6. ASSUME NEW t
      PROVE  [q EXCEPT !.tabs = t] = PaneOf(q.buffer, t, q.view, q.viewOf)
  <2> DEFINE u == [q EXCEPT !.tabs = t]
  <2>1. /\ u.buffer = q.buffer /\ u.tabs = t /\ u.view = q.view /\ u.viewOf = q.viewOf
        /\ u = [x \in F |-> u[x]]
    BY <1>2
  <2> HIDE DEF u
  <2>2. u = PaneOf(u.buffer, u.tabs, u.view, u.viewOf)
    BY <1>3, <2>1
  <2> QED BY <2>1, <2>2 DEF u
<1>7. ASSUME NEW v, NEW o
      PROVE  [q EXCEPT !.view = v, !.viewOf = o] = PaneOf(q.buffer, q.tabs, v, o)
  <2> DEFINE u == [q EXCEPT !.view = v, !.viewOf = o]
  <2>1. /\ u.buffer = q.buffer /\ u.tabs = q.tabs /\ u.view = v /\ u.viewOf = o
        /\ u = [x \in F |-> u[x]]
    BY <1>2
  <2> HIDE DEF u
  <2>2. u = PaneOf(u.buffer, u.tabs, u.view, u.viewOf)
    BY <1>3, <2>1
  <2> QED BY <2>1, <2>2 DEF u
<1>8. ASSUME NEW b, NEW t, NEW o
      PROVE  [q EXCEPT !.buffer = b, !.tabs = t, !.viewOf = o] = PaneOf(b, t, q.view, o)
  <2> DEFINE u == [q EXCEPT !.buffer = b, !.tabs = t, !.viewOf = o]
  <2>1. /\ u.buffer = b /\ u.tabs = t /\ u.view = q.view /\ u.viewOf = o
        /\ u = [x \in F |-> u[x]]
    BY <1>2
  <2> HIDE DEF u
  <2>2. u = PaneOf(u.buffer, u.tabs, u.view, u.viewOf)
    BY <1>3, <2>1
  <2> QED BY <2>1, <2>2 DEF u
<1>9. ASSUME NEW b, NEW t
      PROVE  [q EXCEPT !.tabs = t, !.buffer = b] = PaneOf(b, t, q.view, q.viewOf)
  <2> DEFINE u == [q EXCEPT !.tabs = t, !.buffer = b]
  <2>1. /\ u.buffer = b /\ u.tabs = t /\ u.view = q.view /\ u.viewOf = q.viewOf
        /\ u = [x \in F |-> u[x]]
    BY <1>2
  <2> HIDE DEF u
  <2>2. u = PaneOf(u.buffer, u.tabs, u.view, u.viewOf)
    BY <1>3, <2>1
  <2> QED BY <2>1, <2>2 DEF u
<1> QED BY <1>4, <1>5, <1>6, <1>7, <1>8, <1>9

\* What is true of the pane that consists of these.
LEMMA PaneHas ==
  ASSUME NEW n \in Nat, NEW b \in 1..n, NEW t, Strip(t, n), NEW v \in Nat, NEW o \in 0..n
  PROVE  /\ PaneOf(b, t, v, o) \in Loose(n)
         /\ b \in ToSet(t) => PaneOf(b, t, v, o) \in Tight(n)
         /\ PaneOf(b, t, v, o).buffer = b /\ PaneOf(b, t, v, o).tabs = t
BY DEF PaneOf, Loose, Tight, Strip

\* What a pane has.
LEMMA PaneParts ==
  ASSUME NEW n \in Nat, NEW q \in Loose(n)
  PROVE  /\ q.buffer \in 1..n /\ Strip(q.tabs, n) /\ q.view \in Nat /\ q.viewOf \in 0..n
         /\ q.tabs \in Seq(1..n) /\ ToSet(q.tabs) \subseteq 1..n
         /\ q.buffer \in ToSet(q.tabs) <=> q \in Tight(n)
<1>1. q.buffer \in 1..n /\ q.tabs \in Seq(1..n) /\ IsInjective(q.tabs) /\ q.view \in Nat
        /\ q.viewOf \in 0..n
  BY DEF Loose
<1>2. ToSet(q.tabs) \subseteq 1..n
  BY <1>1, ElementsOf
<1> QED BY <1>1, <1>2 DEF Strip, Tight

\* Capturing and restoring a view touch neither the tabs nor what is shown.
LEMMA ViewsKeep ==
  ASSUME NEW n \in Nat, NEW q \in Loose(n)
  PROVE  /\ Captured(q) \in Loose(n) /\ Captured(q).buffer = q.buffer /\ Captured(q).tabs = q.tabs
         /\ Restored(q) \in Loose(n) /\ Restored(q).buffer = q.buffer /\ Restored(q).tabs = q.tabs
<1>1. Captured(q) = PaneOf(q.buffer, q.tabs, q.buffer, q.buffer)
  <2>1. \A v, o : [q EXCEPT !.view = v, !.viewOf = o] = PaneOf(q.buffer, q.tabs, v, o)
    BY PaneWith
  <2>2. [q EXCEPT !.view = q.buffer, !.viewOf = q.buffer] =
          PaneOf(q.buffer, q.tabs, q.buffer, q.buffer)
    BY <2>1
  <2> QED BY <2>2 DEF Captured
<1>2. q.buffer \in 1..n /\ Strip(q.tabs, n) /\ q.buffer \in Nat /\ q.buffer \in 0..n
  BY PaneParts
<1>3. Captured(q) \in Loose(n) /\ Captured(q).buffer = q.buffer /\ Captured(q).tabs = q.tabs
  BY <1>1, <1>2, PaneHas
<1> QED BY <1>3 DEF Restored

\* A pane pointed at a buffer keeps its tabs.
LEMMA ShowingIs ==
  ASSUME NEW n \in Nat, NEW q \in Loose(n), NEW b \in 1..n
  PROVE  Showing(q, b) \in Loose(n) /\ Showing(q, b).buffer = b /\ Showing(q, b).tabs = q.tabs
<1> DEFINE c == Captured(q)
           d == [c EXCEPT !.buffer = b]
<1>1. c \in Loose(n) /\ c.tabs = q.tabs
  BY ViewsKeep
<1>2. Showing(q, b) = Restored(d)
  BY DEF Showing
<1> HIDE DEF c
<1>3. d = PaneOf(b, c.tabs, c.view, c.viewOf)
  BY <1>1, PaneWith
<1> HIDE DEF d
<1>4. d \in Loose(n) /\ d.buffer = b /\ d.tabs = q.tabs
  <2>1. Strip(c.tabs, n) /\ c.view \in Nat /\ c.viewOf \in 0..n
    BY <1>1, PaneParts
  <2> QED BY <1>1, <1>3, <2>1, PaneHas
<1> QED BY <1>2, <1>4, ViewsKeep

\* The pane with other tabs.
LEMMA RetabbedIs ==
  ASSUME NEW n \in Nat, NEW q \in Loose(n), NEW t, Strip(t, n)
  PROVE  /\ [q EXCEPT !.tabs = t] \in Loose(n)
         /\ [q EXCEPT !.tabs = t].buffer = q.buffer /\ [q EXCEPT !.tabs = t].tabs = t
         /\ q.buffer \in ToSet(t) => [q EXCEPT !.tabs = t] \in Tight(n)
<1>1. [q EXCEPT !.tabs = t] = PaneOf(q.buffer, t, q.view, q.viewOf)
  BY PaneWith
<1> QED BY <1>1, PaneParts, PaneHas

\* The numbers of a vector are numbers of a longer one.
LEMMA MoreBuffers ==
  ASSUME NEW n \in Nat
  PROVE  Loose(n) \subseteq Loose(n + 1) /\ Tight(n) \subseteq Tight(n + 1)
<1>1. 1..n \subseteq 1..(n + 1) /\ 0..n \subseteq 0..(n + 1)
  OBVIOUS
<1>2. Seq(1..n) \subseteq Seq(1..(n + 1))
  <2> SUFFICES ASSUME NEW t \in Seq(1..n) PROVE t \in Seq(1..(n + 1))
    OBVIOUS
  <2>1. Len(t) \in Nat /\ t = [k \in 1..Len(t) |-> t[k]] /\ \A k \in 1..Len(t) : t[k] \in 1..n
    BY ElementsOf
  <2>2. t \in [1..Len(t) -> 1..(n + 1)]
    BY <1>1, <2>1
  <2> QED BY <2>1, <2>2
<1> QED BY <1>1, <1>2 DEF Loose, Tight

-----------------------------------------------------------------------------
(* States *)

Fields == {"buffers", "panes", "current", "shown", "preview", "closed"}
Bufs == [file : Files \cup {NoFile}, kind : Kinds]

\* The buffers, the preview among them, and the history of closed ones.
Vector(s) ==
  /\ DOMAIN s = Fields
  /\ s.buffers \in Seq(Bufs) /\ s.buffers # <<>>
  /\ s.preview # 0 =>
       s.preview \in 1..Len(s.buffers) /\ s.buffers[s.preview].kind = "preview"
  /\ s.closed \in Seq(Files \cup {NoFile})

\* The panes, where those of P need not show one of their tabs.
Layout(s, P) ==
  /\ s.panes \in Seq(Loose(Len(s.buffers)))
  /\ \A k \in 1..Len(s.panes) : k \notin P => s.panes[k] \in Tight(Len(s.buffers))
  /\ s.current \in 1..Len(s.panes)

Laid(s, P) == Vector(s) /\ Layout(s, P)

\* The buffer in front is the focused pane's, besides.
SoundBut(s, P) == Laid(s, P) /\ s.shown = s.panes[s.current].buffer

\* Only the panes of t differ from those of s.
SameVector(s, t) ==
  /\ DOMAIN t = Fields
  /\ t.buffers = s.buffers /\ t.preview = s.preview /\ t.closed = s.closed

\* A pane of the one is as a pane of the other, but for its view.
SamePane(q, r) == q.buffer = r.buffer /\ q.tabs = r.tabs

\* What is there of a state.
LEMMA LaidParts ==
  ASSUME NEW s, NEW P, Laid(s, P)
  PROVE  /\ DOMAIN s = Fields
         /\ Len(s.buffers) \in Nat /\ Len(s.buffers) >= 1
         /\ DOMAIN s.buffers = 1..Len(s.buffers)
         /\ Len(s.panes) \in Nat /\ DOMAIN s.panes = 1..Len(s.panes)
         /\ s.panes = [k \in 1..Len(s.panes) |-> s.panes[k]]
         /\ s.current \in 1..Len(s.panes)
         /\ \A k \in 1..Len(s.panes) :
              /\ s.panes[k] \in Loose(Len(s.buffers))
              /\ k \notin P => s.panes[k] \in Tight(Len(s.buffers))
<1>1. s.buffers \in Seq(Bufs) /\ s.buffers # <<>> /\ DOMAIN s = Fields
  BY DEF Laid, Vector
<1>2. Len(s.buffers) \in Nat /\ Len(s.buffers) >= 1 /\ DOMAIN s.buffers = 1..Len(s.buffers)
  BY <1>1, LenProperties, EmptySeq
<1>3. /\ s.panes \in Seq(Loose(Len(s.buffers)))
      /\ \A k \in 1..Len(s.panes) : k \notin P => s.panes[k] \in Tight(Len(s.buffers))
      /\ s.current \in 1..Len(s.panes)
  BY DEF Laid, Layout
<1>4. /\ Len(s.panes) \in Nat /\ DOMAIN s.panes = 1..Len(s.panes)
      /\ \A k \in 1..Len(s.panes) : s.panes[k] \in Loose(Len(s.buffers))
  BY <1>3, ElementsOf
<1>5. s.panes = [k \in DOMAIN s.panes |-> s.panes[k]]
  BY <1>3
<1> QED BY <1>1, <1>2, <1>3, <1>4, <1>5

\* And what is in front.
LEMMA SoundParts ==
  ASSUME NEW s, NEW P, SoundBut(s, P)
  PROVE  /\ Laid(s, P)
         /\ DOMAIN s = Fields
         /\ Len(s.buffers) \in Nat /\ Len(s.buffers) >= 1
         /\ DOMAIN s.buffers = 1..Len(s.buffers)
         /\ Len(s.panes) \in Nat /\ DOMAIN s.panes = 1..Len(s.panes)
         /\ s.panes = [k \in 1..Len(s.panes) |-> s.panes[k]]
         /\ s.current \in 1..Len(s.panes)
         /\ s.shown = s.panes[s.current].buffer
         /\ s.shown \in 1..Len(s.buffers)
         /\ \A k \in 1..Len(s.panes) :
              /\ s.panes[k] \in Loose(Len(s.buffers))
              /\ k \notin P => s.panes[k] \in Tight(Len(s.buffers))
<1>1. Laid(s, P) /\ s.shown = s.panes[s.current].buffer
  BY DEF SoundBut
<1>2. s.shown \in 1..Len(s.buffers)
  BY <1>1, LaidParts, PaneParts
<1> QED BY <1>1, <1>2, LaidParts

\* The same, when every pane shows one of its tabs.
LEMMA AllSound ==
  ASSUME NEW s, SoundBut(s, {})
  PROVE  /\ Laid(s, {})
         /\ DOMAIN s = Fields
         /\ Len(s.buffers) \in Nat /\ Len(s.buffers) >= 1
         /\ DOMAIN s.buffers = 1..Len(s.buffers)
         /\ Len(s.panes) \in Nat /\ DOMAIN s.panes = 1..Len(s.panes)
         /\ s.panes = [k \in 1..Len(s.panes) |-> s.panes[k]]
         /\ s.current \in 1..Len(s.panes)
         /\ s.shown = s.panes[s.current].buffer
         /\ s.shown \in 1..Len(s.buffers)
         /\ \A k \in 1..Len(s.panes) :
              s.panes[k] \in Loose(Len(s.buffers)) /\ s.panes[k] \in Tight(Len(s.buffers))
<1> DEFINE none == {}
<1>1. SoundBut(s, none) /\ \A k : k \notin none
  OBVIOUS
<1> HIDE DEF none
<1>2. \A k \in 1..Len(s.panes) :
        s.panes[k] \in Loose(Len(s.buffers)) /\ s.panes[k] \in Tight(Len(s.buffers))
  BY <1>1, SoundParts
<1>3. Laid(s, none)
  BY <1>1, SoundParts
<1> QED BY <1>1, <1>2, <1>3, SoundParts DEF none

\* Another layout of the same buffers.
LEMMA Relaid ==
  ASSUME NEW s, NEW P, Laid(s, P), NEW t, SameVector(s, t), NEW Q, NEW m \in Nat,
         t.panes \in [1..m -> Loose(Len(s.buffers))],
         \A k \in 1..m : k \notin Q => t.panes[k] \in Tight(Len(s.buffers)),
         t.current \in 1..m,
         t.shown = t.panes[t.current].buffer
  PROVE  SoundBut(t, Q) /\ Len(t.panes) = m
<1> DEFINE S == Loose(Len(s.buffers))
           ps == t.panes
<1>1. ps \in [1..m -> S]
  OBVIOUS
<1> HIDE DEF S, ps
<1>2. ps \in Seq(S) /\ Len(ps) = m
  BY <1>1
<1>3. Layout(t, Q)
  BY <1>2 DEF Layout, SameVector, ps, S
<1>4. Vector(t)
  BY DEF Laid, Vector, SameVector
<1> QED BY <1>2, <1>3, <1>4 DEF SoundBut, Laid, ps

\* A pane that gets the focus is put in front, and nothing else changes.
LEMMA ActivatedIs ==
  ASSUME NEW s, NEW P, Laid(s, P), NEW p \in 1..Len(s.panes)
  PROVE  /\ SoundBut(Activated(s, p), P) /\ SameVector(s, Activated(s, p))
         /\ Activated(s, p).current = p
         /\ Len(Activated(s, p).panes) = Len(s.panes)
         /\ \A k \in 1..Len(s.panes) : SamePane(Activated(s, p).panes[k], s.panes[k])
<1> DEFINE t == Activated(s, p)
           n == Len(s.buffers)
           m == Len(s.panes)
           ps == s.panes
           c == s.current
<1>1. /\ DOMAIN s = Fields /\ m \in Nat /\ DOMAIN ps = 1..m /\ n \in Nat
      /\ c \in 1..m /\ ps = [k \in 1..m |-> ps[k]]
      /\ \A k \in 1..m : ps[k] \in Loose(n) /\ (k \notin P => ps[k] \in Tight(n))
  BY LaidParts
<1>2. CASE p = c
  <2>1. t = [s EXCEPT !.shown = ps[p].buffer]
    BY <1>2 DEF Activated
  <2>2. SameVector(s, t) /\ t.panes = ps /\ t.current = c /\ t.shown = ps[p].buffer
    BY <1>1, <2>1 DEF SameVector, Fields
  <2> HIDE DEF t, n, m, ps, c
  <2>3. t.panes \in [1..m -> Loose(n)]
    BY <1>1, <2>2
  <2>4. SoundBut(t, P) /\ Len(t.panes) = m
    BY <1>1, <1>2, <2>2, <2>3, Relaid DEF n
  <2> QED BY <1>1, <1>2, <2>2, <2>4 DEF t, m, ps, SamePane
<1>3. CASE p # c
  <2>1. t = [s EXCEPT !.panes = [s.panes EXCEPT ![s.current] = Captured(@),
                                                 ![p] = Restored(@)],
                      !.current = p,
                      !.shown = s.panes[p].buffer]
    BY <1>3 DEF Activated
  <2>2. /\ DOMAIN t = Fields /\ t.buffers = s.buffers /\ t.preview = s.preview
        /\ t.closed = s.closed /\ t.current = p /\ t.shown = ps[p].buffer
    BY <1>1, <2>1 DEF Fields
  <2> DEFINE qs == t.panes
  <2>3. /\ DOMAIN qs = 1..m
        /\ qs = [k \in 1..m |-> qs[k]]
        /\ \A k \in 1..m : qs[k] = IF k = p THEN Restored(ps[p])
                                   ELSE IF k = c THEN Captured(ps[c]) ELSE ps[k]
    BY <1>1, <1>3, <2>1 DEF Fields
  <2> HIDE DEF t, n, m, ps, c, qs
  <2>4. p \in 1..m
    BY DEF m, ps
  <2>5. \A k \in 1..m : qs[k] \in Loose(n) /\ SamePane(qs[k], ps[k])
    BY <1>1, <2>3, <2>4, ViewsKeep DEF SamePane
  <2>6. \A k \in 1..m : k \notin P => qs[k] \in Tight(n)
    BY <1>1, <2>5 DEF SamePane, Tight
  <2>7. qs \in [1..m -> Loose(n)]
    BY <2>3, <2>5
  <2>8. SameVector(s, t)
    BY <2>2 DEF SameVector
  <2>9. t.shown = t.panes[t.current].buffer
    BY <2>2, <2>4, <2>5 DEF SamePane, qs
  <2>10. SoundBut(t, P) /\ Len(t.panes) = m
    BY <1>1, <2>2, <2>4, <2>6, <2>7, <2>8, <2>9, Relaid DEF n, qs
  <2> QED BY <2>2, <2>5, <2>8, <2>10 DEF t, m, ps, qs
<1> QED BY <1>2, <1>3

\* Closing a pane leaves the others, in their order; the last pane stays.
LEMMA ClosingsAre ==
  ASSUME NEW s, NEW P, SoundBut(s, P), P \subseteq {s.current},
         Len(s.panes) = 1 => P = {}, NEW t \in PaneClosings(s)
  PROVE  /\ SoundBut(t, {}) /\ SameVector(s, t)
         /\ Len(s.panes) = 1 => t = s
         /\ Len(s.panes) > 1 =>
              /\ Len(t.panes) = Len(s.panes) - 1
              /\ \A k \in 1..(Len(s.panes) - 1) :
                   SamePane(t.panes[k], s.panes[IF k < s.current THEN k ELSE k + 1])
<1> DEFINE n == Len(s.buffers)
           m == Len(s.panes)
           ps == s.panes
           c == s.current
           rest == RemoveAt(ps, c)
<1>1. /\ Laid(s, P) /\ DOMAIN s = Fields /\ m \in Nat /\ DOMAIN ps = 1..m /\ n \in Nat /\ c \in 1..m
      /\ \A k \in 1..m : ps[k] \in Loose(n) /\ (k \notin P => ps[k] \in Tight(n))
  BY SoundParts
<1>2. CASE m = 1
  <2>1. t = s
    BY <1>2 DEF PaneClosings
  <2>2. SoundBut(t, {}) /\ SameVector(s, t)
    BY <1>1, <1>2, <2>1 DEF SameVector
  <2>3. ~(m > 1)
    BY <1>2
  <2> QED BY <2>1, <2>2, <2>3
<1>3. CASE m # 1
  <2>1. PICK x \in DOMAIN rest :
          t = [s EXCEPT !.panes = [rest EXCEPT ![x] = Restored(@)],
                        !.current = x,
                        !.shown = rest[x].buffer]
    BY <1>3 DEF PaneClosings
  <2> DEFINE qs == t.panes
             from(k) == IF k < c THEN k ELSE k + 1
  <2>2. /\ DOMAIN rest = 1..(m - 1)
        /\ \A k \in 1..(m - 1) : rest[k] = ps[from(k)]
    <3>1. ps \in Seq(Loose(n))
      BY <1>1 DEF Laid, Layout
    <3>2. /\ rest \in Seq(Loose(n)) /\ Len(rest) = m - 1
          /\ \A k \in 1..(m - 1) : rest[k] = IF k < c THEN ps[k] ELSE ps[k + 1]
      BY <1>1, <3>1, RemoveAtIs
    <3> HIDE DEF rest, ps, m, n, c
    <3> QED BY <3>2, LenProperties
  <2>3. /\ DOMAIN t = Fields /\ t.buffers = s.buffers /\ t.preview = s.preview
        /\ t.closed = s.closed /\ t.current = x /\ t.shown = rest[x].buffer
    BY <1>1, <2>1 DEF Fields
  <2>4. /\ qs = [k \in 1..(m - 1) |-> qs[k]]
        /\ \A k \in 1..(m - 1) : qs[k] = IF k = x THEN Restored(rest[k]) ELSE rest[k]
    BY <1>1, <2>1, <2>2 DEF Fields
  <2>5. /\ m - 1 \in Nat /\ x \in 1..(m - 1) /\ m > 1
        /\ \A k \in 1..(m - 1) : from(k) \in 1..m /\ from(k) # c
    BY <1>1, <1>3, <2>2
  <2> HIDE DEF n, m, ps, c, rest, qs, from
  <2>6. \A k \in 1..(m - 1) : rest[k] \in Loose(n) /\ rest[k] \in Tight(n)
    BY <1>1, <2>2, <2>5 DEF c
  <2>7. \A k \in 1..(m - 1) : qs[k] \in Loose(n) /\ SamePane(qs[k], rest[k])
    BY <1>1, <2>4, <2>6, ViewsKeep DEF SamePane
  <2>8. \A k \in 1..(m - 1) : qs[k] \in Tight(n)
    BY <2>6, <2>7 DEF SamePane, Tight
  <2>9. qs \in [1..(m - 1) -> Loose(n)]
    BY <2>4, <2>7
  <2>10. SameVector(s, t) /\ t.shown = t.panes[t.current].buffer
    BY <2>3, <2>5, <2>7 DEF SameVector, SamePane, qs
  <2>11. SoundBut(t, {}) /\ Len(t.panes) = m - 1
    BY <1>1, <2>3, <2>5, <2>8, <2>9, <2>10, Relaid DEF n, qs
  <2>12. \A k \in 1..(m - 1) : SamePane(t.panes[k], ps[from(k)])
    BY <2>2, <2>7 DEF qs
  <2> QED BY <1>3, <2>5, <2>10, <2>11, <2>12 DEF m, ps, c, from
<1> QED BY <1>2, <1>3

\* t is s with a pane more, which shows b and has these tabs besides.
Grows(s, t, tabs, b) ==
  /\ SoundBut(t, {}) /\ SameVector(s, t)
  /\ Len(t.panes) = Len(s.panes) + 1
  /\ \A k \in 1..Len(s.panes) : SamePane(t.panes[k], s.panes[k])
  /\ ToSet(t.panes[Len(s.panes) + 1].tabs) = ToSet(tabs) \cup {b}

\* A pane that is split off has a tab of what it shows, and the others are as before.
LEMMA SplitOffIs ==
  ASSUME NEW s, SoundBut(s, {}), NEW target, NEW b \in 1..Len(s.buffers),
         NEW tabs, Strip(tabs, Len(s.buffers))
  PROVE  Grows(s, SplitOff(s, target, b, tabs), tabs, b)
<1> DEFINE n == Len(s.buffers)
           m == Len(s.panes)
           ps == s.panes
           left == IF target = s.current THEN [ps EXCEPT ![s.current] = Captured(@)] ELSE ps
           all == WithTab(tabs, b)
           blank == PaneOf(b, all, 0, 0)
           new == Restored(blank)
           t == SplitOff(s, target, b, tabs)
           qs == Append(left, new)
<1>1. /\ Laid(s, {}) /\ DOMAIN s = Fields /\ m \in Nat /\ DOMAIN ps = 1..m /\ n \in Nat /\ s.current \in 1..m
      /\ \A k \in 1..m : ps[k] \in Loose(n) /\ ps[k] \in Tight(n)
  BY AllSound
<1>2. t = [s EXCEPT !.panes = qs, !.current = Len(left) + 1, !.shown = b]
  BY DEF SplitOff, PaneOf
<1>3. /\ DOMAIN t = Fields /\ t.buffers = s.buffers /\ t.preview = s.preview
      /\ t.closed = s.closed /\ t.panes = qs /\ t.current = Len(left) + 1 /\ t.shown = b
  BY <1>1, <1>2 DEF Fields
<1>4. Strip(all, n) /\ ToSet(all) = ToSet(tabs) \cup {b}
  BY <1>1, WithTabIs
<1>5. /\ new \in Loose(n) /\ new \in Tight(n) /\ new.buffer = b /\ new.tabs = all
  <2>1. blank \in Loose(n) /\ blank.buffer = b /\ blank.tabs = all
    <3> HIDE DEF all, n
    <3>1. 0 \in Nat /\ 0 \in 0..n /\ b \in 1..n
      BY <1>1 DEF n
    <3> QED BY <1>1, <1>4, <3>1, PaneHas
  <2> HIDE DEF all, n, blank
  <2>2. new \in Loose(n) /\ new.buffer = b /\ new.tabs = all
    BY <1>1, <2>1, ViewsKeep
  <2> QED BY <1>4, <2>2 DEF Tight
<1>6. /\ left \in Seq(Loose(n)) /\ Len(left) = m
      /\ \A k \in 1..m : left[k] \in Loose(n) /\ SamePane(left[k], ps[k])
  <2>1. \A k \in 1..m : left[k] \in Loose(n) /\ SamePane(left[k], ps[k])
    BY <1>1, ViewsKeep DEF SamePane
  <2>2. DOMAIN left = 1..m /\ left = [k \in 1..m |-> left[k]]
    <3>1. ps \in Seq(Loose(n))
      BY <1>1 DEF Laid, Layout
    <3>2. ps = [k \in 1..m |-> ps[k]]
      BY <3>1
    <3> QED BY <1>1, <3>2
  <2> HIDE DEF left, m, n, ps
  <2>3. left \in [1..m -> Loose(n)]
    BY <2>1, <2>2
  <2> QED BY <1>1, <2>1, <2>3
<1> HIDE DEF n, m, ps, left, all, blank, new, t
<1>7. /\ qs \in Seq(Loose(n)) /\ Len(qs) = m + 1 /\ qs[m + 1] = new
      /\ \A k \in 1..m : qs[k] = left[k]
  BY <1>5, <1>6, AppendProperties
<1> HIDE DEF qs
<1>8. /\ qs \in [1..(m + 1) -> Loose(n)] /\ m + 1 \in Nat /\ m + 1 \in 1..(m + 1)
      /\ \A k \in 1..(m + 1) : k \in 1..m \/ k = m + 1
  BY <1>1, <1>7
<1>9. \A k \in 1..(m + 1) : qs[k] \in Tight(n)
  <2>1. \A k \in 1..m : qs[k] \in Tight(n)
    BY <1>1, <1>6, <1>7 DEF SamePane, Tight
  <2> QED BY <1>5, <1>7, <1>8, <2>1
<1>10. SameVector(s, t) /\ t.current = m + 1 /\ t.shown = t.panes[t.current].buffer
  BY <1>3, <1>5, <1>6, <1>7 DEF SameVector
<1>11. SoundBut(t, {}) /\ Len(t.panes) = m + 1
  BY <1>1, <1>3, <1>8, <1>9, <1>10, Relaid DEF n
<1>12. /\ \A k \in 1..m : SamePane(t.panes[k], ps[k])
       /\ ToSet(t.panes[m + 1].tabs) = ToSet(tabs) \cup {b}
  BY <1>3, <1>4, <1>5, <1>6, <1>7
<1> QED BY <1>10, <1>11, <1>12 DEF Grows, t, m, ps

\* One pane is another; if it has the focus, so has what it shows.
LEMMA Repaned ==
  ASSUME NEW s, NEW P, SoundBut(s, P), NEW p \in 1..Len(s.panes),
         NEW q \in Loose(Len(s.buffers)), NEW t, SameVector(s, t),
         t.panes = [s.panes EXCEPT ![p] = q], t.current = s.current,
         t.shown = IF p = s.current THEN q.buffer ELSE s.shown
  PROVE  /\ SoundBut(t, P \cup {p})
         /\ q \in Tight(Len(s.buffers)) => SoundBut(t, P \ {p})
         /\ Len(t.panes) = Len(s.panes) /\ t.panes[p] = q
         /\ \A k \in 1..Len(s.panes) : k # p => t.panes[k] = s.panes[k]
<1> DEFINE n == Len(s.buffers)
           m == Len(s.panes)
           ps == s.panes
           qs == t.panes
<1>1. /\ Laid(s, P) /\ m \in Nat /\ DOMAIN ps = 1..m /\ s.current \in 1..m /\ s.shown = ps[s.current].buffer
      /\ \A k \in 1..m : ps[k] \in Loose(n) /\ (k \notin P => ps[k] \in Tight(n))
  BY SoundParts
<1>2. /\ qs = [k \in 1..m |-> qs[k]] /\ qs[p] = q
      /\ \A k \in 1..m : k # p => qs[k] = ps[k]
  <2>1. ps \in Seq(Loose(n))
    BY <1>1 DEF Laid, Layout
  <2>2. ps = [k \in 1..m |-> ps[k]]
    BY <2>1
  <2> QED BY <1>1, <2>2
<1> HIDE DEF n, m, ps, qs
<1>3. p \in 1..m /\ q \in Loose(n)
  BY DEF m, n, ps
<1>4. qs \in [1..m -> Loose(n)]
  BY <1>1, <1>2, <1>3
<1>5. t.current \in 1..m /\ t.shown = qs[t.current].buffer
  BY <1>1, <1>2, <1>3
<1>6. SoundBut(t, P \cup {p}) /\ Len(t.panes) = m
  <2>1. \A k \in 1..m : k \notin P \cup {p} => qs[k] \in Tight(n)
    BY <1>1, <1>2
  <2> QED BY <1>1, <1>4, <1>5, <2>1, Relaid DEF n, qs
<1>7. ASSUME q \in Tight(n) PROVE SoundBut(t, P \ {p})
  <2>1. \A k \in 1..m : k \notin P \ {p} => qs[k] \in Tight(n)
    BY <1>1, <1>2, <1>7
  <2> QED BY <1>1, <1>4, <1>5, <2>1, Relaid DEF n, qs
<1> QED BY <1>2, <1>6, <1>7 DEF m, n, ps, qs

\* t is s with pane q in place of the p-th.
Changed(s, t, p, q) ==
  /\ SoundBut(t, {}) /\ Len(t.panes) = Len(s.panes) /\ t.panes[p] = q
  /\ \A k \in 1..Len(s.panes) : k # p => t.panes[k] = s.panes[k]

\* Such a change keeps the state sound if the pane is.
LEMMA ChangedIs ==
  ASSUME NEW s, SoundBut(s, {}), NEW p \in 1..Len(s.panes),
         NEW q \in Tight(Len(s.buffers)), NEW t, SameVector(s, t),
         t.panes = [s.panes EXCEPT ![p] = q], t.current = s.current,
         t.shown = IF p = s.current THEN q.buffer ELSE s.shown
  PROVE  Changed(s, t, p, q)
<1> DEFINE none == {}
<1>1. SoundBut(s, none) /\ none \ {p} = {}
  OBVIOUS
<1> HIDE DEF none
<1>2. q \in Loose(Len(s.buffers)) /\ q \in Tight(Len(s.buffers))
  BY DEF Tight
<1>3. SoundBut(t, none \ {p})
  BY <1>1, <1>2, Repaned
<1>4. Len(t.panes) = Len(s.panes) /\ t.panes[p] = q
  BY <1>1, <1>2, Repaned
<1>5. \A k \in 1..Len(s.panes) : k # p => t.panes[k] = s.panes[k]
  BY <1>1, <1>2, Repaned
<1> QED BY <1>1, <1>3, <1>4, <1>5 DEF Changed

\* t is s without the tab of b in pane p, which goes on showing one of its tabs
\* unless that was the last.
Loses(s, t, p, b) ==
  /\ SoundBut(t, {p}) /\ SameVector(s, t)
  /\ t.panes[p].tabs # <<>> => SoundBut(t, {})
  /\ t.current = s.current /\ Len(t.panes) = Len(s.panes)
  /\ ToSet(t.panes[p].tabs) = ToSet(s.panes[p].tabs) \ {b}
  /\ Len(t.panes[p].tabs) = Len(s.panes[p].tabs) - 1
  /\ \A k \in 1..Len(s.panes) : k # p => t.panes[k] = s.panes[k]

\* A tab taken from a pane.
LEMMA DetachedIs ==
  ASSUME NEW s, SoundBut(s, {}), NEW p \in 1..Len(s.panes), NEW b \in ToSet(s.panes[p].tabs),
         NEW t, t = Detached(s, p, b)
  PROVE  Loses(s, t, p, b)
<1> DEFINE n == Len(s.buffers)
           m == Len(s.panes)
           ps == s.panes
           pane == ps[p]
           k == CHOOSE i \in DOMAIN pane.tabs : pane.tabs[i] = b
           tabs == RemoveAt(pane.tabs, k)
           next == tabs[IF k <= Len(tabs) THEN k ELSE Len(tabs)]
           bare == [pane EXCEPT !.tabs = tabs]
           turned == [pane EXCEPT !.tabs = tabs, !.buffer = next]
<1>1. /\ DOMAIN s = Fields /\ m \in Nat /\ n \in Nat /\ DOMAIN ps = 1..m /\ s.current \in 1..m
      /\ s.shown = ps[s.current].buffer /\ pane \in Loose(n) /\ pane \in Tight(n)
  BY AllSound
<1>2. /\ pane.buffer \in 1..n /\ pane.buffer \in ToSet(pane.tabs) /\ Strip(pane.tabs, n)
      /\ pane.view \in Nat /\ pane.viewOf \in 0..n /\ pane.tabs \in Seq(1..n)
  <2> HIDE DEF pane, n
  <2> QED BY <1>1, PaneParts
<1>3. k \in 1..Len(pane.tabs) /\ pane.tabs[k] = b
  <2>1. DOMAIN pane.tabs = 1..Len(pane.tabs) /\ \E i \in 1..Len(pane.tabs) : pane.tabs[i] = b
    <3> HIDE DEF n
    <3> QED BY <1>2, ElementsOf
  <2> QED BY <2>1
<1> HIDE DEF k
<1>4. /\ Strip(tabs, n) /\ ToSet(tabs) = ToSet(pane.tabs) \ {b}
      /\ Len(tabs) = Len(pane.tabs) - 1
  <2> HIDE DEF pane, n
  <2> QED BY <1>1, <1>2, <1>3, RemovedTabIs, Zenon
<1>5. tabs # <<>> => next \in ToSet(tabs) /\ next \in 1..n
  <2> HIDE DEF tabs, n
  <2>1. tabs \in Seq(1..n)
    BY <1>4 DEF Strip
  <2>2. Len(tabs) \in Nat /\ \A i \in 1..Len(tabs) : tabs[i] \in 1..n /\ tabs[i] \in ToSet(tabs)
    BY <2>1, ElementsOf
  <2>3. tabs # <<>> => Len(tabs) >= 1
    BY <2>1, <2>2, EmptySeq
  <2>4. tabs # <<>> => (IF k <= Len(tabs) THEN k ELSE Len(tabs)) \in 1..Len(tabs)
    BY <1>3, <2>2, <2>3
  <2> QED BY <2>2, <2>4
<1>6. /\ bare = PaneOf(pane.buffer, tabs, pane.view, pane.viewOf)
      /\ turned = PaneOf(next, tabs, pane.view, pane.viewOf)
  <2> HIDE DEF pane, tabs, next, n
  <2>1. n \in Nat /\ pane \in Loose(n)
    BY <1>1
  <2>2. \A x : [pane EXCEPT !.tabs = x] = PaneOf(pane.buffer, x, pane.view, pane.viewOf)
    BY <2>1, PaneWith
  <2>3. \A x, y : [pane EXCEPT !.tabs = x, !.buffer = y] =
                    PaneOf(y, x, pane.view, pane.viewOf)
    BY <2>1, PaneWith, Zenon
  <2> QED BY <2>2, <2>3
<1>7. bare \in Loose(n) /\ bare.buffer = pane.buffer /\ bare.tabs = tabs
  <2> HIDE DEF pane, tabs, n, bare
  <2> QED BY <1>1, <1>2, <1>4, <1>6, PaneHas
<1>8. tabs # <<>> => turned \in Loose(n) /\ turned.buffer = next /\ turned.tabs = tabs
  <2> HIDE DEF pane, tabs, n, turned, next
  <2> QED BY <1>1, <1>2, <1>4, <1>5, <1>6, PaneHas
<1> DEFINE q == IF tabs = <<>> \/ pane.buffer # b THEN bare
                ELSE IF p # s.current THEN turned ELSE Restored(turned)
<1>9. /\ DOMAIN t = Fields /\ t.buffers = s.buffers /\ t.preview = s.preview /\ t.closed = s.closed
      /\ t.current = s.current /\ t.panes = [ps EXCEPT ![p] = q]
      /\ t.shown = IF tabs # <<>> /\ pane.buffer = b /\ p = s.current THEN next ELSE s.shown
  <2>1. CASE tabs = <<>> \/ pane.buffer # b
    <3>1. t = [s EXCEPT !.panes[p].tabs = tabs]
      BY <2>1 DEF Detached, k
    <3> HIDE DEF tabs
    <3> QED BY <1>1, <2>1, <3>1 DEF Fields
  <2>2. CASE tabs # <<>> /\ pane.buffer = b /\ p # s.current
    <3>1. t = [s EXCEPT !.panes[p] = turned]
      BY <2>2 DEF Detached, k
    <3> HIDE DEF tabs, turned
    <3> QED BY <1>1, <2>2, <3>1 DEF Fields
  <2>3. CASE tabs # <<>> /\ pane.buffer = b /\ p = s.current
    <3>1. t = [s EXCEPT !.panes[p] = Restored(turned), !.shown = next]
      BY <2>3 DEF Detached, k
    <3> HIDE DEF tabs, turned, next
    <3> QED BY <1>1, <2>3, <3>1 DEF Fields
  <2> HIDE DEF tabs
  <2> QED BY <2>1, <2>2, <2>3
<1>10. /\ q \in Loose(n) /\ q.tabs = tabs
       /\ tabs # <<>> => q \in Tight(n)
       /\ q.buffer = IF tabs # <<>> /\ pane.buffer = b THEN next ELSE pane.buffer
  <2> HIDE DEF bare, turned, tabs, next, pane, n
  <2>1. CASE tabs = <<>> \/ pane.buffer # b
    <3>1. tabs # <<>> => bare.buffer \in ToSet(bare.tabs)
      BY <1>2, <1>4, <1>7, <2>1
    <3> QED BY <1>7, <2>1, <3>1 DEF Tight
  <2>2. CASE tabs # <<>> /\ pane.buffer = b
    <3>1. /\ Restored(turned) \in Loose(n) /\ Restored(turned).buffer = next
          /\ Restored(turned).tabs = tabs
      BY <1>1, <1>8, <2>2, ViewsKeep
    <3> QED BY <1>5, <1>8, <2>2, <3>1 DEF Tight
  <2> QED BY <2>1, <2>2
<1> HIDE DEF q, tabs, next, k, bare, turned
<1>11. SameVector(s, t) /\ t.shown = IF p = s.current THEN q.buffer ELSE s.shown
  BY <1>1, <1>9, <1>10 DEF SameVector
<1>12. /\ SoundBut(t, {} \cup {p})
       /\ q \in Tight(n) => SoundBut(t, {} \ {p})
       /\ Len(t.panes) = m /\ t.panes[p] = q
       /\ \A i \in 1..m : i # p => t.panes[i] = ps[i]
  <2> DEFINE none == {}
  <2>1. SoundBut(s, none)
    OBVIOUS
  <2> HIDE DEF none
  <2>2. /\ SoundBut(t, none \cup {p})
        /\ q \in Tight(n) => SoundBut(t, none \ {p})
        /\ Len(t.panes) = m /\ t.panes[p] = q
        /\ \A i \in 1..m : i # p => t.panes[i] = ps[i]
    <3>1. /\ q \in Loose(Len(s.buffers)) /\ SameVector(s, t)
          /\ t.panes = [s.panes EXCEPT ![p] = q] /\ t.current = s.current
          /\ t.shown = IF p = s.current THEN q.buffer ELSE s.shown
      BY <1>9, <1>10, <1>11
    <3> HIDE DEF q
    <3>2. p \in 1..Len(s.panes)
      OBVIOUS
    <3>3. SoundBut(t, none \cup {p})
      BY <2>1, <3>1, <3>2, Repaned, Zenon
    <3>4. q \in Tight(n) => SoundBut(t, none \ {p})
      BY <2>1, <3>1, <3>2, Repaned
    <3>5. Len(t.panes) = m /\ t.panes[p] = q
      BY <2>1, <3>1, <3>2, Repaned
    <3>6. \A i \in 1..m : i # p => t.panes[i] = ps[i]
      BY <2>1, <3>1, <3>2, Repaned
    <3> QED BY <3>3, <3>4, <3>5, <3>6
  <2> QED BY <2>2 DEF none
<1>13. {} \cup {p} = {p} /\ {} \ {p} = {}
  OBVIOUS
<1> QED BY <1>4, <1>9, <1>10, <1>11, <1>12, <1>13 DEF Loses

-----------------------------------------------------------------------------
(* Drags *)

\* The panes in which buffer x has a tab.
Holders(ps, x) == {k \in DOMAIN ps : x \in ToSet(ps[k].tabs)}

\* As many panes have a tab of each buffer but b.
OthersStay(ps, qs, b) ==
  \A x : x # b => Cardinality(Holders(qs, x)) = Cardinality(Holders(ps, x))

\* Closing a pane without tabs takes no tab away.
LEMMA EmptyGroupCloses ==
  ASSUME NEW ps, NEW qs, NEW m \in Nat, NEW c \in 1..m,
         DOMAIN ps = 1..m, DOMAIN qs = 1..(m - 1), ps[c].tabs = <<>>,
         \A k \in 1..(m - 1) : SamePane(qs[k], ps[IF k < c THEN k ELSE k + 1])
  PROVE  \A x : Cardinality(Holders(qs, x)) = Cardinality(Holders(ps, x))
<1> SUFFICES ASSUME NEW x
             PROVE  Cardinality(Holders(qs, x)) = Cardinality(Holders(ps, x))
  OBVIOUS
<1> DEFINE S == Holders(qs, x)
           T == Holders(ps, x)
           at(k) == IF k < c THEN k ELSE k + 1
           f == [k \in S |-> at(k)]
<1>1. S \subseteq 1..(m - 1) /\ T \subseteq 1..m
  BY DEF Holders
<1>2. \A k \in 1..(m - 1) : at(k) \in 1..m /\ (k \in S <=> at(k) \in T)
  BY DEF Holders, SamePane
<1>3. c \notin T
  BY DEF Holders, ToSet
<1>4. \A j \in T : \E k \in S : at(k) = j
  <2> SUFFICES ASSUME NEW j \in T PROVE \E k \in S : at(k) = j
    OBVIOUS
  <2> DEFINE k == IF j < c THEN j ELSE j - 1
  <2>1. k \in 1..(m - 1) /\ at(k) = j
    BY <1>1, <1>3
  <2> HIDE DEF k, S, T, at
  <2> QED BY <1>2, <2>1
<1>5. \A j, k \in S : at(j) = at(k) => j = k
  BY <1>1
<1> HIDE DEF S, T, at
<1>6. f \in [S -> T]
  BY <1>1, <1>2
<1>7. f \in Bijection(S, T)
  <2>1. DOMAIN f = S /\ \A k \in S : f[k] = at(k)
    OBVIOUS
  <2> HIDE DEF f
  <2>2. IsInjective(f)
    BY <1>5, <2>1 DEF IsInjective
  <2>3. \A j \in T : \E k \in S : f[k] = j
    BY <1>4, <2>1
  <2> QED BY <1>6, <2>2, <2>3 DEF Bijection, Injection, Surjection
<1>8. IsFiniteSet(S)
  <2>1. IsFiniteSet(1..(m - 1))
    BY FS_Interval
  <2> QED BY <1>1, <2>1, FS_Subset
<1>9. ExistsBijection(S, T)
  BY <1>7 DEF ExistsBijection
<1>10. Cardinality(T) = Cardinality(S)
  BY <1>8, <1>9, FS_Bijection
<1> QED BY <1>10 DEF S, T

\* Panes with the same tabs have the same holders.
LEMMA SameHolders ==
  ASSUME NEW ps, NEW qs, NEW m \in Nat, DOMAIN ps = 1..m, DOMAIN qs = 1..m, NEW b,
         \A k \in 1..m : ToSet(qs[k].tabs) \ {b} = ToSet(ps[k].tabs) \ {b}
  PROVE  OthersStay(ps, qs, b)
<1> SUFFICES ASSUME NEW x, x # b PROVE Holders(qs, x) = Holders(ps, x)
  BY DEF OthersStay
<1>1. \A k \in 1..m : x \in ToSet(qs[k].tabs) <=> x \in ToSet(ps[k].tabs)
  OBVIOUS
<1> QED BY <1>1 DEF Holders

\* A tab taken out of its pane, which goes if that was its last: the other tabs
\* stay, and so does the pane the tab is for.
LEMMA TakenOutIs ==
  ASSUME SoundBut(Here, {}), NEW src \in 1..Len(panes), NEW dst \in 1..Len(panes),
         NEW b \in ToSet(panes[src].tabs), ~(src = dst /\ Len(panes[src].tabs) = 1),
         NEW out \in TakenOut(b, src, dst)
  PROVE  /\ SoundBut(out[1], {}) /\ SameVector(Here, out[1])
         /\ out[2] \in 1..Len(out[1].panes)
         /\ OthersStay(panes, out[1].panes, b)
<1> DEFINE h == Here
           s == Detached(h, src, b)
           m == Len(panes)
<1>1. h.panes = panes /\ h.buffers = buffers /\ Len(panes) = m
  BY DEF Here
<1> HIDE DEF h
<1>2. SoundBut(h, {}) /\ src \in 1..Len(h.panes) /\ b \in ToSet(h.panes[src].tabs)
  BY <1>1 DEF h
<1>3. /\ SoundBut(s, {src}) /\ SameVector(h, s)
      /\ s.panes[src].tabs # <<>> => SoundBut(s, {})
      /\ s.current = h.current /\ Len(s.panes) = m
      /\ ToSet(s.panes[src].tabs) = ToSet(panes[src].tabs) \ {b}
      /\ Len(s.panes[src].tabs) = Len(panes[src].tabs) - 1
      /\ \A k \in 1..m : k # src => s.panes[k] = panes[k]
  <2>1. Loses(h, s, src, b)
    BY <1>2, DetachedIs
  <2> QED BY <1>1, <2>1 DEF Loses
<1>4. m \in Nat /\ DOMAIN panes = 1..m /\ panes[src] \in Loose(Len(buffers)) /\ Len(buffers) \in Nat
  BY <1>1, <1>2, AllSound
<1>5. DOMAIN s.panes = 1..m
  BY <1>3, SoundParts
<1>6. OthersStay(panes, s.panes, b)
  <2>1. \A k \in 1..m : ToSet(s.panes[k].tabs) \ {b} = ToSet(panes[k].tabs) \ {b}
    BY <1>3
  <2> HIDE DEF m, s
  <2> QED BY <1>4, <1>5, <2>1, SameHolders
<1>7. CASE s.panes[src].tabs # <<>>
  <2>1. out = <<s, dst>>
    BY <1>7 DEF TakenOut, h
  <2> QED BY <1>3, <1>6, <1>7, <2>1 DEF h
<1>8. CASE s.panes[src].tabs = <<>>
  <2> DEFINE a == Activated(s, src)
             to == IF src < dst THEN dst - 1 ELSE dst
  <2>1. PICK t \in PaneClosings(a) : out = <<t, to>>
    BY <1>8 DEF TakenOut, h
  <2>2. src # dst
    <3>1. Len(panes[src].tabs) - 1 = 0
      BY <1>3, <1>8
    <3>2. Len(panes[src].tabs) \in Nat
      BY <1>4, PaneParts, LenProperties
    <3> QED BY <3>1, <3>2
  <2>3. m > 1
    BY <1>4, <2>2
  <2> HIDE DEF s
  <2>4. Laid(s, {src}) /\ src \in 1..Len(s.panes)
    BY <1>3, SoundParts
  <2>5. /\ SoundBut(a, {src}) /\ SameVector(s, a) /\ a.current = src /\ Len(a.panes) = m
        /\ \A k \in 1..m : SamePane(a.panes[k], s.panes[k])
    BY <1>3, <2>4, ActivatedIs
  <2> HIDE DEF a, m
  <2>6. DOMAIN a.panes = 1..m
    BY <2>5, SoundParts
  <2>7. /\ SoundBut(t, {}) /\ SameVector(a, t) /\ Len(t.panes) = m - 1
        /\ \A k \in 1..(m - 1) : SamePane(t.panes[k], a.panes[IF k < src THEN k ELSE k + 1])
    <3> DEFINE P == {src}
    <3>1. SoundBut(a, P) /\ P \subseteq {a.current} /\ ~(Len(a.panes) = 1) /\ Len(a.panes) > 1
      BY <2>3, <2>5
    <3> HIDE DEF P
    <3> QED BY <2>1, <2>5, <3>1, ClosingsAre
  <2>8. DOMAIN t.panes = 1..(m - 1)
    BY <2>7, AllSound
  <2>9. \A x : Cardinality(Holders(t.panes, x)) = Cardinality(Holders(a.panes, x))
    <3>1. a.panes[src].tabs = <<>> /\ src \in 1..m
      BY <1>8, <2>4, <2>5, <1>3 DEF SamePane
    <3> QED BY <1>4, <2>6, <2>7, <2>8, <3>1, EmptyGroupCloses
  <2>10. OthersStay(s.panes, a.panes, b)
    <3>1. \A k \in 1..m : ToSet(a.panes[k].tabs) \ {b} = ToSet(s.panes[k].tabs) \ {b}
      BY <2>5 DEF SamePane
    <3> QED BY <1>4, <1>5, <2>6, <3>1, SameHolders
  <2>11. OthersStay(panes, t.panes, b)
    BY <1>6, <2>9, <2>10 DEF OthersStay
  <2>12. SameVector(h, t)
    BY <1>3, <2>5, <2>7 DEF SameVector
  <2>13. to \in 1..(m - 1)
    BY <1>4, <2>2 DEF m
  <2> QED BY <2>1, <2>7, <2>11, <2>12, <2>13 DEF h
<1> QED BY <1>7, <1>8

\* A tab put into a strip, at a slot or at the end, and taken from where it was.
PutIn(tabs, b, slot) ==
  LET rest == WithoutTab(tabs, b)
  IN  InsertAt(rest, IF slot <= Len(rest) THEN slot ELSE Len(rest) + 1, b)

\* The strip gains the tab and no other, and has none twice.
LEMMA PutInIs ==
  ASSUME NEW n \in Nat, NEW tabs, Strip(tabs, n), NEW b \in 1..n, NEW slot \in Nat, slot >= 1
  PROVE  Strip(PutIn(tabs, b, slot), n) /\ ToSet(PutIn(tabs, b, slot)) = ToSet(tabs) \cup {b}
<1> DEFINE rest == WithoutTab(tabs, b)
           at == IF slot <= Len(rest) THEN slot ELSE Len(rest) + 1
<1>1. Strip(rest, n) /\ ToSet(rest) = ToSet(tabs) \ {b}
  BY WithoutTabIs
<1>2. PutIn(tabs, b, slot) = InsertAt(rest, at, b)
  BY DEF PutIn
<1> HIDE DEF rest
<1>3. Len(rest) \in Nat
  BY <1>1, LenProperties DEF Strip
<1>4. at \in 1..(Len(rest) + 1)
  BY <1>3
<1> HIDE DEF at
<1>5. Strip(InsertAt(rest, at, b), n) /\ ToSet(InsertAt(rest, at, b)) = ToSet(rest) \cup {b}
  BY <1>1, <1>4, InsertedTabIs
<1> QED BY <1>1, <1>2, <1>5

\* t is s after a drag of b: only b's tab moved.
Drags(s, t, b) ==
  /\ SoundBut(t, {}) /\ SameVector(s, t)
  /\ \E p \in DOMAIN t.panes : b \in ToSet(t.panes[p].tabs)
  /\ OthersStay(s.panes, t.panes, b)

\* A tab moved within its strip.
LEMMA MovesWithin ==
  ASSUME NEW s, SoundBut(s, {}), NEW p \in 1..Len(s.panes),
         NEW b \in ToSet(s.panes[p].tabs), NEW slot \in Nat, slot >= 1,
         NEW t, t = [s EXCEPT !.panes[p].tabs = PutIn(s.panes[p].tabs, b, slot)]
  PROVE  Drags(s, t, b)
<1> DEFINE n == Len(s.buffers)
           m == Len(s.panes)
           ps == s.panes
           tabs == PutIn(ps[p].tabs, b, slot)
           q == [ps[p] EXCEPT !.tabs = tabs]
<1>1. /\ DOMAIN s = Fields /\ n \in Nat /\ m \in Nat /\ DOMAIN ps = 1..m
      /\ ps[p] \in Loose(n) /\ ps[p] \in Tight(n) /\ s.shown = ps[s.current].buffer
  BY AllSound
<1>2. /\ Strip(ps[p].tabs, n) /\ b \in 1..n
      /\ ps[p].buffer \in ToSet(ps[p].tabs)
  BY <1>1, PaneParts
<1>3. Strip(tabs, n) /\ ToSet(tabs) = ToSet(ps[p].tabs)
  <2>1. Strip(tabs, n) /\ ToSet(tabs) = ToSet(ps[p].tabs) \cup {b}
    BY <1>1, <1>2, PutInIs
  <2> QED BY <2>1
<1> HIDE DEF tabs
<1>4. q \in Loose(n) /\ q \in Tight(n) /\ q.buffer = ps[p].buffer /\ q.tabs = tabs
  <2> HIDE DEF n, ps
  <2> QED BY <1>1, <1>2, <1>3, RetabbedIs
<1>5. /\ SameVector(s, t) /\ t.panes = [s.panes EXCEPT ![p] = q] /\ t.current = s.current
      /\ t.shown = IF p = s.current THEN q.buffer ELSE s.shown
  <2>1. t = [s EXCEPT !.panes[p].tabs = tabs]
    BY DEF tabs
  <2>2. t.panes = [s.panes EXCEPT ![p] = q] /\ t.current = s.current /\ t.shown = s.shown
    BY <1>1, <2>1 DEF Fields
  <2>3. SameVector(s, t)
    BY <1>1, <2>1 DEF Fields, SameVector
  <2> HIDE DEF q
  <2> QED BY <1>1, <1>4, <2>2, <2>3
<1> HIDE DEF q
<1>6. /\ SoundBut(t, {}) /\ Len(t.panes) = m /\ t.panes[p] = q
      /\ \A k \in 1..m : k # p => t.panes[k] = ps[k]
  <2>1. q \in Tight(Len(s.buffers))
    BY <1>4
  <2>2. Changed(s, t, p, q)
    BY <1>5, <2>1, ChangedIs
  <2> QED BY <2>2 DEF Changed
<1>7. DOMAIN t.panes = 1..m
  BY <1>6, AllSound
<1>8. \A k \in 1..m : ToSet(t.panes[k].tabs) \ {b} = ToSet(ps[k].tabs) \ {b}
  BY <1>3, <1>4, <1>6
<1>9. OthersStay(ps, t.panes, b)
  <2> HIDE DEF m, ps
  <2> QED BY <1>1, <1>7, <1>8, SameHolders
<1>10. b \in ToSet(t.panes[p].tabs) /\ p \in DOMAIN t.panes
  BY <1>3, <1>4, <1>6, <1>7
<1> QED BY <1>5, <1>6, <1>9, <1>10 DEF Drags

\* A tab put into another pane, which shows it and gets the focus.
LEMMA MovesInto ==
  ASSUME NEW s, SoundBut(s, {}), NEW p \in 1..Len(s.panes),
         NEW b \in 1..Len(s.buffers), NEW slot \in Nat, slot >= 1,
         NEW u, u = [s EXCEPT !.panes[p] =
                      [@ EXCEPT !.tabs = PutIn(s.panes[p].tabs, b, slot), !.buffer = b]]
  PROVE  Drags(s, Activated(u, p), b)
<1> DEFINE n == Len(s.buffers)
           m == Len(s.panes)
           ps == s.panes
           tabs == PutIn(ps[p].tabs, b, slot)
           q == [ps[p] EXCEPT !.tabs = tabs, !.buffer = b]
           t == Activated(u, p)
<1>1. /\ DOMAIN s = Fields /\ n \in Nat /\ m \in Nat /\ DOMAIN ps = 1..m /\ s.current \in 1..m
      /\ Laid(s, {}) /\ ps = [k \in 1..m |-> ps[k]]
      /\ \A k \in 1..m : ps[k] \in Loose(n) /\ ps[k] \in Tight(n)
  BY AllSound
<1>2. Strip(ps[p].tabs, n) /\ ps[p].view \in Nat /\ ps[p].viewOf \in 0..n
  BY <1>1, PaneParts
<1>3. Strip(tabs, n) /\ ToSet(tabs) = ToSet(ps[p].tabs) \cup {b}
  <2>1. b \in 1..n
    OBVIOUS
  <2> HIDE DEF n, ps
  <2>2. Strip(ps[p].tabs, n) /\ n \in Nat
    BY <1>1, <1>2
  <2> QED BY <2>1, <2>2, PutInIs
<1> HIDE DEF tabs
<1>4. q \in Loose(n) /\ q \in Tight(n) /\ q.buffer = b /\ q.tabs = tabs
  <2> DEFINE o == ps[p]
  <2>1. n \in Nat /\ o \in Loose(n) /\ b \in 1..n
    BY <1>1
  <2>2. q = [o EXCEPT !.tabs = tabs, !.buffer = b]
    OBVIOUS
  <2> HIDE DEF n, o, q
  <2>3. q = PaneOf(b, tabs, o.view, o.viewOf)
    <3>1. \A x, y : [o EXCEPT !.tabs = x, !.buffer = y] = PaneOf(y, x, o.view, o.viewOf)
      BY <2>1, PaneWith, Zenon
    <3> QED BY <2>2, <3>1
  <2>4. o.view \in Nat /\ o.viewOf \in 0..n
    BY <1>2 DEF o
  <2>5. b \in ToSet(tabs)
    BY <1>3
  <2> QED BY <1>3, <2>1, <2>3, <2>4, <2>5, PaneHas
<1>5. SameVector(s, u) /\ u.panes = [ps EXCEPT ![p] = q] /\ u.current = s.current
  <2>1. u = [s EXCEPT !.panes[p] = [@ EXCEPT !.tabs = tabs, !.buffer = b]]
    BY DEF tabs
  <2>2. u.panes = [ps EXCEPT ![p] = q] /\ u.current = s.current
    BY <1>1, <2>1 DEF Fields
  <2>3. SameVector(s, u)
    BY <1>1, <2>1 DEF Fields, SameVector
  <2> QED BY <2>2, <2>3
<1> HIDE DEF q
<1>6. /\ u.panes[p] = q /\ \A k \in 1..m : k # p => u.panes[k] = ps[k]
      /\ u.panes = [k \in 1..m |-> u.panes[k]]
  <2> HIDE DEF m
  <2>1. p \in 1..m
    BY DEF m
  <2> HIDE DEF ps
  <2> QED BY <1>1, <1>5, <2>1
<1>7. Laid(u, {}) /\ Len(u.panes) = m
  <2>1. \A k \in 1..m : u.panes[k] \in Loose(n) /\ u.panes[k] \in Tight(n)
    BY <1>1, <1>4, <1>6
  <2>2. u.panes \in [1..m -> Loose(n)]
    <3> HIDE DEF m, n
    <3> QED BY <1>6, <2>1
  <2>3. u.panes \in Seq(Loose(n)) /\ Len(u.panes) = m
    <3> DEFINE x == u.panes
               S == Loose(n)
    <3>1. x \in [1..m -> S] /\ m \in Nat
      BY <1>1, <2>2
    <3> HIDE DEF x, S, m
    <3>2. x \in Seq(S) /\ Len(x) = m
      BY <3>1
    <3> QED BY <3>2 DEF x, S
  <2>4. u.buffers = s.buffers
    BY <1>5 DEF SameVector
  <2>5. Layout(u, {})
    BY <1>1, <1>5, <2>1, <2>3, <2>4 DEF Layout
  <2>6. Vector(u)
    BY <1>1, <1>5 DEF Laid, Vector, SameVector
  <2> QED BY <2>3, <2>5, <2>6 DEF Laid
<1>8. /\ SoundBut(t, {}) /\ SameVector(u, t) /\ Len(t.panes) = m
      /\ \A k \in 1..m : SamePane(t.panes[k], u.panes[k])
  <2> DEFINE none == {}
  <2>1. Laid(u, none) /\ p \in 1..Len(u.panes)
    BY <1>7
  <2> HIDE DEF none
  <2>2. /\ SoundBut(t, none) /\ SameVector(u, t) /\ Len(t.panes) = Len(u.panes)
        /\ \A k \in 1..Len(u.panes) : SamePane(t.panes[k], u.panes[k])
    BY <2>1, ActivatedIs
  <2> QED BY <1>7, <2>2 DEF none
<1> HIDE DEF t
<1>9. DOMAIN t.panes = 1..m
  BY <1>8, AllSound
<1>10. \A k \in 1..m : ToSet(t.panes[k].tabs) \ {b} = ToSet(ps[k].tabs) \ {b}
  BY <1>3, <1>4, <1>6, <1>8 DEF SamePane
<1>11. OthersStay(ps, t.panes, b)
  <2> HIDE DEF m, ps
  <2> QED BY <1>1, <1>9, <1>10, SameHolders
<1>12. b \in ToSet(t.panes[p].tabs) /\ p \in DOMAIN t.panes
  BY <1>3, <1>4, <1>6, <1>8, <1>9 DEF SamePane
<1>13. SameVector(s, t)
  BY <1>5, <1>8 DEF SameVector
<1> QED BY <1>8, <1>11, <1>12, <1>13 DEF Drags, t


\* A new pane with a tab of b only gives no other buffer a tab.
LEMMA GrownHolders ==
  ASSUME NEW ps, NEW qs, NEW m \in Nat, DOMAIN ps = 1..m, DOMAIN qs = 1..(m + 1), NEW b,
         \A k \in 1..m : SamePane(qs[k], ps[k]), ToSet(qs[m + 1].tabs) \subseteq {b}
  PROVE  OthersStay(ps, qs, b)
<1> SUFFICES ASSUME NEW x, x # b PROVE Holders(qs, x) = Holders(ps, x)
  BY DEF OthersStay
<1>1. \A k \in 1..m : x \in ToSet(qs[k].tabs) <=> x \in ToSet(ps[k].tabs)
  BY DEF SamePane
<1>2. x \notin ToSet(qs[m + 1].tabs)
  OBVIOUS
<1>3. \A k : k \in 1..(m + 1) <=> k \in 1..m \/ k = m + 1
  OBVIOUS
<1> QED BY <1>1, <1>2, <1>3 DEF Holders

\* The fields of Here.
LEMMA HereIs ==
  /\ Here.buffers = buffers /\ Here.panes = panes /\ Here.current = current
  /\ Here.shown = shown /\ Here.preview = preview /\ Here.closed = closed
  /\ DOMAIN Here = Fields
BY DEF Here, Fields

\* A state that becomes the current one hands on what holds of it.
LEMMA BecomeIs ==
  ASSUME NEW t, SoundBut(t, {}), Become(t)
  PROVE  SoundBut(Here, {})'
BY DEF SoundBut, Laid, Vector, Layout, Here, Become, Fields

\* Two panes or one, a tab that is dropped on a strip drags.
LEMMA MoveTabDrags ==
  ASSUME SoundBut(Here, {}), NEW src \in 1..Len(panes), NEW dst \in 1..Len(panes),
         NEW b \in ToSet(panes[src].tabs), NEW slot \in Nat, slot >= 1,
         MoveTab(b, src, dst, slot)
  PROVE  \E t : Become(t) /\ Drags(Here, t, b)
<1> DEFINE h == Here
<1>1. h.panes = panes /\ h.buffers = buffers /\ DOMAIN h = Fields /\ SoundBut(h, {})
  BY HereIs
<1>2. CASE src = dst
  <2> DEFINE t == [h EXCEPT !.panes[src].tabs = PutIn(h.panes[src].tabs, b, slot)]
  <2>1. Become(t)
    BY <1>2, HereIs DEF MoveTab, PutIn
  <2> HIDE DEF h
  <2>2. src \in 1..Len(h.panes) /\ b \in ToSet(h.panes[src].tabs)
    BY <1>1
  <2>3. t = [h EXCEPT !.panes[src].tabs = PutIn(h.panes[src].tabs, b, slot)]
    OBVIOUS
  <2> HIDE DEF t
  <2>4. Drags(h, t, b)
    BY <1>1, <2>2, <2>3, MovesWithin
  <2> QED BY <2>1, <2>4 DEF h
<1>3. CASE src # dst
  <2>1. PICK out \in TakenOut(b, src, dst) :
          Become(Activated([out[1] EXCEPT !.panes[out[2]] =
                   [@ EXCEPT !.tabs = PutIn(out[1].panes[out[2]].tabs, b, slot), !.buffer = b]],
                           out[2]))
    BY <1>3 DEF MoveTab, PutIn
  <2> DEFINE s == out[1]
             p == out[2]
             u == [s EXCEPT !.panes[p] =
                     [@ EXCEPT !.tabs = PutIn(s.panes[p].tabs, b, slot), !.buffer = b]]
             t == Activated(u, p)
  <2>2. /\ SoundBut(s, {}) /\ SameVector(h, s) /\ p \in 1..Len(s.panes)
        /\ OthersStay(panes, s.panes, b)
    BY <1>3, TakenOutIs
  <2>3. Become(t)
    BY <2>1
  <2>4. b \in 1..Len(s.buffers)
    <3>1. panes[src] \in Loose(Len(h.buffers)) /\ Len(h.buffers) \in Nat
      BY <1>1, AllSound
    <3> HIDE DEF h, s
    <3>2. b \in 1..Len(h.buffers)
      BY <3>1, PaneParts
    <3> QED BY <2>2, <3>2 DEF SameVector
  <2>5. u = [s EXCEPT !.panes[p] =
               [@ EXCEPT !.tabs = PutIn(s.panes[p].tabs, b, slot), !.buffer = b]]
    OBVIOUS
  <2> HIDE DEF u, s, p
  <2>6. Drags(s, Activated(u, p), b)
    BY <2>2, <2>4, <2>5, MovesInto
  <2> HIDE DEF h
  <2>7. Drags(h, t, b)
    BY <1>1, <2>2, <2>6 DEF Drags, SameVector, OthersStay
  <2> QED BY <2>3, <2>7 DEF h
<1> QED BY <1>2, <1>3

\* And so does one that is dropped on the edge of a pane.
LEMMA DropOnEdgeDrags ==
  ASSUME SoundBut(Here, {}), NEW src \in 1..Len(panes), NEW dst \in 1..Len(panes),
         NEW b \in ToSet(panes[src].tabs), DropOnEdge(b, src, dst)
  PROVE  \E t : Become(t) /\ Drags(Here, t, b)
<1> DEFINE h == Here
           n == Len(h.buffers)
<1>1. /\ h.panes = panes /\ SoundBut(h, {}) /\ n \in Nat
      /\ panes[src] \in Loose(n)
  BY HereIs, AllSound
<1> HIDE DEF h, n
<1>2. b \in 1..n /\ Strip(panes[src].tabs, n)
  BY <1>1, PaneParts
<1>3. ASSUME NEW s, SoundBut(s, {}), SameVector(h, s), OthersStay(panes, s.panes, b),
             NEW target, NEW tabs, Strip(tabs, n), ToSet(tabs) \subseteq {b},
             Become(SplitOff(s, target, b, tabs))
      PROVE  \E t : Become(t) /\ Drags(h, t, b)
  <2> DEFINE t == SplitOff(s, target, b, tabs)
             m == Len(s.panes)
  <2>1. Len(s.buffers) = n /\ b \in 1..Len(s.buffers) /\ Strip(tabs, Len(s.buffers))
    BY <1>2, <1>3 DEF SameVector, n
  <2>2. /\ SoundBut(t, {}) /\ SameVector(s, t) /\ Len(t.panes) = m + 1
        /\ \A k \in 1..m : SamePane(t.panes[k], s.panes[k])
        /\ ToSet(t.panes[m + 1].tabs) = ToSet(tabs) \cup {b}
    <3>1. Grows(s, t, tabs, b)
      BY <1>3, <2>1, SplitOffIs
    <3> QED BY <3>1 DEF Grows
  <2>3. m \in Nat /\ DOMAIN s.panes = 1..m
    BY <1>3, AllSound
  <2>4. Become(t)
    BY <1>3
  <2> HIDE DEF t
  <2>5. DOMAIN t.panes = 1..(m + 1)
    BY <2>2, AllSound
  <2>6. OthersStay(s.panes, t.panes, b)
    <3>1. ToSet(t.panes[m + 1].tabs) \subseteq {b}
      BY <1>3, <2>2
    <3> HIDE DEF m
    <3> QED BY <2>2, <2>3, <2>5, <3>1, GrownHolders
  <2>7. m + 1 \in DOMAIN t.panes /\ b \in ToSet(t.panes[m + 1].tabs)
    BY <2>2, <2>3, <2>5
  <2>8. OthersStay(h.panes, t.panes, b)
    BY <1>1, <1>3, <2>6 DEF OthersStay
  <2>9. SameVector(h, t)
    BY <1>3, <2>2 DEF SameVector
  <2>10. Drags(h, t, b)
    BY <2>2, <2>7, <2>8, <2>9 DEF Drags
  <2> QED BY <2>4, <2>10
<1>4. CASE src = dst /\ Len(panes[src].tabs) = 1
  <2>1. Become(SplitOff(h, dst, b, panes[dst].tabs))
    BY <1>4 DEF DropOnEdge, h
  <2>2. ToSet(panes[dst].tabs) \subseteq {b}
    <3>1. panes[src].tabs \in Seq(1..n)
      BY <1>2 DEF Strip
    <3> DEFINE tabs == panes[src].tabs
    <3>2. tabs \in Seq(1..n) /\ Len(tabs) = 1 /\ b \in ToSet(tabs)
      BY <1>4, <3>1
    <3> HIDE DEF tabs
    <3>3. \A x \in ToSet(tabs) : \E i \in 1..1 : tabs[i] = x
      BY <3>2, ElementsOf
    <3>4. \A x \in ToSet(tabs) : x = tabs[1]
      BY <3>3
    <3> QED BY <1>4, <3>2, <3>4 DEF tabs
  <2>3. SameVector(h, h) /\ OthersStay(panes, h.panes, b)
    BY <1>1, HereIs DEF SameVector, OthersStay, h
  <2> QED BY <1>1, <1>2, <1>3, <1>4, <2>1, <2>2, <2>3 DEF h
<1>5. CASE ~(src = dst /\ Len(panes[src].tabs) = 1)
  <2>1. PICK out \in TakenOut(b, src, dst) : Become(SplitOff(out[1], out[2], b, <<>>))
    BY <1>5 DEF DropOnEdge
  <2>2. SoundBut(out[1], {}) /\ SameVector(h, out[1]) /\ OthersStay(panes, out[1].panes, b)
    BY <1>5, TakenOutIs DEF h
  <2>3. Strip(<<>>, n) /\ ToSet(<<>>) \subseteq {b}
    BY DEF Strip, IsInjective, ToSet
  <2> QED BY <1>3, <2>1, <2>2, <2>3 DEF h
<1> QED BY <1>4, <1>5 DEF h

-----------------------------------------------------------------------------
(* Buffers that come and change *)

\* Any buffers and panes that fit them.
LEMMA FreshIs ==
  ASSUME NEW t, Vector(t), NEW n, n = Len(t.buffers), NEW m \in Nat,
         t.panes \in [1..m -> Loose(n)],
         \A k \in 1..m : t.panes[k] \in Tight(n),
         t.current \in 1..m,
         t.shown = t.panes[t.current].buffer
  PROVE  SoundBut(t, {}) /\ Len(t.panes) = m
<1> DEFINE S == Loose(n)
           ps == t.panes
<1>1. ps \in [1..m -> S]
  OBVIOUS
<1> HIDE DEF S, ps
<1>2. ps \in Seq(S) /\ Len(ps) = m
  BY <1>1
<1>3. Layout(t, {})
  BY <1>2 DEF Layout, ps, S
<1> QED BY <1>2, <1>3 DEF SoundBut, Laid, ps

\* The focused pane is another; the vector may be longer than it was.
LEMMA FocusedIs ==
  ASSUME NEW s, SoundBut(s, {}), NEW t, Vector(t), NEW n, n = Len(t.buffers),
         Loose(Len(s.buffers)) \subseteq Loose(n), Tight(Len(s.buffers)) \subseteq Tight(n),
         NEW q \in Tight(n), t.panes = [s.panes EXCEPT ![s.current] = q],
         t.current = s.current, t.shown = q.buffer
  PROVE  SoundBut(t, {})
<1> DEFINE m == Len(s.panes)
           ps == s.panes
           qs == t.panes
<1>1. /\ m \in Nat /\ ps = [k \in 1..m |-> ps[k]] /\ s.current \in 1..m
      /\ \A k \in 1..m : ps[k] \in Loose(n) /\ ps[k] \in Tight(n)
  BY AllSound
<1>2. q \in Loose(n)
  BY DEF Tight
<1>3. /\ qs = [k \in 1..m |-> qs[k]]
      /\ \A k \in 1..m : qs[k] = IF k = s.current THEN q ELSE ps[k]
  <2> HIDE DEF m
  <2> QED BY <1>1
<1> HIDE DEF m, ps, qs
<1>4. \A k \in 1..m : qs[k] \in Loose(n) /\ qs[k] \in Tight(n)
  BY <1>1, <1>2, <1>3
<1>5. qs \in [1..m -> Loose(n)]
  BY <1>3, <1>4
<1>6. t.current \in 1..m /\ t.shown = qs[t.current].buffer
  BY <1>1, <1>3
<1> QED BY <1>1, <1>4, <1>5, <1>6, FreshIs DEF qs

\* The buffer in front is b.
InFront(t, b) == t.shown \in 1..Len(t.buffers) /\ t.buffers[t.shown] = b

\* A buffer more, which the focused pane shows.
LEMMA AddedIs ==
  ASSUME NEW s, SoundBut(s, {}), NEW b \in Bufs, NEW replace \in BOOLEAN, NEW restore \in BOOLEAN,
         NEW t, t = Added(s, b, replace, restore)
  PROVE  SoundBut(t, {}) /\ InFront(t, b)
<1> DEFINE l == Len(s.buffers)
           n == l + 1
           bufs == Append(s.buffers, b)
           old == s.panes[s.current]
           new == IF restore THEN Showing(old, n) ELSE [Captured(old) EXCEPT !.buffer = n]
           tabs == IF replace THEN Replacing(old.tabs, bufs) ELSE old.tabs
           q == [new EXCEPT !.tabs = WithTab(tabs, n)]
<1>1. /\ l \in Nat /\ DOMAIN s = Fields /\ s.current \in 1..Len(s.panes)
      /\ DOMAIN s.buffers = 1..l /\ Vector(s) /\ DOMAIN s.panes = 1..Len(s.panes)
      /\ s.current \in 1..Len(s.panes) /\ old \in Loose(l)
  BY AllSound DEF Laid
<1>2. /\ bufs \in Seq(Bufs) /\ Len(bufs) = n /\ bufs[n] = b /\ bufs # <<>>
      /\ \A k \in 1..l : bufs[k] = s.buffers[k]
  <2>1. s.buffers \in Seq(Bufs)
    BY <1>1 DEF Vector
  <2>2. /\ bufs \in Seq(Bufs) /\ Len(bufs) = l + 1 /\ bufs[l + 1] = b
        /\ \A k \in 1..l : bufs[k] = s.buffers[k]
    BY <2>1, AppendProperties
  <2> HIDE DEF bufs, l
  <2>3. bufs # <<>>
    <3>1. Len(<<>>) = 0 /\ l + 1 # 0
      BY <1>1
    <3> QED BY <2>2, <3>1
  <2> QED BY <2>2, <2>3 DEF l
<1>3. n \in Nat /\ n \in 1..n /\ old \in Loose(n)
  BY <1>1, MoreBuffers
<1> HIDE DEF n
<1>4. new \in Loose(n) /\ new.buffer = n /\ new.tabs = old.tabs
  <2> HIDE DEF old
  <2>1. Showing(old, n) \in Loose(n) /\ Showing(old, n).buffer = n /\ Showing(old, n).tabs = old.tabs
    BY <1>3, ShowingIs
  <2> DEFINE c == Captured(old)
  <2>2. c \in Loose(n) /\ c.tabs = old.tabs
    BY <1>3, ViewsKeep
  <2> HIDE DEF c
  <2>3. [c EXCEPT !.buffer = n] = PaneOf(n, c.tabs, c.view, c.viewOf)
    BY <1>3, <2>2, PaneWith
  <2>4. Strip(c.tabs, n) /\ c.view \in Nat /\ c.viewOf \in 0..n
    BY <1>3, <2>2, PaneParts
  <2> DEFINE d == [c EXCEPT !.buffer = n]
  <2>5. d \in Loose(n) /\ d.buffer = n /\ d.tabs = old.tabs
    BY <1>3, <2>2, <2>3, <2>4, PaneHas
  <2> QED BY <2>1, <2>5 DEF c
<1>5. Strip(tabs, n)
  <2> HIDE DEF old, bufs
  <2>1. Strip(old.tabs, n)
    BY <1>3, PaneParts
  <2> QED BY <1>3, <2>1, ReplacingIs
<1> HIDE DEF old, new, tabs, bufs
<1>6. q \in Tight(n) /\ q.buffer = n
  <2>1. Strip(WithTab(tabs, n), n) /\ n \in ToSet(WithTab(tabs, n))
    BY <1>3, <1>5, WithTabIs
  <2> QED BY <1>3, <1>4, <2>1, RetabbedIs
<1>7. /\ DOMAIN t = Fields /\ t.buffers = bufs /\ t.preview = s.preview /\ t.closed = s.closed
      /\ t.current = s.current /\ t.shown = n /\ t.panes = [s.panes EXCEPT ![s.current] = q]
  <2>1. t = [s EXCEPT !.buffers = bufs, !.panes[s.current] = q, !.shown = n]
    BY <1>2 DEF Added, bufs, old, new, tabs, n
  <2> HIDE DEF q
  <2> QED BY <1>1, <2>1 DEF Fields
<1> HIDE DEF q
<1>8. Vector(t)
  <2>1. s.preview # 0 => s.preview \in 1..l /\ s.preview \in 1..n /\ s.buffers[s.preview].kind = "preview"
    BY <1>1 DEF Vector, n
  <2> QED BY <1>1, <1>2, <1>7, <2>1 DEF Vector
<1>9. Loose(l) \subseteq Loose(n) /\ Tight(l) \subseteq Tight(n)
  BY <1>1, MoreBuffers DEF n
<1>10. SoundBut(t, {})
  BY <1>2, <1>6, <1>7, <1>8, <1>9, FocusedIs
<1> QED BY <1>2, <1>3, <1>7, <1>10 DEF InFront

\* A buffer of another kind.
LEMMA RekindIs ==
  ASSUME NEW vec \in Seq(Bufs), NEW i \in 1..Len(vec), NEW k \in Kinds,
         NEW new, new = [vec EXCEPT ![i].kind = k]
  PROVE  /\ new \in Seq(Bufs) /\ Len(new) = Len(vec) /\ new # <<>>
         /\ new[i].kind = k /\ \A j \in 1..Len(vec) : j # i => new[j] = vec[j]
<1> DEFINE n == Len(vec)
           B == Bufs
<1>1. n \in Nat /\ DOMAIN vec = 1..n /\ \A j \in 1..n : vec[j] \in Bufs
  BY ElementsOf
<1>2. vec = [j \in 1..n |-> vec[j]]
  BY <1>1
<1> HIDE DEF n
<1>3. i \in 1..n /\ n # 0
  BY <1>1 DEF n
<1>4. /\ new = [j \in 1..n |-> new[j]] /\ new[i] = [vec[i] EXCEPT !.kind = k]
      /\ \A j \in 1..n : j # i => new[j] = vec[j]
  BY <1>1, <1>2, <1>3
<1>5. new[i] \in Bufs /\ new[i].kind = k
  BY <1>1, <1>3, <1>4 DEF Bufs
<1>6. \A j \in 1..n : new[j] \in B
  BY <1>1, <1>4, <1>5
<1> HIDE DEF B
<1>7. new \in [1..n -> B]
  BY <1>4, <1>6
<1>8. new \in Seq(B) /\ Len(new) = n
  <2> DEFINE r == new
  <2>1. r \in [1..n -> B] /\ n \in Nat
    BY <1>1, <1>7
  <2> HIDE DEF r
  <2>2. r \in Seq(B) /\ Len(r) = n
    BY <2>1
  <2> QED BY <2>2 DEF r
<1>9. new # <<>>
  BY <1>3, <1>8
<1> QED BY <1>4, <1>5, <1>8, <1>9 DEF n, B

\* A buffer that is there already is shown, and kept if it is opened for good.
LEMMA RevisitedIs ==
  ASSUME NEW s, SoundBut(s, {}), NEW i \in 1..Len(s.buffers), NEW asPreview \in BOOLEAN
  PROVE  SoundBut(Revisited(s, i, asPreview), {})
<1> DEFINE n == Len(s.buffers)
           old == s.panes[s.current]
           pane == Showing(old, i)
           tabs == Replacing(pane.tabs, s.buffers)
           q == [pane EXCEPT !.tabs = WithTab(tabs, i)]
           isPreview == s.buffers[i].kind = "preview"
           pins == isPreview /\ ~asPreview
           bufs == [s.buffers EXCEPT ![i].kind = IF pins THEN "kept" ELSE @]
           prev == IF pins /\ s.preview = i THEN 0
                   ELSE IF isPreview /\ asPreview THEN i ELSE s.preview
           t == Revisited(s, i, asPreview)
<1>1. /\ n \in Nat /\ DOMAIN s = Fields /\ s.current \in 1..Len(s.panes)
      /\ DOMAIN s.buffers = 1..n /\ Vector(s) /\ DOMAIN s.panes = 1..Len(s.panes)
      /\ old \in Loose(n)
  BY AllSound DEF Laid
<1>2. t = [s EXCEPT !.shown = i, !.panes[s.current] = q, !.buffers = bufs, !.preview = prev]
  BY DEF Revisited
<1>3. /\ DOMAIN t = Fields /\ t.buffers = bufs /\ t.preview = prev /\ t.closed = s.closed
      /\ t.current = s.current /\ t.shown = i /\ t.panes = [s.panes EXCEPT ![s.current] = q]
  <2> HIDE DEF q, bufs, prev, t
  <2> QED BY <1>1, <1>2 DEF Fields
<1>4. pane \in Loose(n) /\ pane.buffer = i /\ Strip(pane.tabs, n)
  <2> HIDE DEF old, n
  <2>1. i \in 1..n
    BY DEF n
  <2> QED BY <1>1, <2>1, ShowingIs, PaneParts
<1> HIDE DEF pane, n
<1>5. i \in 1..n
  BY DEF n
<1>6. q \in Tight(n) /\ q.buffer = i
  <2>1. Strip(tabs, n)
    BY <1>1, <1>4, ReplacingIs
  <2> HIDE DEF tabs
  <2>2. Strip(WithTab(tabs, i), n) /\ i \in ToSet(WithTab(tabs, i))
    BY <1>1, <1>5, <2>1, WithTabIs
  <2> QED BY <1>1, <1>4, <2>2, RetabbedIs
<1> HIDE DEF q, t
<1>7. /\ bufs \in Seq(Bufs) /\ Len(bufs) = n /\ bufs # <<>>
      /\ \A j \in 1..n : j # i => bufs[j] = s.buffers[j]
      /\ bufs[i].kind = IF pins THEN "kept" ELSE s.buffers[i].kind
  <2> DEFINE k == IF pins THEN "kept" ELSE s.buffers[i].kind
  <2>1. s.buffers \in Seq(Bufs) /\ i \in 1..Len(s.buffers)
    BY <1>1 DEF Vector
  <2>2. k \in Kinds
    <3>1. s.buffers[i] \in Bufs
      BY <2>1, ElementsOf
    <3> QED BY <3>1 DEF Bufs, Kinds
  <2>3. bufs = [s.buffers EXCEPT ![i].kind = k]
    OBVIOUS
  <2> HIDE DEF k, bufs
  <2>4. /\ bufs \in Seq(Bufs) /\ Len(bufs) = Len(s.buffers) /\ bufs # <<>>
        /\ bufs[i].kind = k /\ \A j \in 1..Len(s.buffers) : j # i => bufs[j] = s.buffers[j]
    BY <2>1, <2>2, <2>3, RekindIs
  <2> QED BY <2>4 DEF k, n
<1> HIDE DEF bufs
<1>8. Vector(t)
  <2>1. /\ s.preview # 0 => s.preview \in 1..n /\ s.buffers[s.preview].kind = "preview"
        /\ s.closed \in Seq(Files \cup {NoFile})
    BY <1>1 DEF Vector, n
  <2>2. ASSUME prev # 0 PROVE prev \in 1..n /\ bufs[prev].kind = "preview"
    <3>1. CASE pins
      <4>1. prev = s.preview /\ prev # i
        BY <2>2, <3>1
      <4> QED BY <1>7, <2>1, <2>2, <4>1
    <3>2. CASE isPreview /\ asPreview
      BY <1>5, <1>7, <3>2
    <3>3. CASE ~isPreview
      <4>1. prev = s.preview
        BY <3>3
      <4>2. bufs[prev].kind = s.buffers[prev].kind
        BY <1>7, <2>1, <2>2, <3>3, <4>1
      <4> QED BY <2>1, <2>2, <4>1, <4>2
    <3> QED BY <3>1, <3>2, <3>3
  <2> QED BY <1>3, <1>7, <2>1, <2>2 DEF Vector
<1> HIDE DEF prev
<1>9. SoundBut(t, {})
  BY <1>3, <1>6, <1>7, <1>8, FocusedIs DEF n
<1> QED BY <1>9 DEF t

-----------------------------------------------------------------------------
(* Buffers that go *)

\* What is remembered of a buffer is its path.
LEMMA RememberedIs ==
  ASSUME NEW s, SoundBut(s, {}), NEW i \in 1..Len(s.buffers)
  PROVE  Remembered(s, i) \in Seq(Files \cup {NoFile})
<1> DEFINE Paths == Files \cup {NoFile}
           kept == IF Len(s.closed) >= MaxClosed THEN Tail(s.closed) ELSE s.closed
           b == s.buffers[i]
<1>1. s.closed \in Seq(Paths) /\ s.buffers \in Seq(Bufs)
  BY DEF SoundBut, Laid, Vector
<1>2. b.file \in Paths
  <2>1. s.buffers[i] \in Bufs
    BY <1>1, ElementsOf
  <2> QED BY <2>1 DEF Bufs
<1> HIDE DEF Paths
<1>3. kept \in Seq(Paths)
  <2> DEFINE c == s.closed
  <2>1. c \in Seq(Paths)
    BY <1>1
  <2> HIDE DEF c
  <2>2. Len(c) >= MaxClosed => c # <<>>
    <3>1. Len(<<>>) = 0
      OBVIOUS
    <3> QED BY <3>1, BoundsAssumption
  <2>3. c # <<>> => Tail(c) \in Seq(Paths)
    BY <2>1
  <2>4. Len(c) >= MaxClosed => Tail(c) \in Seq(Paths)
    BY <2>2, <2>3
  <2> QED BY <2>1, <2>4 DEF c
<1>4. Append(kept, b.file) \in Seq(Paths)
  <2> HIDE DEF kept, b
  <2> QED BY <1>2, <1>3
<1>5. Remembered(s, i) = IF b.file # NoFile \/ b.kind = "kept" THEN Append(kept, b.file) ELSE kept
  BY DEF Remembered
<1> HIDE DEF kept
<1> QED BY <1>3, <1>4, <1>5 DEF Paths

\* The last buffer that is emptied leaves every pane with its one tab.
LEMMA EmptiedIs ==
  ASSUME NEW s, SoundBut(s, {}), NEW i \in 1..Len(s.buffers)
  PROVE  SoundBut(Emptied(s, i), {})
<1> DEFINE n == Len(s.buffers)
           m == Len(s.panes)
           ps == s.panes
           t == Emptied(s, i)
           qs == [p \in DOMAIN ps |-> [ps[p] EXCEPT !.buffer = 1, !.tabs = <<1>>, !.viewOf = 0]]
           hist == Remembered(s, i)
<1>1. /\ n \in Nat /\ m \in Nat /\ DOMAIN s = Fields /\ s.current \in 1..m /\ DOMAIN ps = 1..m
      /\ \A k \in 1..m : ps[k] \in Loose(n)
  BY AllSound
<1>2. hist \in Seq(Files \cup {NoFile})
  BY RememberedIs
<1>3. t = [s EXCEPT !.closed = hist, !.buffers = <<Placeholder>>, !.shown = 1, !.preview = 0,
                    !.panes = qs]
  BY DEF Emptied
<1>4. /\ DOMAIN t = Fields /\ t.buffers = <<Placeholder>> /\ t.preview = 0 /\ t.closed = hist
      /\ t.current = s.current /\ t.shown = 1 /\ t.panes = qs
  <2> HIDE DEF hist, qs, t
  <2> QED BY <1>1, <1>3 DEF Fields
<1>5. Vector(t)
  <2>1. Placeholder \in Bufs
    BY DEF Placeholder, Buffer, Bufs, Kinds
  <2>2. <<Placeholder>> \in Seq(Bufs) /\ <<Placeholder>> # <<>>
    BY <2>1
  <2> QED BY <1>2, <1>4, <2>2 DEF Vector
<1>6. 1 \in 1..1 /\ Strip(<<1>>, 1) /\ ToSet(<<1>>) = {1} /\ 0 \in 0..1
  BY DEF Strip, IsInjective, ToSet
<1>7. ASSUME NEW k \in 1..m
      PROVE  qs[k] \in Loose(1) /\ qs[k] \in Tight(1) /\ qs[k].buffer = 1
  <2> DEFINE o == ps[k]
  <2>1. o \in Loose(n)
    BY <1>1
  <2>2. qs[k] = [o EXCEPT !.buffer = 1, !.tabs = <<1>>, !.viewOf = 0]
    BY <1>1, <1>7
  <2> HIDE DEF o, n, qs
  <2>3. \A b, x, v : [o EXCEPT !.buffer = b, !.tabs = x, !.viewOf = v] = PaneOf(b, x, o.view, v)
    BY <1>1, <2>1, PaneWith, Zenon
  <2>4. o.view \in Nat
    BY <1>1, <2>1, PaneParts
  <2> DEFINE x == <<1>>
  <2>5. Strip(x, 1) /\ 1 \in ToSet(x) /\ 1 \in 1..1 /\ 1 \in Nat /\ 0 \in 0..1
    BY <1>6
  <2>6. qs[k] = PaneOf(1, x, o.view, 0)
    BY <2>2, <2>3
  <2> HIDE DEF x
  <2> QED BY <2>4, <2>5, <2>6, PaneHas
<1>8. t.panes \in [1..m -> Loose(1)] /\ Len(t.buffers) = 1
  BY <1>1, <1>4, <1>7
<1> HIDE DEF qs, t, m
<1>9. SoundBut(t, {})
  BY <1>1, <1>4, <1>5, <1>7, <1>8, FreshIs
<1> QED BY <1>9 DEF t

\* t is s without buffer i: what the panes show of the others stays.
Follows(s, t, i) ==
  /\ Len(t.panes) = Len(s.panes) /\ Len(t.buffers) = Len(s.buffers) - 1
  /\ \A k \in 1..Len(s.panes) :
       s.panes[k].buffer # i => t.panes[k].buffer = Shifted(s.panes[k].buffer, i)

\* A buffer that is taken out of the vector leaves panes that agree with the rest.
LEMMA RemovedIs ==
  ASSUME NEW s, SoundBut(s, {}), NEW i \in 1..Len(s.buffers), Len(s.buffers) # 1
  PROVE  SoundBut(Removed(s, i), {}) /\ Follows(s, Removed(s, i), i)
<1> DEFINE l == Len(s.buffers)
           n == l - 1
           m == Len(s.panes)
           ps == s.panes
           t == Removed(s, i)
           rest == RemoveAt(s.buffers, i)
           focus == FocusAfter(s.shown, i, rest)
           hist == Remembered(s, i)
           prev == PreviewAfter(s.preview, i, rest)
           tabs(p) == TabsAfter(p.tabs, i)
           b(p) == IF p.buffer = i THEN (IF tabs(p) # <<>> THEN Head(tabs(p)) ELSE focus)
                   ELSE IF p.buffer > i THEN p.buffer - 1 ELSE p.buffer
           pane(p) == [p EXCEPT !.buffer = b(p), !.tabs = WithTab(tabs(p), b(p)),
                                !.viewOf = Shifted(p.viewOf, i)]
           focused(p) == [Showing(pane(p), focus) EXCEPT !.tabs = WithTab(Showing(pane(p), focus).tabs, focus)]
           qs == [p \in DOMAIN ps |-> IF p = s.current THEN focused(ps[p]) ELSE pane(ps[p])]
<1>1. /\ l \in Nat /\ m \in Nat /\ DOMAIN s = Fields /\ s.current \in 1..m /\ DOMAIN ps = 1..m
      /\ s.shown = ps[s.current].buffer /\ s.shown \in 1..l
      /\ (\A k \in 1..m : ps[k] \in Loose(l)) /\ Vector(s)
  BY AllSound DEF Laid
<1>2. n \in Nat /\ n >= 1 /\ i \in 1..l
  <2>1. i \in 1..l /\ l # 1 /\ n = l - 1
    OBVIOUS
  <2> HIDE DEF l, n
  <2> QED BY <1>1, <2>1
<1>3. /\ rest \in Seq(Bufs) /\ Len(rest) = n /\ rest # <<>>
      /\ \A k \in 1..n : rest[k] = IF k < i THEN s.buffers[k] ELSE s.buffers[k + 1]
  <2> DEFINE vec == s.buffers
             B == Bufs
  <2>1. vec \in Seq(B)
    BY <1>1 DEF Vector
  <2> HIDE DEF vec, B
  <2>2. i \in 1..Len(vec)
    BY DEF vec
  <2>3. /\ RemoveAt(vec, i) \in Seq(B) /\ Len(RemoveAt(vec, i)) = Len(vec) - 1
        /\ \A k \in 1..(Len(vec) - 1) : RemoveAt(vec, i)[k] = IF k < i THEN vec[k] ELSE vec[k + 1]
    BY <2>1, <2>2, RemoveAtIs
  <2>4. Len(<<>>) = 0 /\ n # 0
    BY <1>2
  <2> QED BY <2>3, <2>4 DEF vec, B
<1>4. t = [s EXCEPT !.closed = hist, !.buffers = rest, !.shown = focus, !.preview = prev,
                    !.panes = qs]
  BY DEF Removed
<1>5. /\ DOMAIN t = Fields /\ t.buffers = rest /\ t.preview = prev /\ t.closed = hist
      /\ t.current = s.current /\ t.shown = focus /\ t.panes = qs
  <2> HIDE DEF hist, rest, focus, prev, qs, t
  <2> QED BY <1>1, <1>4 DEF Fields
<1>6. hist \in Seq(Files \cup {NoFile})
  BY RememberedIs
<1>7. focus \in 1..n /\ (s.shown # i => focus = Shifted(s.shown, i))
  <2> HIDE DEF rest, n, l
  <2>1. l = n + 1
    BY <1>1, <1>2 DEF n
  <2>2. focus = IF s.shown > i THEN s.shown - 1
                ELSE IF s.shown > n THEN n ELSE s.shown
    BY <1>3 DEF FocusAfter
  <2>3. s.shown \in 1..l
    BY <1>1
  <2> HIDE DEF focus
  <2> QED BY <1>2, <2>1, <2>2, <2>3 DEF Shifted
<1>8. prev # 0 => prev \in 1..n /\ rest[prev].kind = "preview"
  <2>1. s.preview # 0 => s.preview \in 1..l
    BY <1>1 DEF Vector
  <2> HIDE DEF rest, n, l
  <2>2. l = n + 1
    BY <1>1, <1>2 DEF n
  <2> DEFINE q == IF s.preview = i THEN 0 ELSE IF s.preview > i THEN s.preview - 1 ELSE s.preview
  <2>3. prev = IF q = 0 \/ rest[q].kind # "preview" THEN 0 ELSE q
    BY DEF PreviewAfter
  <2>4. q # 0 => q \in 1..n
    BY <1>2, <2>1, <2>2
  <2> HIDE DEF q, prev
  <2> QED BY <2>3, <2>4
<1> HIDE DEF rest, focus, hist, prev, t
<1>9. Vector(t)
  BY <1>3, <1>5, <1>6, <1>8 DEF Vector
<1>10. ASSUME NEW p \in Loose(l)
       PROVE  /\ pane(p) \in Loose(n) /\ pane(p) \in Tight(n)
              /\ p.buffer # i => pane(p).buffer = Shifted(p.buffer, i)
  <2>1. /\ p.buffer \in 1..l /\ Strip(p.tabs, l) /\ p.view \in Nat /\ p.viewOf \in 0..l
    BY <1>1, PaneParts
  <2> DEFINE ts == tabs(p)
             c == b(p)
             all == WithTab(ts, c)
             o == Shifted(p.viewOf, i)
  <2>2. Strip(ts, n)
    <3> HIDE DEF l
    <3> QED BY <1>1, <1>2, <2>1, TabsAfterIs DEF n
  <2>3. c = IF p.buffer = i THEN (IF ts # <<>> THEN Head(ts) ELSE focus)
            ELSE IF p.buffer > i THEN p.buffer - 1 ELSE p.buffer
    OBVIOUS
  <2>4. pane(p) = [p EXCEPT !.buffer = c, !.tabs = all, !.viewOf = o]
    OBVIOUS
  <2> HIDE DEF tabs, b, pane, n, l, ts, c, o
  <2>5. l = n + 1
    BY <1>1, <1>2 DEF n
  <2>6. ts # <<>> => Head(ts) \in 1..n
    <3>1. ts \in Seq(1..n)
      BY <2>2 DEF Strip
    <3> DEFINE S == 1..n
    <3>2. ts \in Seq(S)
      BY <3>1
    <3> HIDE DEF S
    <3>3. ts # <<>> => Head(ts) \in S
      BY <3>2
    <3> QED BY <3>3 DEF S
  <2>7. c \in 1..n /\ (p.buffer # i => c = Shifted(p.buffer, i))
    BY <1>2, <1>7, <2>1, <2>3, <2>5, <2>6 DEF Shifted
  <2>8. o \in 0..n
    BY <1>2, <2>1, <2>5 DEF Shifted, o
  <2>9. Strip(all, n) /\ c \in ToSet(all)
    BY <1>2, <2>2, <2>7, WithTabIs
  <2> HIDE DEF all
  <2>10. pane(p) = PaneOf(c, all, p.view, o)
    <3>1. \A x, y, z : [p EXCEPT !.buffer = x, !.tabs = y, !.viewOf = z] = PaneOf(x, y, p.view, z)
      BY <1>1, PaneWith
    <3> QED BY <2>4, <3>1
  <2> QED BY <1>2, <2>1, <2>7, <2>8, <2>9, <2>10, PaneHas
<1>11. ASSUME NEW p \in Loose(l)
       PROVE  focused(p) \in Loose(n) /\ focused(p) \in Tight(n) /\ focused(p).buffer = focus
  <2> DEFINE o == pane(p)
             d == Showing(o, focus)
             all == WithTab(d.tabs, focus)
  <2>1. o \in Loose(n)
    BY <1>10
  <2>2. focused(p) = [d EXCEPT !.tabs = all]
    OBVIOUS
  <2> HIDE DEF o, focused, n
  <2>3. d \in Loose(n) /\ d.buffer = focus
    BY <1>2, <1>7, <2>1, ShowingIs
  <2> HIDE DEF d
  <2>4. Strip(d.tabs, n)
    BY <1>2, <2>3, PaneParts
  <2>5. Strip(all, n) /\ focus \in ToSet(all)
    BY <1>2, <1>7, <2>4, WithTabIs
  <2> HIDE DEF all
  <2> QED BY <1>2, <2>2, <2>3, <2>5, RetabbedIs
<1> HIDE DEF pane, focused, n
<1>12. \A k \in 1..m : /\ qs[k] = IF k = s.current THEN focused(ps[k]) ELSE pane(ps[k])
                       /\ ps[k] \in Loose(l)
  BY <1>1
<1>13. qs = [k \in 1..m |-> qs[k]]
  BY <1>1
<1> HIDE DEF qs, l, m, ps
<1>14. \A k \in 1..m : qs[k] \in Loose(n) /\ qs[k] \in Tight(n)
  BY <1>10, <1>11, <1>12
<1>15. qs \in [1..m -> Loose(n)]
  BY <1>13, <1>14
<1>16. qs[s.current].buffer = focus
  BY <1>1, <1>11, <1>12
<1>17. SoundBut(t, {}) /\ Len(t.panes) = m
  <2>1. n = Len(t.buffers) /\ t.panes \in [1..m -> Loose(n)] /\ m \in Nat
    BY <1>1, <1>3, <1>5, <1>15
  <2>2. /\ \A k \in 1..m : t.panes[k] \in Tight(n)
        /\ t.current \in 1..m /\ t.shown = t.panes[t.current].buffer
    BY <1>1, <1>5, <1>14, <1>16
  <2> QED BY <1>9, <2>1, <2>2, FreshIs
<1>18. \A k \in 1..m : ps[k].buffer # i => qs[k].buffer = Shifted(ps[k].buffer, i)
  <2> SUFFICES ASSUME NEW k \in 1..m, ps[k].buffer # i
               PROVE  qs[k].buffer = Shifted(ps[k].buffer, i)
    OBVIOUS
  <2>1. CASE k = s.current
    BY <1>1, <1>7, <1>16, <2>1
  <2>2. CASE k # s.current
    BY <1>10, <1>12, <2>2
  <2> QED BY <2>1, <2>2
<1>19. Follows(s, t, i)
  BY <1>3, <1>5, <1>17, <1>18 DEF Follows, n, m, l, ps
<1> QED BY <1>17, <1>19 DEF t

\* Closing a buffer, the last one or another.
LEMMA ClosedIs ==
  ASSUME NEW s, SoundBut(s, {}), NEW i \in 1..Len(s.buffers)
  PROVE  /\ SoundBut(Closed(s, i), {})
         /\ Len(s.buffers) # 1 => Follows(s, Closed(s, i), i)
BY EmptiedIs, RemovedIs DEF Closed

-----------------------------------------------------------------------------
(* The steps *)

\* The inductive invariant: a sound state, and files on their way.
Agreeing ==
  /\ SoundBut(Here, {})
  /\ opening \in Seq([file : Files, preview : BOOLEAN])

\* It is stronger than what is to be shown.
LEMMA AgreeingImplies ==
  ASSUME SoundBut(Here, {})
  PROVE  PanesAgree
<1> DEFINE h == Here
<1>1. /\ h.panes = panes /\ h.buffers = buffers /\ h.shown = shown /\ h.current = current
      /\ h.preview = preview /\ SoundBut(h, {})
  BY HereIs
<1> HIDE DEF h
<1>2. /\ DOMAIN panes = 1..Len(panes) /\ DOMAIN buffers = 1..Len(buffers)
      /\ shown = panes[current].buffer /\ Len(buffers) \in Nat
      /\ \A k \in 1..Len(panes) : panes[k] \in Tight(Len(buffers))
  BY <1>1, AllSound
<1>3. preview # 0 => preview \in 1..Len(buffers) /\ buffers[preview].kind = "preview"
  BY <1>1 DEF SoundBut, Laid, Vector
<1>4. \A k \in 1..Len(panes) : panes[k].buffer \in ToSet(panes[k].tabs) /\ IsInjective(panes[k].tabs)
  BY <1>2 DEF Tight, Loose
<1> QED BY <1>2, <1>3, <1>4 DEF PanesAgree

\* What the editor starts with.
LEMMA InitAgrees ==
  Init => Agreeing
<1> SUFFICES ASSUME Init PROVE Agreeing
  OBVIOUS
<1> DEFINE l == Len(Session)
           n == l + 1
           one == <<Placeholder>>
           more == [i \in DOMAIN Session |-> Buffer(Session[i], "kept")]
           bufs == one \o more
           tabs == IF n = 1 THEN <<1>> ELSE [i \in 1..(n - 1) |-> i + 1]
           pane == PaneOf(n, tabs, n - 1, n - 1)
           h == Here
<1>1. /\ l \in Nat /\ DOMAIN Session = 1..l /\ \A i \in 1..l : Session[i] \in Files
  BY SessionAssumption, ElementsOf
<1>2. bufs \in Seq(Bufs) /\ Len(bufs) = n
  <2> DEFINE B == Bufs
  <2>1. one \in Seq(B) /\ Len(one) = 1
    BY DEF Placeholder, Buffer, Bufs, Kinds
  <2>2. \A i \in 1..l : more[i] \in B
    BY <1>1 DEF Buffer, Bufs, Kinds
  <2>3. more = [i \in 1..l |-> more[i]]
    BY <1>1
  <2> HIDE DEF one, more, B, l
  <2>4. more \in [1..l -> B]
    BY <2>2, <2>3
  <2>5. more \in Seq(B) /\ Len(more) = l
    BY <1>1, <2>4
  <2> HIDE DEF bufs
  <2>6. Joins(B, one, more, bufs)
    BY <2>1, <2>5, JoinIs DEF bufs
  <2>7. bufs \in Seq(B) /\ Len(bufs) = 1 + l
    BY <2>1, <2>5, <2>6 DEF Joins
  <2> QED BY <1>1, <2>7 DEF B
<1>3. n \in Nat /\ n >= 1 /\ n - 1 \in Nat /\ n - 1 \in 0..n /\ n \in 1..n
  BY <1>1
<1>4. Strip(tabs, n) /\ n \in ToSet(tabs)
  <2>1. CASE n = 1
    <3>1. tabs = <<1>>
      BY <2>1
    <3> QED BY <2>1, <3>1 DEF Strip, IsInjective, ToSet
  <2>2. CASE n # 1
    <3> HIDE DEF n
    <3>1. tabs = [i \in 1..(n - 1) |-> i + 1]
      BY <2>2
    <3> HIDE DEF tabs
    <3> DEFINE N == 1..n
    <3>2. \A i \in 1..(n - 1) : i + 1 \in N
      BY <1>3
    <3>3. tabs \in [1..(n - 1) -> N] /\ DOMAIN tabs = 1..(n - 1)
      BY <3>1, <3>2
    <3>4. n \in ToSet(tabs)
      <4>1. n - 1 \in 1..(n - 1) /\ tabs[n - 1] = n
        BY <1>3, <2>2, <3>1
      <4> QED BY <3>3, <4>1 DEF ToSet
    <3>5. IsInjective(tabs)
      BY <1>3, <3>1 DEF IsInjective
    <3> HIDE DEF N
    <3>6. tabs \in Seq(N)
      BY <1>3, <3>3
    <3> QED BY <3>4, <3>5, <3>6 DEF Strip, N
  <2> QED BY <2>1, <2>2
<1>5. /\ h.buffers = bufs /\ h.panes = <<pane>> /\ h.current = 1 /\ h.shown = n
      /\ h.preview = 0 /\ h.closed = <<>> /\ DOMAIN h = Fields /\ opening = <<>>
  BY HereIs DEF Init, PaneOf
<1> HIDE DEF bufs, n, tabs, h
<1>6. pane \in Loose(n) /\ pane \in Tight(n) /\ pane.buffer = n
  BY <1>3, <1>4, PaneHas
<1> HIDE DEF pane
<1>7. Vector(h)
  <2>1. bufs # <<>>
    <3>1. Len(<<>>) = 0
      OBVIOUS
    <3> QED BY <1>2, <1>3, <3>1
  <2>2. <<>> \in Seq(Files \cup {NoFile})
    OBVIOUS
  <2> QED BY <1>2, <1>5, <2>1, <2>2 DEF Vector
<1>8. SoundBut(h, {})
  <2>1. /\ h.panes \in [1..1 -> Loose(n)] /\ h.panes[1] = pane /\ n = Len(h.buffers)
        /\ 1 \in Nat
    BY <1>2, <1>5, <1>6
  <2>2. /\ \A k \in 1..1 : h.panes[k] \in Tight(n)
        /\ h.current \in 1..1 /\ h.shown = h.panes[h.current].buffer
    BY <1>5, <1>6, <2>1
  <2> QED BY <1>7, <2>1, <2>2, FreshIs
<1>9. opening \in Seq([file : Files, preview : BOOLEAN])
  BY <1>5
<1> QED BY <1>8, <1>9 DEF Agreeing, h

\* The panes that get the focus, or show another of their tabs.
LEMMA SwitchedIs ==
  ASSUME NEW s, SoundBut(s, {}), NEW p \in 1..Len(s.panes), NEW b \in ToSet(s.panes[p].tabs)
  PROVE  LET a == Activated(s, p)
         IN  SoundBut([a EXCEPT !.panes[p] = Showing(@, b), !.shown = b], {})
<1> DEFINE a == Activated(s, p)
           n == Len(s.buffers)
           q == Showing(a.panes[p], b)
           t == [a EXCEPT !.panes[p] = Showing(@, b), !.shown = b]
           none == {}
<1>1. SoundBut(s, none) /\ \A k : k \notin none
  OBVIOUS
<1> HIDE DEF none
<1>2. Laid(s, none) /\ n \in Nat /\ Len(s.buffers) = n /\ s.panes[p] \in Loose(n)
  BY <1>1, SoundParts
<1>3. /\ SoundBut(a, none) /\ SameVector(s, a) /\ a.current = p /\ Len(a.panes) = Len(s.panes)
      /\ SamePane(a.panes[p], s.panes[p])
  BY <1>2, ActivatedIs
<1> HIDE DEF a, n
<1>4. /\ DOMAIN a = Fields /\ Len(a.buffers) = n /\ DOMAIN a.panes = 1..Len(a.panes)
      /\ p \in 1..Len(a.panes) /\ a.panes[p] \in Loose(n) /\ a.panes[p] \in Tight(n)
  BY <1>1, <1>2, <1>3, SoundParts DEF SameVector
<1>5. b \in ToSet(a.panes[p].tabs) /\ b \in 1..n
  <2> DEFINE o == a.panes[p]
  <2>1. o \in Loose(n) /\ b \in ToSet(o.tabs)
    BY <1>3, <1>4 DEF SamePane
  <2> HIDE DEF o
  <2>2. b \in 1..n
    BY <1>2, <2>1, PaneParts
  <2> QED BY <2>1, <2>2 DEF o
<1>6. q \in Tight(Len(a.buffers)) /\ q.buffer = b
  <2> DEFINE o == a.panes[p]
  <2>1. o \in Loose(n)
    BY <1>4
  <2>2. q = Showing(o, b) /\ b \in ToSet(o.tabs)
    BY <1>5
  <2> HIDE DEF o, q
  <2>3. q \in Loose(n) /\ q.buffer = b /\ q.tabs = o.tabs
    BY <1>2, <1>5, <2>1, <2>2, ShowingIs
  <2> QED BY <1>4, <2>2, <2>3 DEF Tight
<1>7. /\ DOMAIN t = Fields /\ t.buffers = a.buffers /\ t.preview = a.preview /\ t.closed = a.closed
      /\ t.current = a.current /\ t.shown = b /\ t.panes = [a.panes EXCEPT ![p] = q]
  <2>1. t = [a EXCEPT !.panes = [a.panes EXCEPT ![p] = q], !.shown = b]
    BY <1>4 DEF Fields
  <2> HIDE DEF q, t
  <2> QED BY <1>4, <2>1 DEF Fields
<1> HIDE DEF q, t
<1>8. SameVector(a, t) /\ t.shown = IF p = a.current THEN q.buffer ELSE a.shown
  BY <1>3, <1>6, <1>7 DEF SameVector
<1>9. SoundBut(a, {})
  BY <1>3 DEF none
<1>10. Changed(a, t, p, q)
  BY <1>4, <1>6, <1>7, <1>8, <1>9, ChangedIs
<1> QED BY <1>10 DEF Changed, t, a

\* A buffer shown in the focused pane.
LEMMA ShownIs ==
  ASSUME NEW s, SoundBut(s, {}), NEW b \in 1..Len(s.buffers)
  PROVE  SoundBut([s EXCEPT !.panes[s.current] =
                     [Showing(s.panes[s.current], b) EXCEPT !.tabs = WithTab(@, b)],
                     !.shown = b], {})
<1> DEFINE n == Len(s.buffers)
           old == s.panes[s.current]
           d == Showing(old, b)
           all == WithTab(d.tabs, b)
           q == [d EXCEPT !.tabs = all]
           t == [s EXCEPT !.panes[s.current] = q, !.shown = b]
<1>1. /\ DOMAIN s = Fields /\ n \in Nat /\ s.current \in 1..Len(s.panes)
      /\ DOMAIN s.panes = 1..Len(s.panes) /\ old \in Loose(n) /\ Vector(s)
  BY AllSound DEF Laid
<1>2. b \in 1..n
  OBVIOUS
<1> HIDE DEF n, old
<1>3. d \in Loose(n) /\ d.buffer = b
  BY <1>1, <1>2, ShowingIs
<1> HIDE DEF d
<1>4. Strip(d.tabs, n)
  BY <1>1, <1>3, PaneParts
<1>5. Strip(all, n) /\ b \in ToSet(all)
  BY <1>1, <1>2, <1>4, WithTabIs
<1> HIDE DEF all
<1>6. q \in Tight(n) /\ q.buffer = b
  BY <1>1, <1>3, <1>5, RetabbedIs
<1> HIDE DEF q
<1>7. /\ DOMAIN t = Fields /\ t.buffers = s.buffers /\ t.preview = s.preview /\ t.closed = s.closed
      /\ t.current = s.current /\ t.shown = b /\ t.panes = [s.panes EXCEPT ![s.current] = q]
  BY <1>1 DEF Fields
<1> HIDE DEF t
<1>8. Vector(t)
  BY <1>1, <1>7 DEF Vector
<1>9. SoundBut(t, {})
  BY <1>6, <1>7, <1>8, FocusedIs DEF n
<1> QED BY <1>9 DEF t, q, all, d, old

\* The preview that is replaced was one, if there was a preview.
LEMMA PreviewReplacedIs ==
  ASSUME NEW s, SoundBut(s, {}), NEW f
  PROVE  SoundBut(PreviewReplaced(s, f), {})
<1>1. s.preview # 0 => s.preview \in 1..Len(s.buffers)
  BY DEF SoundBut, Laid, Vector
<1> QED BY <1>1, ClosedIs DEF PreviewReplaced

\* A file's buffer is the first one that has it.
LEMMA OpenIndexIs ==
  ASSUME NEW s, SoundBut(s, {}), NEW f, OpenIndex(s.buffers, f) # 0
  PROVE  OpenIndex(s.buffers, f) \in 1..Len(s.buffers)
<1> DEFINE same == {i \in DOMAIN s.buffers : s.buffers[i].file = f}
<1>1. DOMAIN s.buffers = 1..Len(s.buffers) /\ Len(s.buffers) \in Nat
  BY AllSound
<1>2. same # {} /\ OpenIndex(s.buffers, f) = Min(same)
  BY DEF OpenIndex
<1>3. same \subseteq 1..Len(s.buffers) /\ same \in SUBSET Nat
  BY <1>1
<1> HIDE DEF same
<1>4. \E x \in same : \A y \in same : x <= y
  BY <1>2, <1>3, LeastOf
<1>5. Min(same) \in same
  BY <1>4 DEF Min
<1> QED BY <1>2, <1>3, <1>5

\* The buffer in front is kept with its first edit, and is no preview any more.
LEMMA EditAgrees ==
  ASSUME SoundBut(Here, {}), Edit
  PROVE  SoundBut(Here, {})'
<1> DEFINE h == Here
           n == Len(buffers)
           g == Here'
<1>1. /\ h.panes = panes /\ h.buffers = buffers /\ h.shown = shown /\ h.current = current
      /\ h.preview = preview /\ h.closed = closed /\ SoundBut(h, {})
  BY HereIs
<1>2. /\ g.panes = panes' /\ g.buffers = buffers' /\ g.shown = shown' /\ g.current = current'
      /\ g.preview = preview' /\ g.closed = closed' /\ DOMAIN g = Fields
  BY DEF Here, Fields
<1> HIDE DEF h, g
<1>3. /\ n \in Nat /\ shown \in 1..n /\ Vector(h) /\ Layout(h, {})
      /\ shown = panes[current].buffer /\ buffers \in Seq(Bufs)
  BY <1>1, AllSound DEF SoundBut, Laid, Vector
<1>4. /\ buffers' = [buffers EXCEPT ![shown].kind = "kept"]
      /\ preview' = IF preview = shown THEN 0 ELSE preview
      /\ panes' = panes /\ current' = current /\ shown' = shown /\ closed' = closed
  BY DEF Edit
<1>5. /\ buffers' \in Seq(Bufs) /\ Len(buffers') = n /\ buffers' # <<>>
      /\ \A j \in 1..n : j # shown => buffers'[j] = buffers[j]
  <2> DEFINE new == buffers'
             k == "kept"
  <2>1. new = [buffers EXCEPT ![shown].kind = k] /\ k \in Kinds /\ shown \in 1..Len(buffers)
    BY <1>3, <1>4 DEF Kinds
  <2> HIDE DEF new, k
  <2>2. /\ new \in Seq(Bufs) /\ Len(new) = Len(buffers) /\ new # <<>>
        /\ \A j \in 1..Len(buffers) : j # shown => new[j] = buffers[j]
    BY <1>3, <2>1, RekindIs
  <2> QED BY <2>2 DEF new
<1>6. Vector(g)
  <2>1. preview # 0 => preview \in 1..n /\ buffers[preview].kind = "preview"
    BY <1>1, <1>3 DEF Vector
  <2>2. closed \in Seq(Files \cup {NoFile})
    BY <1>1, <1>3 DEF Vector
  <2> QED BY <1>2, <1>4, <1>5, <2>1, <2>2 DEF Vector
<1>7. Layout(g, {})
  BY <1>1, <1>2, <1>3, <1>4, <1>5 DEF Layout
<1>8. SoundBut(g, {})
  BY <1>2, <1>3, <1>4, <1>6, <1>7 DEF SoundBut, Laid
<1>9. SoundBut(Here, {})' <=> SoundBut(Here', {})
  BY DEF SoundBut, Laid, Vector, Layout
<1> QED BY <1>8, <1>9 DEF g

\* A tab that is dropped anywhere drags.
LEMMA DraggedIs ==
  ASSUME SoundBut(Here, {}), FromTab
  PROVE  \E b \in DOMAIN buffers : \E t : Become(t) /\ Drags(Here, t, b)
<1> DEFINE h == Here
<1>1. h.panes = panes /\ h.buffers = buffers /\ SoundBut(h, {})
  BY HereIs
<1> HIDE DEF h
<1>2. /\ DOMAIN panes = 1..Len(panes) /\ DOMAIN buffers = 1..Len(buffers) /\ Len(buffers) \in Nat
      /\ \A k \in 1..Len(panes) : panes[k] \in Loose(Len(buffers))
  BY <1>1, AllSound
<1>3. PICK src \in 1..Len(panes), dst \in 1..Len(panes) :
        \E b \in ToSet(panes[src].tabs) :
          \/ DropOnEdge(b, src, dst)
          \/ \E slot \in {1, Len(panes[dst].tabs) + 1} : MoveTab(b, src, dst, slot)
  BY <1>2 DEF FromTab
<1>4. PICK b \in ToSet(panes[src].tabs) :
          \/ DropOnEdge(b, src, dst)
          \/ \E slot \in {1, Len(panes[dst].tabs) + 1} : MoveTab(b, src, dst, slot)
  BY <1>3
<1>5. Len(panes[dst].tabs) \in Nat
  BY <1>2, PaneParts, LenProperties
<1>6. b \in DOMAIN buffers
  <2> DEFINE n == Len(buffers)
             q == panes[src]
  <2>1. q \in Loose(n) /\ n \in Nat /\ b \in ToSet(q.tabs)
    BY <1>2
  <2> HIDE DEF n, q
  <2>2. b \in 1..n
    BY <2>1, PaneParts
  <2> QED BY <1>2, <2>2 DEF n
<1>7. CASE DropOnEdge(b, src, dst)
  BY <1>6, <1>7, DropOnEdgeDrags
<1>8. ASSUME NEW slot \in {1, Len(panes[dst].tabs) + 1}, MoveTab(b, src, dst, slot)
      PROVE  \E t : Become(t) /\ Drags(Here, t, b)
  <2>1. slot \in Nat /\ slot >= 1
    BY <1>5
  <2> QED BY <1>8, <2>1, MoveTabDrags
<1> QED BY <1>4, <1>6, <1>7, <1>8

\* Every step leaves a sound state.
LEMMA AgreeingStays ==
  Agreeing /\ [Next]_vars => Agreeing'
<1> SUFFICES ASSUME Agreeing, [Next]_vars PROVE Agreeing'
  OBVIOUS
<1> DEFINE h == Here
           O == [file : Files, preview : BOOLEAN]
<1>1. /\ h.panes = panes /\ h.buffers = buffers /\ h.current = current /\ h.closed = closed
      /\ DOMAIN h = Fields /\ SoundBut(h, {}) /\ opening \in Seq(O)
  BY HereIs DEF Agreeing
<1>2. /\ DOMAIN panes = 1..Len(panes) /\ DOMAIN buffers = 1..Len(buffers)
      /\ Len(buffers) \in Nat /\ current \in 1..Len(panes)
      /\ \A k \in 1..Len(panes) : panes[k] \in Loose(Len(buffers)) /\ panes[k] \in Tight(Len(buffers))
  <2> HIDE DEF h
  <2> QED BY <1>1, AllSound
<1>3. ASSUME NEW t, Become(t), SoundBut(t, {}), opening' \in Seq(O)
      PROVE  Agreeing'
  BY <1>3, BecomeIs DEF Agreeing
<1> HIDE DEF h, O
<1>4. ASSUME NEW i \in DOMAIN buffers, Close(i) PROVE Agreeing'
  <2>1. Become(Closed(h, i)) /\ opening' = opening /\ i \in 1..Len(h.buffers)
    BY <1>1, <1>2, <1>4 DEF Close, h
  <2>2. SoundBut(Closed(h, i), {})
    BY <1>1, <2>1, ClosedIs
  <2> QED BY <1>1, <1>3, <2>1, <2>2
<1>5. ASSUME NEW b \in DOMAIN buffers, ShowBuffer(b) PROVE Agreeing'
  <2> DEFINE t == [h EXCEPT !.panes[h.current] =
                     [Showing(h.panes[h.current], b) EXCEPT !.tabs = WithTab(@, b)],
                     !.shown = b]
  <2>1. Become(t) /\ opening' = opening /\ b \in 1..Len(h.buffers)
    <3>1. Become([Here EXCEPT !.panes[current] =
               [Showing(panes[current], b) EXCEPT !.tabs = WithTab(@, b)],
             !.shown = b]) /\ opening' = opening
      BY <1>5 DEF ShowBuffer
    <3>2. h.current = current /\ h.panes = panes
      BY <1>1
    <3> QED BY <1>1, <1>2, <3>1, <3>2 DEF h
  <2>2. SoundBut(t, {})
    BY <1>1, <2>1, ShownIs
  <2> HIDE DEF t
  <2> QED BY <1>1, <1>3, <2>1, <2>2
<1>6. CASE NewBuffer
  <2> DEFINE b == Buffer(NoFile, "blank")
             t == Added(h, b, TRUE, FALSE)
  <2>1. Become(t) /\ opening' = opening
    BY <1>6 DEF NewBuffer, h
  <2>2. b \in Bufs
    BY DEF Buffer, Bufs, Kinds
  <2> HIDE DEF b
  <2>3. SoundBut(t, {})
    BY <1>1, <2>2, AddedIs
  <2> HIDE DEF t
  <2> QED BY <1>1, <1>3, <2>1, <2>3
<1>7. CASE Reopen
  <2> DEFINE Paths == Files \cup {NoFile}
             b == Buffer(Last(closed), "kept")
             s == [h EXCEPT !.closed = SubSeq(@, 1, Len(@) - 1), !.preview = 0]
             t == Added(s, b, FALSE, TRUE)
  <2>1. Become(t) /\ opening' = opening /\ closed # <<>>
    BY <1>7 DEF Reopen, h
  <2>2. closed \in Seq(Paths)
    BY <1>1 DEF SoundBut, Laid, Vector
  <2> HIDE DEF Paths
  <2>3. Last(closed) \in Paths /\ SubSeq(closed, 1, Len(closed) - 1) \in Seq(Paths)
    <3> DEFINE c == closed
    <3>1. c \in Seq(Paths) /\ c # <<>>
      BY <2>1, <2>2
    <3> HIDE DEF c
    <3>2. Len(c) \in Nat /\ Len(c) # 0 /\ \A k \in 1..Len(c) : c[k] \in Paths
      BY <3>1, EmptySeq, ElementsOf
    <3>3. c[Len(c)] \in Paths
      BY <3>2
    <3>4. \A k \in 1..(Len(c) - 1) : c[k] \in Paths
      BY <3>2
    <3>5. SubSeq(c, 1, Len(c) - 1) \in Seq(Paths)
      BY <3>1, <3>2, <3>4, SubSeqProperties
    <3> QED BY <3>3, <3>5 DEF Last, c
  <2>4. b \in Bufs
    BY <2>3 DEF Buffer, Bufs, Kinds, Paths
  <2>5. SoundBut(s, {})
    <3>1. /\ DOMAIN s = Fields /\ s.panes = h.panes /\ s.buffers = h.buffers /\ s.shown = h.shown
          /\ s.current = h.current /\ s.preview = 0
          /\ s.closed = SubSeq(closed, 1, Len(closed) - 1)
      BY <1>1 DEF Fields
    <3> HIDE DEF s
    <3>2. Vector(s)
      BY <1>1, <2>3, <3>1 DEF SoundBut, Laid, Vector, Paths
    <3> QED BY <1>1, <3>1, <3>2 DEF SoundBut, Laid, Layout
  <2> HIDE DEF b, s
  <2>6. SoundBut(t, {})
    BY <2>4, <2>5, AddedIs
  <2> HIDE DEF t
  <2> QED BY <1>1, <1>3, <2>1, <2>6
<1>8. CASE Edit
  <2>1. SoundBut(Here, {})'
    BY <1>1, <1>8, EditAgrees DEF h
  <2> QED BY <1>1, <1>8, <2>1 DEF Edit, Agreeing, O
<1>9. CASE Split
  <2> DEFINE b == panes[current].buffer
             tabs == panes[current].tabs
             t == SplitOff(h, current, b, tabs)
  <2>1. Become(t) /\ opening' = opening
    BY <1>9 DEF Split, h
  <2>2. b \in 1..Len(h.buffers) /\ Strip(tabs, Len(h.buffers))
    <3> DEFINE q == panes[current]
               n == Len(buffers)
    <3>1. q \in Loose(n) /\ n \in Nat
      BY <1>2
    <3> HIDE DEF q, n
    <3>2. q.buffer \in 1..n /\ Strip(q.tabs, n)
      BY <3>1, PaneParts
    <3> QED BY <1>1, <3>2 DEF q, n
  <2> HIDE DEF b, tabs
  <2>3. Grows(h, t, tabs, b)
    BY <1>1, <2>2, SplitOffIs
  <2> HIDE DEF t
  <2> QED BY <1>1, <1>3, <2>1, <2>3 DEF Grows
<1>10. CASE ClosePane
  <2>1. PICK t \in PaneClosings(h) : Become(t)
    BY <1>10 DEF ClosePane, h
  <2> DEFINE none == {}
  <2>2. SoundBut(h, none) /\ none \subseteq {h.current} /\ (Len(h.panes) = 1 => none = {})
    BY <1>1
  <2> HIDE DEF none
  <2>3. SoundBut(t, {})
    BY <2>1, <2>2, ClosingsAre
  <2> QED BY <1>1, <1>3, <1>10, <2>1, <2>3 DEF ClosePane
<1>11. ASSUME NEW f \in Files, NEW asPreview \in BOOLEAN, OpenFile(f, asPreview) PROVE Agreeing'
  <2> DEFINE s == IF asPreview THEN PreviewReplaced(h, f) ELSE h
             i == OpenIndex(s.buffers, f)
  <2>1. SoundBut(s, {})
    BY <1>1, PreviewReplacedIs
  <2>2. IF i # 0
        THEN Become(Revisited(s, i, asPreview)) /\ opening' = opening
        ELSE Become(s) /\ opening' = Append(opening, [file |-> f, preview |-> asPreview])
    BY <1>11 DEF OpenFile, h
  <2> HIDE DEF s
  <2>3. CASE i # 0
    <3>1. i \in 1..Len(s.buffers)
      BY <2>1, <2>3, OpenIndexIs
    <3> HIDE DEF i
    <3>2. SoundBut(Revisited(s, i, asPreview), {})
      BY <2>1, <3>1, RevisitedIs
    <3> QED BY <1>1, <1>3, <2>2, <2>3, <3>2
  <2>4. CASE i = 0
    <3>1. [file |-> f, preview |-> asPreview] \in O
      BY DEF O
    <3>2. Append(opening, [file |-> f, preview |-> asPreview]) \in Seq(O)
      BY <1>1, <3>1
    <3> HIDE DEF i
    <3> QED BY <1>3, <2>1, <2>2, <2>4, <3>2
  <2> QED BY <2>3, <2>4
<1>12. ASSUME NEW k \in DOMAIN opening, FinishOpen(k) PROVE Agreeing'
  <2> DEFINE o == opening[k]
             b == Buffer(o.file, IF o.preview THEN "preview" ELSE "kept")
             s == Added(h, b, TRUE, FALSE)
             t == [s EXCEPT !.preview = IF o.preview THEN s.shown ELSE @]
  <2>1. Become(t) /\ opening' = RemoveAt(opening, k)
    BY <1>12 DEF FinishOpen, h
  <2>2. k \in 1..Len(opening) /\ o \in O
    BY <1>1, ElementsOf
  <2>3. b \in Bufs /\ (o.preview => b.kind = "preview")
    BY <2>2 DEF Buffer, Bufs, Kinds, O
  <2>4. opening' \in Seq(O)
    BY <1>1, <2>1, <2>2, RemoveAtIs
  <2> HIDE DEF o, b
  <2>5. SoundBut(s, {}) /\ s.shown \in 1..Len(s.buffers) /\ s.buffers[s.shown] = b
    <3>1. s = Added(h, b, TRUE, FALSE)
      OBVIOUS
    <3> HIDE DEF s
    <3>2. SoundBut(s, {}) /\ InFront(s, b)
      BY <1>1, <2>3, <3>1, AddedIs
    <3> QED BY <3>2 DEF InFront
  <2> HIDE DEF s
  <2>6. DOMAIN s = Fields /\ Vector(s) /\ Layout(s, {}) /\ s.shown = s.panes[s.current].buffer
    BY <2>5 DEF SoundBut, Laid, Vector
  <2>7. /\ DOMAIN t = Fields /\ t.panes = s.panes /\ t.buffers = s.buffers /\ t.shown = s.shown
        /\ t.current = s.current /\ t.closed = s.closed
        /\ t.preview = IF o.preview THEN s.shown ELSE s.preview
    BY <2>6 DEF Fields
  <2> HIDE DEF t
  <2>8. Vector(t)
    BY <2>3, <2>5, <2>6, <2>7 DEF Vector
  <2>9. SoundBut(t, {})
    BY <2>6, <2>7, <2>8 DEF SoundBut, Laid, Layout
  <2> QED BY <1>3, <2>1, <2>4, <2>9
<1>13. ASSUME NEW p \in DOMAIN panes, ActivatePane(p) PROVE Agreeing'
  <2> DEFINE t == Activated(h, p)
  <2>1. Become(t) /\ opening' = opening /\ p \in 1..Len(h.panes) /\ Laid(h, {})
    BY <1>1, <1>2, <1>13, AllSound DEF ActivatePane, h
  <2> DEFINE none == {}
  <2>2. Laid(h, none)
    BY <2>1
  <2> HIDE DEF none
  <2>3. SoundBut(t, none)
    BY <2>1, <2>2, ActivatedIs
  <2> HIDE DEF t
  <2>4. SoundBut(t, {})
    BY <2>3 DEF none
  <2> QED BY <1>1, <1>3, <2>1, <2>4
<1>14. ASSUME NEW p \in DOMAIN panes, NEW k \in DOMAIN panes[p].tabs, SwitchTab(p, k) PROVE Agreeing'
  <2> DEFINE a == Activated(h, p)
             b == a.panes[p].tabs[k]
             t == [a EXCEPT !.panes[p] = Showing(@, b), !.shown = b]
  <2>1. Become(t) /\ opening' = opening /\ p \in 1..Len(h.panes)
    BY <1>1, <1>2, <1>14 DEF SwitchTab, h
  <2>2. b \in ToSet(h.panes[p].tabs)
    <3> DEFINE none == {}
    <3>1. Laid(h, none)
      BY <1>1, AllSound
    <3> HIDE DEF none
    <3>2. \A j \in 1..Len(h.panes) : SamePane(a.panes[j], h.panes[j])
      BY <2>1, <3>1, ActivatedIs
    <3> HIDE DEF a
    <3>3. a.panes[p].tabs = panes[p].tabs
      BY <1>1, <2>1, <3>2 DEF SamePane
    <3> QED BY <1>1, <1>14, <3>3 DEF ToSet
  <2>3. SoundBut([a EXCEPT !.panes[p] = Showing(@, b), !.shown = b], {})
    <3> HIDE DEF b
    <3> QED BY <1>1, <2>1, <2>2, SwitchedIs
  <2>4. SoundBut(t, {})
    BY <2>3
  <2> HIDE DEF t
  <2> QED BY <1>1, <1>3, <2>1, <2>4
<1>15. CASE FromTab
  <2>1. opening' = opening
    <3>1. \A b, src, dst : DropOnEdge(b, src, dst) => opening' = opening
      BY DEF DropOnEdge
    <3>2. \A b, src, dst, slot : MoveTab(b, src, dst, slot) => opening' = opening
      BY DEF MoveTab
    <3> QED BY <1>15, <3>1, <3>2 DEF FromTab
  <2>2. PICK t : Become(t) /\ SoundBut(t, {})
    BY <1>1, <1>15, DraggedIs DEF Drags, h
  <2> QED BY <1>1, <1>3, <2>1, <2>2
<1>16. CASE UNCHANGED vars
  BY <1>16 DEF vars, Agreeing, Here, SoundBut, Laid, Vector, Layout
<1> QED
  BY <1>4, <1>5, <1>6, <1>7, <1>8, <1>9, <1>10, <1>11, <1>12, <1>13, <1>14, <1>15, <1>16
  DEF Next, Landing

\* So it holds always.
LEMMA AlwaysAgreeing ==
  Spec => []Agreeing
<1>1. Init => Agreeing
  BY InitAgrees
<1>2. Agreeing /\ [Next]_vars => Agreeing'
  BY AgreeingStays
<1> QED BY <1>1, <1>2, PTL DEF Spec

-----------------------------------------------------------------------------
(* The theorems *)

\* Whatever is opened, closed, split and dragged in whatever order, every pane shows
\* one of its tabs, no buffer has two tabs in a pane, the buffer in front is the
\* focused pane's and the preview that the next one replaces is a preview
\* (src/buffers/buffers.cpp:60-233, src/panes/panes_tabs.cpp).
THEOREM PanesStayInStep == Spec => []PanesAgree
<1>1. Agreeing => PanesAgree
  BY AgreeingImplies DEF Agreeing
<1> QED
  BY <1>1, AlwaysAgreeing, PTL

\* Closing a buffer shifts the numbers of those behind it, in every pane and for
\* the buffer in front: no pane that shows another buffer ends up on a wrong one.
THEOREM CloseShiftsWithoutSlips == Spec => CloseKeepsWhatPanesShow
<1> DEFINE A == \A i \in DOMAIN buffers :
                  Len(buffers') < Len(buffers) /\ Close(i) => \A p \in DOMAIN panes :
                     panes[p].buffer # i =>
                       panes'[p].buffer = Shifted(panes[p].buffer, i)
<1>1. Agreeing => A
  <2> SUFFICES ASSUME Agreeing, NEW i \in DOMAIN buffers,
                      Len(buffers') < Len(buffers), Close(i),
                      NEW p \in DOMAIN panes, panes[p].buffer # i
               PROVE  panes'[p].buffer = Shifted(panes[p].buffer, i)
    OBVIOUS
  <2> DEFINE h == Here
             t == Closed(h, i)
  <2>1. h.panes = panes /\ h.buffers = buffers /\ SoundBut(h, {})
    BY HereIs DEF Agreeing
  <2>2. buffers' = t.buffers /\ panes' = t.panes
    BY DEF Close, Become
  <2> HIDE DEF h
  <2>3. /\ DOMAIN panes = 1..Len(panes) /\ DOMAIN buffers = 1..Len(buffers)
        /\ Len(buffers) \in Nat /\ i \in 1..Len(h.buffers)
    BY <2>1, AllSound
  <2>4. Len(h.buffers) # 1
    <3> SUFFICES ASSUME Len(h.buffers) = 1 PROVE FALSE
      OBVIOUS
    <3>1. t.buffers = <<Placeholder>>
      <4>1. t = Emptied(h, i)
        BY DEF Closed
      <4>2. DOMAIN h = Fields
        BY <2>1, AllSound
      <4> QED BY <4>1, <4>2 DEF Emptied, Fields
    <3>2. Len(t.buffers) = 1
      BY <3>1
    <3> HIDE DEF t
    <3>3. Len(buffers') = 1
      BY <2>2, <3>2, Zenon
    <3>4. Len(buffers) = 1
      BY <2>1, Zenon
    <3>5. ~(1 < 1)
      OBVIOUS
    <3> QED BY <3>3, <3>4, <3>5, Zenon
  <2>5. Follows(h, t, i)
    BY <2>1, <2>3, <2>4, ClosedIs
  <2> QED
    BY <2>1, <2>2, <2>3, <2>5 DEF Follows
<1> HIDE DEF A
<1>2. Spec => [][A]_vars
  BY <1>1, AlwaysAgreeing, PTL DEF Spec
<1>3. (Spec => [][A]_vars) => (Spec => CloseKeepsWhatPanesShow)
  BY DEF A, CloseKeepsWhatPanesShow
<1> QED
  BY <1>2, <1>3

\* A tab that is dropped, on a strip or against an edge, takes no other tab along,
\* though the group it leaves may close and move every pane to its right.
THEOREM DragsMoveOneTab == Spec => DragMovesOneTab
<1> DEFINE B == UNCHANGED <<buffers, closed, opening>> /\ FromTab =>
                  \E b \in DOMAIN buffers :
                    /\ \E p \in DOMAIN panes' : b \in ToSet(panes'[p].tabs)
                    /\ \A c \in DOMAIN buffers \ {b} :
                         Cardinality({p \in DOMAIN panes' : c \in ToSet(panes'[p].tabs)})
                           = Cardinality({p \in DOMAIN panes : c \in ToSet(panes[p].tabs)})
<1>1. Agreeing => B
  <2> SUFFICES ASSUME Agreeing, FromTab PROVE B
    OBVIOUS
  <2>1. /\ DOMAIN panes = 1..Len(panes) /\ DOMAIN buffers = 1..Len(buffers) /\ Len(buffers) \in Nat
        /\ \A k \in 1..Len(panes) : panes[k] \in Loose(Len(buffers))
    <3> DEFINE h == Here
    <3>1. h.panes = panes /\ h.buffers = buffers /\ SoundBut(h, {})
      BY HereIs DEF Agreeing
    <3> HIDE DEF h
    <3> QED BY <3>1, AllSound
  <2>2. PICK b : b \in DOMAIN buffers /\ \E t : Become(t) /\ Drags(Here, t, b)
    BY <2>1, DraggedIs DEF Agreeing
  <2>3. PICK t : Become(t) /\ Drags(Here, t, b)
    BY <2>2
  <2>4. panes' = t.panes
    BY <2>3 DEF Become
  <2>5. /\ \E p \in DOMAIN panes' : b \in ToSet(panes'[p].tabs)
        /\ \A c : c # b => Cardinality(Holders(panes', c)) = Cardinality(Holders(panes, c))
    BY <2>3, <2>4, HereIs DEF Drags, OthersStay
  <2>6. \A c \in DOMAIN buffers \ {b} :
          Cardinality({p \in DOMAIN panes' : c \in ToSet(panes'[p].tabs)})
            = Cardinality({p \in DOMAIN panes : c \in ToSet(panes[p].tabs)})
    BY <2>5 DEF Holders
  <2> QED
    BY <2>2, <2>5, <2>6
<1> HIDE DEF B
<1>2. Spec => [][B]_vars
  BY <1>1, AlwaysAgreeing, PTL DEF Spec
<1>3. (Spec => [][B]_vars) => (Spec => DragMovesOneTab)
  BY DEF B, DragMovesOneTab
<1> QED
  BY <1>2, <1>3
=============================================================================
