--------------------------- MODULE UndoTreeProofs ---------------------------
(***************************************************************************)
(* What TLC checks of UndoTree on one region and two contents, proved for  *)
(* any text, any caps and any number of states: the history stays a tree   *)
(* whatever is trimmed, and while snapshots are full every walk restores   *)
(* what its target reached.                                                *)
(*                                                                         *)
(* The argument: trimming only drops nodes, never the one in front, and    *)
(* never one that a kept node grew from unless that becomes the only root. *)
(* Whoever creates a node or walks away from one finds its content known,  *)
(* or knows it to be the buffer's.                                         *)
(***************************************************************************)
EXTENDS UndoTree, SequenceTheorems, WellFoundedInduction, TLAPS

-----------------------------------------------------------------------------
(* Induction, on sets of numbers *)

\* Strong induction, for one set at a time.
LEMMA EveryNumber ==
  ASSUME NEW T, \A n \in Nat : (\A m \in Nat : m < n => m \in T) => n \in T
  PROVE  Nat \subseteq T
<1>1. ASSUME Nat \ T # {} PROVE FALSE
  <2>1. Nat \ T \in SUBSET Nat
    OBVIOUS
  <2>2. PICK x \in Nat \ T : \A y \in Nat \ T : <<y, x>> \notin OpToRel(<, Nat)
    BY <1>1, <2>1, WFMin, NatLessThanWellFounded
  <2>3. ASSUME NEW m \in Nat, m < x PROVE m \in T
    <3>1. <<m, x>> \in OpToRel(<, Nat)
      BY <2>2, <2>3 DEF OpToRel
    <3> QED
      BY <2>2, <3>1
  <2> QED
    BY <2>2, <2>3
<1> QED
  BY <1>1

\* A number of a set that has one: the least.
LEMMA LeastOf ==
  ASSUME NEW T \in SUBSET Nat, T # {}
  PROVE  \E x \in T : \A y \in T : x <= y
<1>1. PICK x \in T : \A y \in T : <<y, x>> \notin OpToRel(<, Nat)
  BY WFMin, NatLessThanWellFounded
<1>2. ASSUME NEW y \in T, ~(x <= y) PROVE FALSE
  <2>1. <<y, x>> \in Nat \X Nat /\ y < x
    BY <1>2
  <2>2. <<y, x>> \in OpToRel(<, Nat)
    BY <2>1 DEF OpToRel
  <2> QED
    BY <1>1, <2>2
<1> QED
  BY <1>2

\* A sequence over a set is one over any larger set.
LEMMA SeqOfMore ==
  ASSUME NEW S, NEW T, S \subseteq T, NEW s \in Seq(S)
  PROVE  s \in Seq(T)
<1>1. Len(s) \in Nat /\ s \in [1..Len(s) -> S]
  BY LenProperties
<1>2. s \in [1..Len(s) -> T]
  BY <1>1
<1> QED
  BY <1>1, <1>2

-----------------------------------------------------------------------------
(* Filtering *)

\* What is kept after i elements.
KeptUpto(s, S, F, n) ==
  F = [i \in 0..n |-> IF i = 0 THEN <<>>
                      ELSE IF s[i] \in S THEN Append(F[i - 1], s[i]) ELSE F[i - 1]]

\* The recursion behind Keeping has a solution on every initial segment.
LEMMA KeptUptoExists ==
  ASSUME NEW s, NEW S, NEW n \in Nat
  PROVE  \E F : KeptUpto(s, S, F, n)
<1> DEFINE T == {m \in Nat : \E F : KeptUpto(s, S, F, m)}
<1>1. ASSUME NEW m \in Nat, \A k \in Nat : k < m => k \in T
      PROVE  m \in T
  <2>1. CASE m = 0
    <3> DEFINE F == [i \in 0..0 |-> <<>>]
    <3>1. KeptUpto(s, S, F, 0)
      BY DEF KeptUpto
    <3> QED
      BY <2>1, <3>1
  <2>2. CASE m # 0
    <3>1. PICK F : KeptUpto(s, S, F, m - 1)
      BY <1>1, <2>2
    <3> DEFINE G == [i \in 0..m |-> IF i = m
                       THEN IF s[m] \in S THEN Append(F[m - 1], s[m]) ELSE F[m - 1]
                       ELSE F[i]]
    <3>2. \A i \in 0..(m - 1) : G[i] = F[i]
      OBVIOUS
    <3>3. \A i \in 0..m : G[i] = IF i = 0 THEN <<>>
                                 ELSE IF s[i] \in S THEN Append(G[i - 1], s[i]) ELSE G[i - 1]
      <4> TAKE i \in 0..m
      <4>1. CASE i = m
        BY <2>2, <3>2, <4>1
      <4>2. CASE i # m
        <5>1. i \in 0..(m - 1) /\ (i # 0 => i - 1 \in 0..(m - 1))
          BY <4>2
        <5>2. F[i] = IF i = 0 THEN <<>>
                     ELSE IF s[i] \in S THEN Append(F[i - 1], s[i]) ELSE F[i - 1]
          BY <3>1, <5>1 DEF KeptUpto
        <5> HIDE DEF G
        <5> QED
          BY <3>2, <5>1, <5>2
      <4> QED
        BY <4>1, <4>2
    <3>4. KeptUpto(s, S, G, m)
      <4>1. G = [i \in 0..m |-> G[i]]
        OBVIOUS
      <4> HIDE DEF G
      <4> QED
        BY <3>3, <4>1 DEF KeptUpto
    <3> QED
      BY <3>4
  <2> QED
    BY <2>1, <2>2
<1> QED
  <2> HIDE DEF T
  <2>1. n \in T
    BY <1>1, EveryNumber
  <2> QED
    BY <2>1 DEF T

\* What is kept is, in order, everything that is in the set.
Picks(s, S, r, n, h) ==
  /\ h \in [1..Len(r) -> 1..n]
  /\ \A k \in 1..Len(r) : r[k] = s[h[k]] /\ s[h[k]] \in S
  /\ \A k, l \in 1..Len(r) : k < l => h[k] < h[l]
  /\ \A j \in 1..n : s[j] \in S => \E k \in 1..Len(r) : h[k] = j

\* Keeping returns the elements of S in their order: an increasing choice of their positions.
LEMMA KeepingPicks ==
  ASSUME NEW X, NEW s \in Seq(X), NEW S
  PROVE  /\ Keeping(s, S) \in Seq(X)
         /\ \E h : Picks(s, S, Keeping(s, S), Len(s), h)
<1> DEFINE F == CHOOSE F : KeptUpto(s, S, F, Len(s))
           T == {n \in Nat : n <= Len(s) =>
                   F[n] \in Seq(X) /\ \E h : Picks(s, S, F[n], n, h)}
<1>0. Len(s) \in Nat /\ \A i \in 1..Len(s) : s[i] \in X
  BY LenProperties, ElementOfSeq
<1>1. KeptUpto(s, S, F, Len(s))
  BY <1>0, KeptUptoExists
<1>2. Keeping(s, S) = F[Len(s)]
  BY DEF Keeping, KeptUpto
<1> HIDE DEF F
<1>3. ASSUME NEW n \in Nat, \A m \in Nat : m < n => m \in T
      PROVE  n \in T
  <2> SUFFICES ASSUME n <= Len(s)
               PROVE  F[n] \in Seq(X) /\ \E h : Picks(s, S, F[n], n, h)
    OBVIOUS
  <2>1. CASE n = 0
    <3>1. F[0] = <<>>
      BY <1>0, <1>1 DEF KeptUpto
    <3> DEFINE h == [k \in 1..0 |-> 0]
    <3>2. Picks(s, S, <<>>, 0, h)
      BY DEF Picks
    <3> QED
      BY <2>1, <3>1, <3>2
  <2>2. CASE n # 0
    <3>1. n - 1 \in Nat /\ n - 1 \in T /\ n - 1 <= Len(s) /\ n \in 1..Len(s)
      BY <1>0, <1>3, <2>2
    <3>2. F[n] = IF s[n] \in S THEN Append(F[n - 1], s[n]) ELSE F[n - 1]
      <4>1. n \in 0..Len(s)
        BY <1>0, <3>1
      <4> QED
        BY <1>1, <2>2, <4>1 DEF KeptUpto
    <3> DEFINE r == F[n - 1]
    <3>3. r \in Seq(X)
      BY <3>1
    <3>4. PICK h : Picks(s, S, r, n - 1, h)
      BY <3>1
    <3>5. CASE s[n] \notin S
      <4>1. Picks(s, S, r, n, h)
        <5> HIDE DEF r
        <5> QED BY <3>1, <3>4, <3>5 DEF Picks
      <4> QED
        BY <3>2, <3>3, <3>5, <4>1
    <3>6. CASE s[n] \in S
      <4> DEFINE q == Append(r, s[n])
                 g == [k \in 1..Len(q) |-> IF k = Len(q) THEN n ELSE h[k]]
      <4> HIDE DEF r
      <4>1. /\ q \in Seq(X) /\ Len(q) = Len(r) + 1 /\ Len(r) \in Nat
            /\ q[Len(q)] = s[n] /\ \A k \in 1..Len(r) : q[k] = r[k]
        BY <1>0, <3>1, <3>3, AppendProperties
      <4>2. \A k \in 1..Len(r) : h[k] \in 1..(n - 1)
        BY <3>4 DEF Picks
      <4> HIDE DEF q
      <4>3. g \in [1..Len(q) -> 1..n]
        BY <3>1, <4>1, <4>2
      <4>4. \A k \in 1..Len(r) : g[k] = h[k] /\ k \in 1..Len(q) /\ k # Len(q)
        BY <4>1
      <4>5. g[Len(q)] = n /\ Len(q) \in 1..Len(q)
        BY <4>1
      <4>6. \A k \in 1..Len(q) : k = Len(q) \/ k \in 1..Len(r)
        BY <4>1
      <4> HIDE DEF g
      <4>7. \A k \in 1..Len(q) : q[k] = s[g[k]] /\ s[g[k]] \in S
        BY <3>4, <3>6, <4>1, <4>4, <4>5, <4>6 DEF Picks
      <4>8. \A k, l \in 1..Len(q) : k < l => g[k] < g[l]
        <5> SUFFICES ASSUME NEW k \in 1..Len(q), NEW l \in 1..Len(q), k < l
                     PROVE  g[k] < g[l]
          OBVIOUS
        <5>1. k \in 1..Len(r)
          BY <4>1
        <5>2. CASE l = Len(q)
          BY <3>1, <4>2, <4>4, <4>5, <5>1, <5>2
        <5>3. CASE l # Len(q)
          BY <3>4, <4>4, <4>6, <5>1, <5>3 DEF Picks
        <5> QED
          BY <5>2, <5>3
      <4>9. ASSUME NEW j \in 1..n, s[j] \in S
            PROVE  \E k \in 1..Len(q) : g[k] = j
        <5>1. CASE j = n
          BY <4>5, <5>1
        <5>2. CASE j # n
          <6>1. j \in 1..(n - 1)
            BY <3>1, <5>2
          <6> QED
            BY <3>4, <4>4, <4>9, <6>1 DEF Picks
        <5> QED
          BY <5>1, <5>2
      <4>10. Picks(s, S, q, n, g)
        BY <4>3, <4>7, <4>8, <4>9 DEF Picks
      <4>11. F[n] = q
        BY <3>2, <3>6 DEF q, r
      <4> QED
        BY <4>1, <4>10, <4>11
    <3> QED
      BY <3>5, <3>6
  <2> QED
    BY <2>1, <2>2
<1> HIDE DEF T
<1>4. Len(s) \in T
  BY <1>0, <1>3, EveryNumber
<1> QED
  BY <1>0, <1>2, <1>4 DEF T

\* What stays when the nodes of D go: all the others, in order.
Stays(kept, n, D) ==
  /\ kept \in Seq(1..n)
  /\ \A k, l \in 1..Len(kept) : k < l => kept[k] < kept[l]
  /\ \A k \in 1..Len(kept) : kept[k] \notin D
  /\ \A i \in (1..n) \ D : \E k \in 1..Len(kept) : kept[k] = i

\* drop_nodes() keeps the nodes outside D, each once, in order.
LEMMA KeptStays ==
  ASSUME NEW X, NEW nodes \in Seq(X), NEW D
  PROVE  Stays(Kept(nodes, D), Len(nodes), D)
<1> DEFINE n == Len(nodes)
           s == [i \in DOMAIN nodes |-> i]
           S == DOMAIN nodes \ D
<1>1. n \in Nat /\ DOMAIN nodes = 1..n
  BY LenProperties
<1>2. s \in Seq(1..n) /\ Len(s) = n /\ \A i \in 1..n : s[i] = i
  <2>1. s \in [1..n -> 1..n]
    BY <1>1
  <2> QED
    BY <1>1, <2>1, LenProperties
<1> HIDE DEF s
<1>3. /\ Keeping(s, S) \in Seq(1..n)
      /\ \E h : Picks(s, S, Keeping(s, S), Len(s), h)
  BY <1>2, KeepingPicks
<1>4. PICK h : Picks(s, S, Keeping(s, S), n, h)
  BY <1>2, <1>3
<1>5. Kept(nodes, D) = Keeping(s, S)
  BY DEF Kept, s
<1> DEFINE kept == Kept(nodes, D)
<1> HIDE DEF kept
<1>6. \A k \in 1..Len(kept) : h[k] \in 1..n /\ kept[k] = h[k] /\ kept[k] \in S
  BY <1>2, <1>4, <1>5 DEF Picks, kept
<1>7. \A k, l \in 1..Len(kept) : k < l => kept[k] < kept[l]
  BY <1>4, <1>5, <1>6 DEF Picks, kept
<1>8. ASSUME NEW i \in (1..n) \ D PROVE \E k \in 1..Len(kept) : kept[k] = i
  <2>1. s[i] \in S
    BY <1>1, <1>2
  <2>2. PICK k \in 1..Len(kept) : h[k] = i
    BY <1>4, <1>5, <2>1 DEF Picks, kept
  <2> QED
    BY <1>6, <2>2
<1>9. kept \in Seq(1..n)
  BY <1>3, <1>5 DEF kept
<1>10. \A k \in 1..Len(kept) : kept[k] \notin D
  BY <1>6
<1> QED
  BY <1>7, <1>8, <1>9, <1>10 DEF Stays, kept

\* A node that stays is found where it was put, and only there.
LEMMA RemapFinds ==
  ASSUME NEW n \in Nat, NEW D, NEW kept, Stays(kept, n, D)
  PROVE  /\ \A k \in 1..Len(kept) : Remap(kept, kept[k]) = k
         /\ \A i : (\A k \in 1..Len(kept) : kept[k] # i) => Remap(kept, i) = 0
         /\ \A i \in (1..n) \ D :
              Remap(kept, i) \in 1..Len(kept) /\ kept[Remap(kept, i)] = i
<1>1. DOMAIN kept = 1..Len(kept) /\ Len(kept) \in Nat
  BY LenProperties DEF Stays
<1>2. \A k \in 1..Len(kept) : kept[k] \in 1..n
  BY ElementOfSeq DEF Stays
<1>3. ASSUME NEW k \in 1..Len(kept), NEW l \in 1..Len(kept), kept[k] = kept[l]
      PROVE  k = l
  BY <1>2, <1>3 DEF Stays
<1>4. ASSUME NEW k \in 1..Len(kept) PROVE Remap(kept, kept[k]) = k
  <2>1. Remap(kept, kept[k]) = CHOOSE l \in 1..Len(kept) : kept[l] = kept[k]
    BY <1>1 DEF Remap
  <2>2. Remap(kept, kept[k]) \in 1..Len(kept) /\ kept[Remap(kept, kept[k])] = kept[k]
    BY <2>1
  <2> QED
    BY <1>3, <2>2
<1>5. ASSUME NEW i, \A k \in 1..Len(kept) : kept[k] # i PROVE Remap(kept, i) = 0
  BY <1>1, <1>5 DEF Remap
<1>6. ASSUME NEW i \in (1..n) \ D
      PROVE  Remap(kept, i) \in 1..Len(kept) /\ kept[Remap(kept, i)] = i
  <2>1. PICK k \in 1..Len(kept) : kept[k] = i
    BY DEF Stays
  <2> QED
    BY <1>4, <2>1
<1> QED
  BY <1>4, <1>5, <1>6

-----------------------------------------------------------------------------
(* The chain from a node to its root *)

\* A node comes after its parent, and only the first has none.
Rooted(nodes) ==
  /\ nodes \in Seq([parent : Nat, seq : Nat, saved : Nat, state : Seq(States), held : Texts])
  /\ \A i \in 1..Len(nodes) : nodes[i].parent < i /\ (nodes[i].parent = 0 => i = 1)

ChainUpto(nodes, C, n) ==
  C = [i \in 0..n |-> IF i = 0 THEN <<>> ELSE <<i>> \o C[nodes[i].parent]]

\* What a rooted numbering says of each node.
LEMMA RootedNodes ==
  ASSUME NEW nodes, Rooted(nodes)
  PROVE  /\ Len(nodes) \in Nat /\ DOMAIN nodes = 1..Len(nodes)
         /\ \A i \in 1..Len(nodes) :
              /\ nodes[i] \in [parent : Nat, seq : Nat, saved : Nat, state : Seq(States), held : Texts]
              /\ nodes[i].parent \in 0..(i - 1) /\ (nodes[i].parent = 0 => i = 1)
<1>1. Len(nodes) \in Nat /\ DOMAIN nodes = 1..Len(nodes)
  BY LenProperties DEF Rooted
<1>2. ASSUME NEW i \in 1..Len(nodes)
      PROVE  nodes[i] \in [parent : Nat, seq : Nat, saved : Nat, state : Seq(States), held : Texts]
  BY ElementOfSeq DEF Rooted
<1>3. ASSUME NEW i \in 1..Len(nodes)
      PROVE  nodes[i].parent \in 0..(i - 1) /\ (nodes[i].parent = 0 => i = 1)
  <2>1. nodes[i].parent \in Nat
    BY <1>2
  <2>2. nodes[i].parent < i /\ (nodes[i].parent = 0 => i = 1)
    BY DEF Rooted
  <2> QED
    BY <1>1, <2>1, <2>2
<1> QED
  BY <1>1, <1>2, <1>3

\* The recursion behind Chain has a solution: parents have smaller numbers.
LEMMA ChainUptoExists ==
  ASSUME NEW nodes, Rooted(nodes), NEW n \in 0..Len(nodes)
  PROVE  \E C : ChainUpto(nodes, C, n)
<1> DEFINE T == {m \in Nat : m <= Len(nodes) => \E C : ChainUpto(nodes, C, m)}
<1>0. Len(nodes) \in Nat
  BY RootedNodes
<1>1. ASSUME NEW m \in Nat, \A k \in Nat : k < m => k \in T
      PROVE  m \in T
  <2> SUFFICES ASSUME m <= Len(nodes) PROVE \E C : ChainUpto(nodes, C, m)
    OBVIOUS
  <2>1. CASE m = 0
    <3> DEFINE C == [i \in 0..0 |-> <<>>]
    <3>1. ChainUpto(nodes, C, 0)
      BY DEF ChainUpto
    <3> QED
      BY <2>1, <3>1
  <2>2. CASE m # 0
    <3>0. m - 1 \in Nat /\ m - 1 < m /\ m - 1 <= Len(nodes) /\ m \in 1..Len(nodes)
      BY <1>0, <2>2
    <3>1. PICK C : ChainUpto(nodes, C, m - 1)
      BY <1>1, <3>0
    <3> DEFINE G == [i \in 0..m |-> IF i = m THEN <<m>> \o C[nodes[m].parent] ELSE C[i]]
    <3>2. \A i \in 0..(m - 1) : G[i] = C[i]
      OBVIOUS
    <3>3. \A i \in 0..m : G[i] = IF i = 0 THEN <<>> ELSE <<i>> \o G[nodes[i].parent]
      <4> TAKE i \in 0..m
      <4>0. i # 0 => nodes[i].parent \in 0..(i - 1)
        BY <1>0, <3>0, RootedNodes
      <4>1. CASE i = m
        <5>1. nodes[m].parent \in 0..(m - 1)
          BY <2>2, <4>0, <4>1
        <5>2. G[m] = <<m>> \o C[nodes[m].parent]
          OBVIOUS
        <5> HIDE DEF G
        <5> QED
          BY <2>2, <3>2, <4>1, <5>1, <5>2
      <4>2. CASE i # m
        <5>1. i \in 0..(m - 1) /\ (i # 0 => nodes[i].parent \in 0..(m - 1))
          BY <4>0, <4>2
        <5>2. C[i] = IF i = 0 THEN <<>> ELSE <<i>> \o C[nodes[i].parent]
          BY <3>1, <5>1 DEF ChainUpto
        <5> HIDE DEF G
        <5> QED
          BY <3>2, <5>1, <5>2
      <4> QED
        BY <4>1, <4>2
    <3>4. ChainUpto(nodes, G, m)
      <4>1. G = [i \in 0..m |-> G[i]]
        OBVIOUS
      <4> HIDE DEF G
      <4> QED
        BY <3>3, <4>1 DEF ChainUpto
    <3> QED
      BY <3>4
  <2> QED
    BY <2>1, <2>2
<1> QED
  <2> HIDE DEF T
  <2>1. n \in T
    BY <1>0, <1>1, EveryNumber
  <2> QED
    BY <1>0, <2>1 DEF T

\* The chain is what its definition says: the node, then its parent's.
LEMMA ChainGoesOn ==
  ASSUME NEW nodes, Rooted(nodes), NEW n \in 0..Len(nodes)
  PROVE  Chain(nodes, n) = IF n = 0 THEN <<>> ELSE <<n>> \o Chain(nodes, nodes[n].parent)
<1> DEFINE C == CHOOSE C : ChainUpto(nodes, C, Len(nodes))
<1>0. Len(nodes) \in Nat
  BY RootedNodes
<1>1. ChainUpto(nodes, C, Len(nodes))
  <2>1. Len(nodes) \in 0..Len(nodes)
    BY <1>0
  <2> QED
    BY <2>1, ChainUptoExists
<1>2. \A i : Chain(nodes, i) = C[i]
  BY DEF Chain, ChainUpto
<1> HIDE DEF C
<1>3. C[n] = IF n = 0 THEN <<>> ELSE <<n>> \o C[nodes[n].parent]
  BY <1>1 DEF ChainUpto
<1> QED
  BY <1>2, <1>3

\* The chain of n is a sequence of nodes, each the parent of the one before it.
Climbs(nodes, n, c) ==
  /\ c \in Seq(1..n) /\ Len(c) > 0
  /\ c[1] = n
  /\ \A j \in 1..(Len(c) - 1) : c[j + 1] = nodes[c[j]].parent
  /\ nodes[c[Len(c)]].parent = 0
  /\ \A j, k \in 1..Len(c) : j < k => c[k] < c[j]

\* A chain goes from its node to the root, each element the parent of the one before.
LEMMA ChainClimbs ==
  ASSUME NEW nodes, Rooted(nodes), NEW n \in 1..Len(nodes)
  PROVE  Climbs(nodes, n, Chain(nodes, n))
<1> DEFINE T == {m \in Nat : m \in 1..Len(nodes) => Climbs(nodes, m, Chain(nodes, m))}
<1>0. Len(nodes) \in Nat
  BY RootedNodes
<1>1. ASSUME NEW m \in Nat, \A k \in Nat : k < m => k \in T
      PROVE  m \in T
  <2> SUFFICES ASSUME m \in 1..Len(nodes) PROVE Climbs(nodes, m, Chain(nodes, m))
    OBVIOUS
  <2> DEFINE p == nodes[m].parent
             b == Chain(nodes, p)
             c == <<m>> \o b
  <2>1. p \in 0..(m - 1) /\ m # 0 /\ m \in 0..Len(nodes)
    BY <1>0, RootedNodes
  <2>2. Chain(nodes, m) = c
    BY <2>1, ChainGoesOn
  <2>3. CASE p = 0
    <3>1. 0 \in 0..Len(nodes)
      BY <1>0
    <3>2. b = <<>>
      BY <2>3, <3>1, ChainGoesOn
    <3>3. c = <<m>>
      BY <3>2
    <3>4. Climbs(nodes, m, <<m>>)
      BY <2>1, <2>3 DEF Climbs
    <3> QED
      BY <2>2, <3>3, <3>4
  <2>4. CASE p # 0
    <3>1. p \in Nat /\ p < m /\ p \in 1..Len(nodes)
      BY <1>0, <2>1, <2>4
    <3>2. Climbs(nodes, p, b)
      <4>1. p \in T
        BY <1>1, <3>1
      <4> HIDE DEF p
      <4> QED
        BY <3>1, <4>1
    <3> HIDE DEF b, p
    <3>3. b \in Seq(1..p) /\ Len(b) \in Nat /\ Len(b) > 0
      BY <3>2, LenProperties DEF Climbs
    <3>4. b \in Seq(1..m) /\ <<m>> \in Seq(1..m)
      <4>1. (1..p) \subseteq (1..m) /\ m \in 1..m
        BY <2>1, <3>1
      <4>2. b \in Seq(1..m)
        BY <3>3, <4>1, SeqOfMore
      <4> QED
        BY <4>1, <4>2
    <3>5. /\ c \in Seq(1..m) /\ Len(c) = 1 + Len(b)
          /\ c[1] = m /\ \A j \in 2..(1 + Len(b)) : c[j] = b[j - 1]
      BY <3>3, <3>4
    <3>6. \A j \in 1..Len(b) : b[j] \in 1..p
      BY <3>3, ElementOfSeq
    <3> HIDE DEF c
    <3>7. ASSUME NEW j \in 1..(Len(c) - 1) PROVE c[j + 1] = nodes[c[j]].parent
      <4>1. CASE j = 1
        <5>1. c[2] = b[1]
          BY <3>3, <3>5
        <5> QED
          BY <3>2, <3>5, <4>1, <5>1 DEF Climbs, p
      <4>2. CASE j # 1
        <5>1. c[j] = b[j - 1] /\ c[j + 1] = b[j]
          BY <3>3, <3>5, <4>2
        <5>2. j - 1 \in 1..(Len(b) - 1) /\ (j - 1) + 1 = j
          BY <3>3, <3>5, <4>2
        <5>3. b[j] = nodes[b[j - 1]].parent
          BY <3>2, <5>2 DEF Climbs
        <5> QED
          BY <5>1, <5>3
      <4> QED
        BY <4>1, <4>2
    <3>8. nodes[c[Len(c)]].parent = 0
      <4>1. c[Len(c)] = b[Len(b)]
        BY <3>3, <3>5
      <4> QED
        BY <3>2, <4>1 DEF Climbs
    <3>9. ASSUME NEW j \in 1..Len(c), NEW k \in 1..Len(c), j < k PROVE c[k] < c[j]
      <4>1. c[k] = b[k - 1] /\ k - 1 \in 1..Len(b)
        BY <3>3, <3>5, <3>9
      <4>2. CASE j = 1
        <5>1. b[k - 1] \in 1..p
          BY <3>6, <4>1
        <5> QED
          BY <3>1, <3>5, <4>1, <4>2, <5>1
      <4>3. CASE j # 1
        <5>0. j \in 2..(1 + Len(b)) /\ j - 1 \in 1..Len(b) /\ j - 1 < k - 1
          BY <3>3, <3>5, <3>9, <4>3
        <5>1. c[j] = b[j - 1] /\ j - 1 \in 1..Len(b) /\ j - 1 < k - 1
          BY <3>5, <5>0
        <5> QED
          BY <3>2, <4>1, <5>1 DEF Climbs
      <4> QED
        BY <4>2, <4>3
    <3>10. Climbs(nodes, m, c)
      BY <3>3, <3>5, <3>7, <3>8, <3>9 DEF Climbs
    <3> QED
      BY <2>2, <3>10
  <2> QED
    BY <2>3, <2>4
<1> QED
  <2> HIDE DEF T
  <2>1. n \in Nat /\ n \in T
    BY <1>0, <1>1, EveryNumber
  <2> QED
    BY <2>1 DEF T

\* A node is on its own path, and otherwise it is on its parent's.
LEMMA PathGoesOn ==
  ASSUME NEW nodes, Rooted(nodes), NEW n \in 1..Len(nodes), NEW a
  PROVE  OnPath(nodes, n, a) <=>
           a = n \/ (nodes[n].parent # 0 /\ OnPath(nodes, nodes[n].parent, a))
<1> DEFINE p == nodes[n].parent
           b == Chain(nodes, p)
<1>0. Len(nodes) \in Nat /\ p \in 0..(n - 1) /\ n # 0 /\ n \in 0..Len(nodes)
  BY RootedNodes
<1>1. Chain(nodes, n) = <<n>> \o b
  BY <1>0, ChainGoesOn
<1>2. CASE p = 0
  <2>1. 0 \in 0..Len(nodes)
    BY <1>0
  <2>2. b = <<>>
    BY <1>2, <2>1, ChainGoesOn
  <2>3. Chain(nodes, n) = <<n>>
    BY <1>1, <2>2
  <2> QED
    BY <1>2, <2>3 DEF OnPath, ToSet
<1>3. CASE p # 0
  <2>1. p \in 1..Len(nodes)
    BY <1>0, <1>3
  <2>2. Climbs(nodes, p, b)
    BY <2>1, ChainClimbs
  <2>3. b \in Seq(1..p) /\ Len(b) \in Nat
    BY <2>2, LenProperties DEF Climbs
  <2>4. ToSet(<<n>> \o b) = {n} \cup ToSet(b)
    <3> HIDE DEF b, p
    <3>1. b \in Seq(Nat) /\ <<n>> \in Seq(Nat)
      <4>1. (1..p) \subseteq Nat
        OBVIOUS
      <4>2. b \in Seq(Nat)
        BY <2>3, <4>1, SeqOfMore
      <4>3. n \in Nat
        BY <1>0
      <4> QED
        BY <4>2, <4>3
    <3> DEFINE c == <<n>> \o b
    <3>2. /\ DOMAIN c = 1..(1 + Len(b)) /\ DOMAIN b = 1..Len(b)
          /\ c[1] = n /\ \A j \in 2..(1 + Len(b)) : c[j] = b[j - 1]
      BY <2>3, <3>1
    <3> HIDE DEF c
    <3>3. \A j \in 1..(1 + Len(b)) : c[j] \in {n} \cup {b[k] : k \in 1..Len(b)}
      <4> TAKE j \in 1..(1 + Len(b))
      <4>1. CASE j = 1
        BY <3>2, <4>1
      <4>2. CASE j # 1
        <5>1. j - 1 \in 1..Len(b) /\ c[j] = b[j - 1]
          BY <2>3, <3>2, <4>2
        <5> QED
          BY <5>1
      <4> QED
        BY <4>1, <4>2
    <3>4. n \in {c[j] : j \in 1..(1 + Len(b))}
      BY <2>3, <3>2
    <3>5. \A k \in 1..Len(b) : b[k] \in {c[j] : j \in 1..(1 + Len(b))}
      <4> TAKE k \in 1..Len(b)
      <4>1. k + 1 \in 2..(1 + Len(b)) /\ c[k + 1] = b[k]
        BY <2>3, <3>2
      <4> QED
        BY <4>1
    <3>6. {c[j] : j \in 1..(1 + Len(b))} = {n} \cup {b[k] : k \in 1..Len(b)}
      BY <3>3, <3>4, <3>5
    <3> QED
      BY <3>2, <3>6 DEF ToSet, c
  <2> QED
    BY <1>1, <1>3, <2>4 DEF OnPath
<1> QED
  BY <1>2, <1>3

\* Who is on a path is no later than its node; the first node is on every path.
LEMMA PathsGoDown ==
  ASSUME NEW nodes, Rooted(nodes), NEW n \in 1..Len(nodes)
  PROVE  /\ \A a : OnPath(nodes, n, a) => a \in 1..n
         /\ OnPath(nodes, n, 1)
<1> DEFINE T == {m \in Nat : m \in 1..Len(nodes) =>
                   /\ \A a : OnPath(nodes, m, a) => a \in 1..m
                   /\ OnPath(nodes, m, 1)}
<1>0. Len(nodes) \in Nat
  BY RootedNodes
<1>1. ASSUME NEW m \in Nat, \A k \in Nat : k < m => k \in T
      PROVE  m \in T
  <2> SUFFICES ASSUME m \in 1..Len(nodes)
               PROVE  /\ \A a : OnPath(nodes, m, a) => a \in 1..m
                      /\ OnPath(nodes, m, 1)
    OBVIOUS
  <2> DEFINE p == nodes[m].parent
  <2>1. p \in 0..(m - 1) /\ (p = 0 => m = 1)
    BY RootedNodes
  <2>2. \A a : OnPath(nodes, m, a) <=> a = m \/ (p # 0 /\ OnPath(nodes, p, a))
    BY PathGoesOn
  <2>3. CASE p = 0
    BY <2>1, <2>2, <2>3
  <2>4. CASE p # 0
    <3>1. p \in Nat /\ p < m /\ p \in 1..Len(nodes)
      BY <1>0, <2>1, <2>4
    <3> HIDE DEF p
    <3>2. p \in T
      BY <1>1, <3>1
    <3>3. (\A a : OnPath(nodes, p, a) => a \in 1..p) /\ OnPath(nodes, p, 1)
      BY <3>1, <3>2
    <3> QED
      BY <2>2, <2>4, <3>1, <3>3
  <2> QED
    BY <2>3, <2>4
<1> QED
  <2> HIDE DEF T
  <2>1. n \in Nat /\ n \in T
    BY <1>0, <1>1, EveryNumber
  <2> QED
    BY <2>1 DEF T

\* A path goes through the paths of its nodes, and through nothing else from
\* there on.
LEMMA PathsJoin ==
  ASSUME NEW nodes, Rooted(nodes), NEW n \in 1..Len(nodes),
         NEW b, OnPath(nodes, n, b)
  PROVE  \A a : a <= b /\ a \in Nat => (OnPath(nodes, n, a) <=> OnPath(nodes, b, a))
<1> DEFINE T == {m \in Nat : m \in 1..Len(nodes) =>
                   \A b1 : OnPath(nodes, m, b1) =>
                     \A a \in Nat : a <= b1 => (OnPath(nodes, m, a) <=> OnPath(nodes, b1, a))}
<1>0. Len(nodes) \in Nat
  BY RootedNodes
<1>1. ASSUME NEW m \in Nat, \A k \in Nat : k < m => k \in T
      PROVE  m \in T
  <2> SUFFICES ASSUME m \in 1..Len(nodes), NEW b1, OnPath(nodes, m, b1),
                      NEW a \in Nat, a <= b1
               PROVE  OnPath(nodes, m, a) <=> OnPath(nodes, b1, a)
    OBVIOUS
  <2> DEFINE p == nodes[m].parent
  <2>1. p \in 0..(m - 1)
    BY RootedNodes
  <2>2. \A x : OnPath(nodes, m, x) <=> x = m \/ (p # 0 /\ OnPath(nodes, p, x))
    BY PathGoesOn
  <2>3. CASE b1 = m
    BY <2>3
  <2>4. CASE b1 # m
    <3>1. p # 0 /\ OnPath(nodes, p, b1)
      BY <2>2, <2>4
    <3>2. p \in Nat /\ p < m /\ p \in 1..Len(nodes)
      BY <1>0, <2>1, <3>1
    <3> HIDE DEF p
    <3>3. b1 \in 1..p
      BY <3>1, <3>2, PathsGoDown
    <3>4. p \in T
      BY <1>1, <3>2
    <3>5. OnPath(nodes, p, a) <=> OnPath(nodes, b1, a)
      BY <3>1, <3>2, <3>4
    <3>6. a # m
      BY <3>2, <3>3
    <3> QED
      BY <2>2, <3>1, <3>5, <3>6
  <2> QED
    BY <2>3, <2>4
<1> QED
  <2> HIDE DEF T
  <2>1. n \in Nat /\ n \in T
    BY <1>0, <1>1, EveryNumber
  <2> QED
    BY <2>1 DEF T

-----------------------------------------------------------------------------
(* The shape of a tree, and what dropping nodes leaves of it *)

Nodes == [parent : Nat, seq : Nat, saved : Nat, state : Seq(States), held : Texts]

\* Nodes are numbered in the order they were created in.
Shape(tr) ==
  /\ tr \in [nodes : Seq(Nodes), current : Nat, last : Nat]
  /\ Rooted(tr.nodes)
  /\ tr.current <= Len(tr.nodes)
  /\ tr.current = 0 <=> tr.nodes = <<>>
  /\ \A i, j \in 1..Len(tr.nodes) : j < i => tr.nodes[j].seq < tr.nodes[i].seq
  /\ \A i \in 1..Len(tr.nodes) : 1 <= tr.nodes[i].seq /\ tr.nodes[i].seq <= tr.last
  /\ \A i \in 1..Len(tr.nodes) : Len(tr.nodes[i].state) <= 1

\* What is the same about a node wherever it is.
Alike(m, n) == m.seq = n.seq /\ m.saved = n.saved /\ m.state = n.state /\ m.held = n.held

\* t is what is left of tr: the nodes of t are nodes of tr, the one in front
\* among them and in front, and if it was the first it still is.
LeftOf(t, tr) ==
  /\ t.last = tr.last
  /\ t.current = 0 <=> tr.current = 0
  /\ tr.current = 1 => t.current = 1
  /\ \A k \in 1..Len(t.nodes) :
       \E i \in 1..Len(tr.nodes) :
         Alike(t.nodes[k], tr.nodes[i]) /\ (k = t.current <=> i = tr.current)

\* Dropping D is safe: not the one in front, and no parent of a node that stays,
\* unless that is the first to stay.
Safe(tr, D) ==
  /\ tr.current \notin D
  /\ \A i, j \in (1..Len(tr.nodes)) \ D : j < i => tr.nodes[i].parent \notin D

\* The records drop_nodes() and the walks write, spelt out.
LEMMA TreeWith ==
  ASSUME NEW A, NEW tr \in [nodes : A, current : Nat, last : Nat], NEW ns, NEW c
  PROVE  /\ [tr EXCEPT !.nodes = ns, !.current = c] =
              [nodes |-> ns, current |-> c, last |-> tr.last]
         /\ [tr EXCEPT !.nodes = ns] = [nodes |-> ns, current |-> tr.current, last |-> tr.last]
         /\ [tr EXCEPT !.current = c] = [nodes |-> tr.nodes, current |-> c, last |-> tr.last]
<1>1. DOMAIN tr = {"nodes", "current", "last"}
  OBVIOUS
<1>2. [tr EXCEPT !.nodes = ns] = [nodes |-> ns, current |-> tr.current, last |-> tr.last]
  BY <1>1
<1>3. [tr EXCEPT !.current = c] = [nodes |-> tr.nodes, current |-> c, last |-> tr.last]
  BY <1>1
<1>4. [tr EXCEPT !.nodes = ns, !.current = c] =
         [nodes |-> ns, current |-> c, last |-> tr.last]
  <2> DEFINE u == [tr EXCEPT !.nodes = ns, !.current = c]
  <2>1. DOMAIN u = {"nodes", "current", "last"}
    BY <1>1
  <2>2. u.last = tr.last /\ u.nodes = ns
    BY <1>1
  <2>3. u.current = c
    BY <1>1
  <2>4. u = [x \in {"nodes", "current", "last"} |-> u[x]]
    BY <1>1
  <2> HIDE DEF u
  <2> QED
    BY <2>1, <2>2, <2>3, <2>4
<1> QED
  BY <1>2, <1>3, <1>4

\* Dropping a safe set closes the numbering up and changes nothing else.
LEMMA DropIsSafe ==
  ASSUME NEW tr, Shape(tr), NEW D, Safe(tr, D)
  PROVE  Shape(Drop(tr, D)) /\ LeftOf(Drop(tr, D), tr)
<1> DEFINE nodes == tr.nodes
           n == Len(nodes)
           kept == Kept(nodes, D)
           at(k) == [nodes[kept[k]] EXCEPT !.parent = Remap(kept, nodes[kept[k]].parent)]
           ns == [k \in DOMAIN kept |-> at(k)]
           t == [tr EXCEPT !.nodes = ns, !.current = Remap(kept, tr.current)]
<1>0. Drop(tr, D) = t
  <2>1. Drop(tr, D) = [tr EXCEPT !.nodes = [k \in DOMAIN kept |->
                             [tr.nodes[kept[k]] EXCEPT !.parent = Remap(kept, @)]],
                 !.current = Remap(kept, @)]
    BY DEF Drop
  <2> QED
    BY <2>1
<1>1. /\ nodes \in Seq(Nodes) /\ n \in Nat
      /\ \A i \in 1..n : nodes[i] \in Nodes /\ nodes[i].parent \in 0..(i - 1)
                          /\ (nodes[i].parent = 0 => i = 1)
  <2>1. nodes \in Seq(Nodes)
    BY DEF Shape
  <2> QED
    BY <2>1, RootedNodes DEF Shape, Nodes
<1>2. Stays(kept, n, D)
  BY <1>1, KeptStays
<1>3. /\ \A k \in 1..Len(kept) : Remap(kept, kept[k]) = k
      /\ \A i : (\A k \in 1..Len(kept) : kept[k] # i) => Remap(kept, i) = 0
      /\ \A i \in (1..n) \ D : Remap(kept, i) \in 1..Len(kept) /\ kept[Remap(kept, i)] = i
  BY <1>1, <1>2, RemapFinds
<1>4. /\ kept \in Seq(1..n) /\ Len(kept) \in Nat /\ DOMAIN kept = 1..Len(kept)
      /\ \A k \in 1..Len(kept) : kept[k] \in (1..n) \ D
  <2>1. kept \in Seq(1..n)
    BY <1>2 DEF Stays
  <2> QED
    BY <1>2, <2>1, LenProperties, ElementOfSeq DEF Stays
<1> HIDE DEF kept
<1>5. ASSUME NEW k \in 1..Len(kept)
      PROVE  /\ Remap(kept, nodes[kept[k]].parent) \in 0..(k - 1)
             /\ Remap(kept, nodes[kept[k]].parent) = 0 => k = 1
  <2> DEFINE i == kept[k]
             p == nodes[i].parent
  <2>1. i \in (1..n) \ D /\ p \in 0..(i - 1) /\ (p = 0 => i = 1)
    BY <1>1, <1>4
  <2>2. CASE k = 1
    <3>1. ASSUME NEW l \in 1..Len(kept) PROVE kept[l] # p
      <4>1. l = 1 \/ kept[1] < kept[l]
        BY <1>2, <1>4, <2>2 DEF Stays
      <4> QED
        BY <1>1, <1>4, <2>1, <2>2, <4>1
    <3>2. Remap(kept, p) = 0
      BY <1>3, <3>1
    <3> QED
      BY <2>2, <3>2
  <2>3. CASE k # 1
    <3>1. 1 \in 1..Len(kept) /\ 1 < k
      BY <1>4, <2>3
    <3>2. kept[1] \in (1..n) \ D /\ kept[1] < i
      BY <1>2, <1>4, <3>1 DEF Stays
    <3>3. p \in (1..n) \ D
      <4>1. p \notin D
        BY <2>1, <3>2 DEF Safe
      <4>2. p # 0
        BY <1>1, <2>1, <3>2
      <4> QED
        BY <1>1, <2>1, <4>1, <4>2
    <3> DEFINE l == Remap(kept, p)
    <3>4. l \in 1..Len(kept) /\ kept[l] = p
      BY <1>3, <3>3
    <3> HIDE DEF l
    <3>5. l < k
      <4>1. l = k \/ k < l \/ l < k
        BY <1>4, <3>4
      <4>2. ~(k < l)
        <5>1. k < l => i < kept[l]
          BY <1>2, <3>4 DEF Stays
        <5> QED
          BY <1>1, <2>1, <3>4, <5>1
      <4> QED
        BY <1>1, <2>1, <3>4, <4>1, <4>2
    <3> QED
      BY <1>4, <3>4, <3>5 DEF l
  <2> QED
    BY <2>2, <2>3
<1>6. /\ ns \in Seq(Nodes) /\ Len(ns) = Len(kept)
      /\ \A k \in 1..Len(kept) :
           /\ ns[k] \in Nodes /\ Alike(ns[k], nodes[kept[k]])
           /\ ns[k].parent = Remap(kept, nodes[kept[k]].parent)
  <2>1. ASSUME NEW k \in 1..Len(kept)
        PROVE  /\ at(k) \in Nodes /\ Alike(at(k), nodes[kept[k]])
               /\ at(k).parent = Remap(kept, nodes[kept[k]].parent)
    <3>1. nodes[kept[k]] \in Nodes
      BY <1>1, <1>4
    <3>2. Remap(kept, nodes[kept[k]].parent) \in Nat
      BY <1>5
    <3> QED
      BY <3>1, <3>2 DEF Nodes, Alike
  <2> HIDE DEF at
  <2>2. ns \in [1..Len(kept) -> Nodes] /\ DOMAIN ns = 1..Len(kept)
    BY <1>4, <2>1
  <2>3. ns \in Seq(Nodes) /\ Len(ns) = Len(kept)
    BY <1>4, <2>2, LenProperties
  <2> QED
    BY <1>4, <2>1, <2>3
<1> HIDE DEF ns
<1>7. t.nodes = ns /\ t.current = Remap(kept, tr.current) /\ t.last = tr.last
      /\ t = [nodes |-> ns, current |-> Remap(kept, tr.current), last |-> tr.last]
  <2>1. tr \in [nodes : Seq(Nodes), current : Nat, last : Nat]
    BY DEF Shape
  <2>2. t = [nodes |-> ns, current |-> Remap(kept, tr.current), last |-> tr.last]
    BY <2>1, TreeWith
  <2> HIDE DEF t
  <2> QED
    BY <2>2
<1> DEFINE c == Remap(kept, tr.current)
<1>8. CASE tr.current = 0
  <2>1. n = 0
    BY <1>8 DEF Shape
  <2>2. Len(kept) = 0
    BY <1>4, <2>1
  <2>3. c = 0
    BY <1>3, <1>8, <2>2
  <2>4. ns = <<>>
    BY <1>6, <2>2
  <2>5. Shape(t)
    <3>1. t \in [nodes : Seq(Nodes), current : Nat, last : Nat]
      BY <1>6, <1>7, <2>3 DEF Shape
    <3> QED
      BY <1>6, <1>7, <2>2, <2>3, <2>4, <3>1 DEF Shape, Rooted, Nodes
  <2>6. LeftOf(t, tr)
    BY <1>6, <1>7, <1>8, <2>2, <2>3 DEF LeftOf
  <2> QED
    BY <1>0, <2>5, <2>6
<1>9. CASE tr.current # 0
  <2>1. tr.current \in (1..n) \ D
    BY <1>1, <1>9 DEF Shape, Safe
  <2>2. c \in 1..Len(kept) /\ kept[c] = tr.current
    BY <1>3, <2>1
  <2> HIDE DEF c
  <2>3. Rooted(ns)
    <3>1. \A k \in 1..Len(ns) : ns[k].parent < k /\ (ns[k].parent = 0 => k = 1)
      <4> TAKE k \in 1..Len(ns)
      <4>1. k \in 1..Len(kept)
        BY <1>6
      <4>2. ns[k].parent \in 0..(k - 1) /\ (ns[k].parent = 0 => k = 1)
        BY <1>5, <1>6, <4>1
      <4> QED
        BY <1>4, <4>1, <4>2
    <3>2. ns \in Seq([parent : Nat, seq : Nat, saved : Nat, state : Seq(States), held : Texts])
      BY <1>6 DEF Nodes
    <3> QED
      BY <3>1, <3>2 DEF Rooted
  <2>4. ASSUME NEW k \in 1..Len(kept), NEW l \in 1..Len(kept), l < k
        PROVE  ns[l].seq < ns[k].seq
    <3>1. kept[l] < kept[k]
      BY <1>2, <2>4 DEF Stays
    <3>2. nodes[kept[l]].seq < nodes[kept[k]].seq
      BY <1>4, <3>1 DEF Shape
    <3> QED
      BY <1>6, <3>2 DEF Alike
  <2>5. ASSUME NEW k \in 1..Len(kept)
        PROVE  1 <= ns[k].seq /\ ns[k].seq <= tr.last /\ Len(ns[k].state) <= 1
    BY <1>4, <1>6 DEF Shape, Alike
  <2>6. t \in [nodes : Seq(Nodes), current : Nat, last : Nat]
    BY <1>6, <1>7, <2>2 DEF Shape, c
  <2>7. ns # <<>> /\ c # 0 /\ c <= Len(kept)
    BY <1>4, <1>6, <2>2
  <2>8. Shape(t)
    BY <1>6, <1>7, <2>3, <2>4, <2>5, <2>6, <2>7 DEF Shape, c
  <2>9. tr.current = 1 => c = 1
    <3>1. 1 \in 1..Len(kept) /\ (c = 1 \/ 1 < c)
      BY <1>4, <2>2
    <3>2. 1 < c => kept[1] < kept[c]
      BY <1>2, <2>2, <3>1 DEF Stays
    <3> QED
      BY <1>4, <2>2, <3>1, <3>2
  <2>10. ASSUME NEW k \in 1..Len(kept)
         PROVE  \E i \in 1..n : Alike(ns[k], nodes[i]) /\ (k = c <=> i = tr.current)
    <3>1. k = c <=> kept[k] = tr.current
      BY <1>3, <2>2
    <3> QED
      BY <1>4, <1>6, <3>1
  <2>11. LeftOf(t, tr)
    BY <1>6, <1>7, <1>9, <2>7, <2>9, <2>10 DEF LeftOf, c
  <2> QED
    BY <1>0, <2>8, <2>11
<1> QED
  BY <1>8, <1>9

\* Nothing dropped is also what is left.
LEMMA LeftOfItself ==
  ASSUME NEW tr, Shape(tr)
  PROVE  LeftOf(tr, tr)
BY DEF LeftOf, Alike

\* Dropping twice is dropping.
LEMMA LeftOfWhatWasLeft ==
  ASSUME NEW tr, NEW t, NEW u, LeftOf(t, tr), LeftOf(u, t)
  PROVE  LeftOf(u, tr)
<1>1. ASSUME NEW k \in 1..Len(u.nodes)
      PROVE  \E i \in 1..Len(tr.nodes) :
               Alike(u.nodes[k], tr.nodes[i]) /\ (k = u.current <=> i = tr.current)
  <2>1. PICK j \in 1..Len(t.nodes) :
          Alike(u.nodes[k], t.nodes[j]) /\ (k = u.current <=> j = t.current)
    BY DEF LeftOf
  <2>2. PICK i \in 1..Len(tr.nodes) :
          Alike(t.nodes[j], tr.nodes[i]) /\ (j = t.current <=> i = tr.current)
    BY DEF LeftOf
  <2>3. Alike(u.nodes[k], tr.nodes[i])
    BY <2>1, <2>2 DEF Alike
  <2> QED
    BY <2>1, <2>2, <2>3
<1> QED
  BY <1>1 DEF LeftOf

\* A shape's numbers.
LEMMA ShapeNumbers ==
  ASSUME NEW tr, Shape(tr)
  PROVE  /\ tr.nodes \in Seq(Nodes) /\ Len(tr.nodes) \in Nat
         /\ DOMAIN tr.nodes = 1..Len(tr.nodes)
         /\ tr.current \in 0..Len(tr.nodes) /\ tr.last \in Nat
         /\ tr.current = 0 <=> Len(tr.nodes) = 0
         /\ \A i \in 1..Len(tr.nodes) : tr.nodes[i] \in Nodes
<1>1. tr.nodes \in Seq(Nodes) /\ tr.current \in Nat /\ tr.last \in Nat
  BY DEF Shape
<1>2. Len(tr.nodes) \in Nat /\ DOMAIN tr.nodes = 1..Len(tr.nodes)
  BY <1>1, LenProperties
<1>3. \A i \in 1..Len(tr.nodes) : tr.nodes[i] \in Nodes
  BY <1>1, ElementOfSeq
<1>4. tr.nodes = <<>> <=> Len(tr.nodes) = 0
  BY <1>1, EmptySeq
<1> QED
  BY <1>1, <1>2, <1>3, <1>4 DEF Shape

\* As sequence numbers increase with the index, the oldest node has the least one.
LEMMA OldestIsFirst ==
  ASSUME NEW tr, Shape(tr), NEW S \in SUBSET (1..Len(tr.nodes)), S # {}
  PROVE  /\ Oldest(tr.nodes, S) \in S
         /\ \A j \in S : Oldest(tr.nodes, S) <= j
<1>0. Len(tr.nodes) \in Nat
  BY ShapeNumbers
<1>1. S \in SUBSET Nat
  BY <1>0
<1>2. PICK x \in S : \A y \in S : x <= y
  BY <1>1, LeastOf
<1>3. \A i \in S : tr.nodes[i].seq \in Nat
  BY ShapeNumbers DEF Nodes
<1>4. \A j \in S : tr.nodes[x].seq <= tr.nodes[j].seq
  <2> TAKE j \in S
  <2>1. x = j \/ x < j
    BY <1>1, <1>2
  <2>2. x < j => tr.nodes[x].seq < tr.nodes[j].seq
    BY DEF Shape
  <2> QED
    BY <1>3, <2>1, <2>2
<1> DEFINE i == Oldest(tr.nodes, S)
<1>5. i \in S /\ \A j \in S : tr.nodes[i].seq <= tr.nodes[j].seq
  BY <1>2, <1>4 DEF Oldest
<1> HIDE DEF i
<1>6. ASSUME NEW j \in S, j < i PROVE FALSE
  <2>1. tr.nodes[j].seq < tr.nodes[i].seq
    BY <1>5, <1>6 DEF Shape
  <2> QED
    BY <1>3, <1>5, <2>1
<1>7. \A j \in S : i <= j
  BY <1>1, <1>5, <1>6
<1> QED
  BY <1>5, <1>7 DEF i

\* What the trimming drops is safe to drop: a branch off the path of the node in
\* front, whole; or the root when the tree is that path alone.
LEMMA VictimsAreSafe ==
  ASSUME NEW tr, Shape(tr), tr.nodes # <<>>
  PROVE  Safe(tr, Victims(tr))
<1> DEFINE nodes == tr.nodes
           n == Len(nodes)
           c == tr.current
           off == {i \in DOMAIN nodes : ~OnPath(nodes, c, i)}
<1>1. n \in Nat /\ DOMAIN nodes = 1..n /\ c \in 1..n
  BY ShapeNumbers DEF Shape
<1>2. Rooted(nodes)
  BY DEF Shape
<1>3. \A i \in 1..n : nodes[i].parent \in 0..(i - 1) /\ (nodes[i].parent = 0 => i = 1)
  BY <1>2, RootedNodes
<1>4. CASE off # {}
  <2> DEFINE v == Oldest(nodes, off)
             D == {i \in DOMAIN nodes : OnPath(nodes, i, v)}
  <2>1. Victims(tr) = D
    BY <1>4 DEF Victims
  <2>2. v \in off
    <3>1. off \in SUBSET (1..n)
      BY <1>1
    <3> HIDE DEF off
    <3> QED
      BY <1>4, <3>1, OldestIsFirst
  <2> HIDE DEF v
  <2>3. c \notin D
    BY <2>2
  <2>4. ASSUME NEW i \in (1..n) \ D PROVE nodes[i].parent \notin D
    <3>1. OnPath(nodes, i, v) <=>
            v = i \/ (nodes[i].parent # 0 /\ OnPath(nodes, nodes[i].parent, v))
      BY <1>2, PathGoesOn
    <3> QED
      BY <1>1, <2>4, <3>1
  <2> QED
    BY <2>1, <2>3, <2>4 DEF Safe
<1>5. CASE off = {}
  <2> DEFINE o == Oldest(nodes, DOMAIN nodes)
  <2>1. Victims(tr) = {o} \ {c}
    BY <1>5 DEF Victims
  <2>2. o = 1
    <3>1. o \in 1..n /\ \A j \in 1..n : o <= j
      BY <1>1, OldestIsFirst
    <3> QED
      BY <1>1, <3>1
  <2>3. ASSUME NEW i \in (1..n) \ Victims(tr), NEW j \in (1..n) \ Victims(tr), j < i,
               nodes[i].parent \in Victims(tr)
        PROVE  FALSE
    <3>1. nodes[i].parent = 1 /\ c # 1 /\ 1 \in Victims(tr)
      BY <2>1, <2>2, <2>3
    <3>2. i \in 1..n /\ j \in 1..n /\ j # 1 /\ 2 \in 1..n /\ i > 2
      BY <1>1, <2>3, <3>1
    <3>3. OnPath(nodes, c, 2) /\ OnPath(nodes, c, i)
      BY <1>1, <1>5, <3>2
    <3>4. OnPath(nodes, i, 2)
      <4>1. 2 \in Nat /\ 2 <= i
        BY <3>2
      <4> QED
        BY <1>1, <1>2, <3>3, <4>1, PathsJoin
    <3>5. OnPath(nodes, 1, 2)
      BY <1>2, <3>1, <3>2, <3>4, PathGoesOn
    <3>6. 2 \in 1..1
      BY <1>1, <1>2, <3>2, <3>5, PathsGoDown
    <3> QED
      BY <3>6
  <2>4. c \notin Victims(tr)
    BY <2>1
  <2> QED
    BY <2>3, <2>4 DEF Safe
<1> QED
  BY <1>4, <1>5

\* One turn of trim_undo_tree()'s loop drops a safe set or nothing.
LEMMA TrimmedIsLeft ==
  ASSUME NEW tr, Shape(tr)
  PROVE  Shape(Trimmed(tr)) /\ LeftOf(Trimmed(tr), tr)
<1>1. CASE Trimmed(tr) = tr
  BY <1>1, LeftOfItself
<1>2. CASE Trimmed(tr) # tr
  <2>1. Trimmed(tr) = Drop(tr, Victims(tr)) /\ Len(tr.nodes) > Least
    BY <1>2 DEF Trimmed, Droppable
  <2>2. tr.nodes # <<>>
    BY <2>1, CapAssumption, ShapeNumbers
  <2>3. Safe(tr, Victims(tr))
    BY <2>2, VictimsAreSafe
  <2> QED
    BY <2>1, <2>3, DropIsSafe
<1> QED
  BY <1>1, <1>2

TrimsUpto(tr, A, n) == A = [k \in 0..n |-> IF k = 0 THEN tr ELSE Trimmed(A[k - 1])]

\* The turns of trim_undo_tree()'s loop, one after the other.
LEMMA TrimsUptoExists ==
  ASSUME NEW tr, NEW n \in Nat
  PROVE  \E A : TrimsUpto(tr, A, n)
<1> DEFINE T == {m \in Nat : \E A : TrimsUpto(tr, A, m)}
<1>1. ASSUME NEW m \in Nat, \A k \in Nat : k < m => k \in T
      PROVE  m \in T
  <2>1. CASE m = 0
    <3> DEFINE A == [i \in 0..0 |-> tr]
    <3>1. TrimsUpto(tr, A, 0)
      BY DEF TrimsUpto
    <3> QED
      BY <2>1, <3>1
  <2>2. CASE m # 0
    <3>1. PICK A : TrimsUpto(tr, A, m - 1)
      BY <1>1, <2>2
    <3> DEFINE G == [i \in 0..m |-> IF i = m THEN Trimmed(A[m - 1]) ELSE A[i]]
    <3>2. \A i \in 0..(m - 1) : G[i] = A[i]
      OBVIOUS
    <3>3. \A i \in 0..m : G[i] = IF i = 0 THEN tr ELSE Trimmed(G[i - 1])
      <4> TAKE i \in 0..m
      <4>1. CASE i = m
        <5>1. G[m] = Trimmed(A[m - 1]) /\ G[m - 1] = A[m - 1]
          BY <2>2, <3>2
        <5> HIDE DEF G
        <5> QED
          BY <2>2, <4>1, <5>1
      <4>2. CASE i # m
        <5>1. i \in 0..(m - 1) /\ (i # 0 => i - 1 \in 0..(m - 1))
          BY <4>2
        <5>2. A[i] = IF i = 0 THEN tr ELSE Trimmed(A[i - 1])
          BY <3>1, <5>1 DEF TrimsUpto
        <5> HIDE DEF G
        <5> QED
          BY <3>2, <5>1, <5>2
      <4> QED
        BY <4>1, <4>2
    <3>4. TrimsUpto(tr, G, m)
      <4>1. G = [i \in 0..m |-> G[i]]
        OBVIOUS
      <4> HIDE DEF G
      <4> QED
        BY <3>3, <4>1 DEF TrimsUpto
    <3> QED
      BY <3>4
  <2> QED
    BY <2>1, <2>2
<1> QED
  <2> HIDE DEF T
  <2>1. n \in T
    BY <1>1, EveryNumber
  <2> QED
    BY <2>1 DEF T

\* Whatever a trimming leaves is what is left of the tree.
LEMMA TrimsAreLeft ==
  ASSUME NEW tr, Shape(tr), NEW t \in Trims(tr)
  PROVE  Shape(t) /\ LeftOf(t, tr)
<1> DEFINE n == Len(tr.nodes)
           A == CHOOSE A : TrimsUpto(tr, A, n)
           T == {m \in Nat : m <= n => Shape(A[m]) /\ LeftOf(A[m], tr)}
<1>0. n \in Nat
  BY ShapeNumbers
<1>1. TrimsUpto(tr, A, n)
  BY <1>0, TrimsUptoExists
<1>2. \E k \in 0..n : t = A[k]
  <2>1. \E k \in DOMAIN A : t = A[k]
    BY DEF Trims, TrimsUpto
  <2> QED
    BY <1>1, <2>1 DEF TrimsUpto
<1> HIDE DEF A
<1>3. ASSUME NEW m \in Nat, \A k \in Nat : k < m => k \in T
      PROVE  m \in T
  <2> SUFFICES ASSUME m <= n PROVE Shape(A[m]) /\ LeftOf(A[m], tr)
    OBVIOUS
  <2>0. m \in 0..n
    BY <1>0
  <2>1. A[m] = IF m = 0 THEN tr ELSE Trimmed(A[m - 1])
    BY <1>1, <2>0 DEF TrimsUpto
  <2>2. CASE m = 0
    BY <2>1, <2>2, LeftOfItself
  <2>3. CASE m # 0
    <3>1. m - 1 \in Nat /\ m - 1 < m /\ m - 1 <= n
      BY <1>0, <2>3
    <3>2. Shape(A[m - 1]) /\ LeftOf(A[m - 1], tr)
      BY <1>3, <3>1
    <3>3. Shape(Trimmed(A[m - 1])) /\ LeftOf(Trimmed(A[m - 1]), A[m - 1])
      BY <3>2, TrimmedIsLeft
    <3> QED
      BY <2>1, <2>3, <3>2, <3>3, LeftOfWhatWasLeft
  <2> QED
    BY <2>2, <2>3
<1> QED
  <2>1. PICK k \in 0..n : t = A[k]
    BY <1>2
  <2> HIDE DEF T
  <2>2. k \in Nat /\ k <= n /\ k \in T
    BY <1>0, <1>3, EveryNumber
  <2> QED
    BY <2>1, <2>2 DEF T

-----------------------------------------------------------------------------
(* States, and what applying one makes of a text *)

\* A state holds the window of the text it was taken from.
LEMMA StateHolds ==
  ASSUME NEW s \in States
  PROVE  /\ s.from \in Texts /\ s.cursor \in Regions /\ s.modified \in BOOLEAN
         /\ DOMAIN s.part = IF Windowed THEN {s.cursor} ELSE Regions
         /\ \A r \in DOMAIN s.part : r \in Regions /\ s.part[r] = s.from[r]
<1>1. PICK t \in Texts, c \in Regions, m \in BOOLEAN : s = Capture(t, c, m)
  BY DEF States
<1>2. /\ s.from = t /\ s.cursor = c /\ s.modified = m
      /\ s.part = [r \in IF Windowed THEN {c} ELSE Regions |-> t[r]]
  BY <1>1 DEF Capture
<1> QED
  BY <1>2

\* capture_state() makes a state, of the text it is given.
LEMMA CaptureIsState ==
  ASSUME NEW t \in Texts, NEW c \in Regions, NEW m \in BOOLEAN
  PROVE  Capture(t, c, m) \in States /\ Capture(t, c, m).from = t
<1>1. Capture(t, c, m) \in States
  BY DEF States
<1>2. Capture(t, c, m).from = t
  BY DEF Capture
<1> QED
  BY <1>1, <1>2

\* Applying a state gives a text that agrees with it; that is the text it was
\* taken from when snapshots are full.
LEMMA AppliedAgrees ==
  ASSUME NEW s \in States, NEW t \in Texts
  PROVE  /\ Applied(t, s) \in Texts
         /\ \A r \in DOMAIN s.part : Applied(t, s)[r] = s.part[r]
         /\ SameContent(t, s) <=> \A r \in DOMAIN s.part : t[r] = s.part[r]
         /\ ~Windowed => Applied(t, s) = s.from
<1> DEFINE a == Applied(t, s)
<1>1. /\ s.from \in [Regions -> Contents] /\ t \in [Regions -> Contents]
      /\ \A r \in DOMAIN s.part : r \in Regions /\ s.part[r] = s.from[r]
      /\ ~Windowed => DOMAIN s.part = Regions
  BY StateHolds DEF Texts
<1>2. a = [r \in Regions |-> IF r \in DOMAIN s.part THEN s.part[r] ELSE t[r]]
  BY DEF Applied
<1>3. a \in [Regions -> Contents]
  BY <1>1, <1>2
<1>4. \A r \in DOMAIN s.part : a[r] = s.part[r]
  BY <1>1, <1>2
<1>5. a = t <=> \A r \in DOMAIN s.part : t[r] = s.part[r]
  <2>1. ASSUME \A r \in DOMAIN s.part : t[r] = s.part[r] PROVE a = t
    <3>1. \A r \in Regions : a[r] = t[r]
      BY <1>2, <2>1
    <3> HIDE DEF a
    <3> QED
      BY <1>1, <1>3, <3>1
  <2> QED
    BY <1>4, <2>1
<1>6. ASSUME ~Windowed PROVE a = s.from
  <2>1. \A r \in Regions : a[r] = s.from[r]
    BY <1>1, <1>2, <1>6
  <2> HIDE DEF a
  <2> QED
    BY <1>1, <1>3, <2>1
<1> QED
  BY <1>3, <1>4, <1>5, <1>6 DEF Texts, SameContent

-----------------------------------------------------------------------------
(* What a tree holds *)

\* Every node but the one in front has its content, and a content is what the
\* node reached.
Holding(tr) ==
  /\ \A i \in 1..Len(tr.nodes) : i # tr.current => Known(tr.nodes[i])
  /\ \A i \in 1..Len(tr.nodes) :
       Known(tr.nodes[i]) => tr.nodes[i].state[1].from = tr.nodes[i].held

\* The node in front reached t.
OnText(tr, t) == tr.current # 0 => tr.nodes[tr.current].held = t

\* The stamps of a tree, each with what its node reached.
Stamps(tr) == {<<tr.nodes[i].saved, tr.nodes[i].held>> : i \in 1..Len(tr.nodes)}

\* Trimming takes nothing from the nodes it leaves, and adds no stamp.
LEMMA LeftKeepsHolding ==
  ASSUME NEW tr, NEW t, Shape(tr), Shape(t), LeftOf(t, tr)
  PROVE  /\ Holding(tr) => Holding(t)
         /\ \A x : OnText(tr, x) => OnText(t, x)
         /\ Stamps(t) \subseteq Stamps(tr)
<1>1. ASSUME Holding(tr) PROVE Holding(t)
  <2> SUFFICES ASSUME NEW k \in 1..Len(t.nodes)
               PROVE  /\ k # t.current => Known(t.nodes[k])
                      /\ Known(t.nodes[k]) => t.nodes[k].state[1].from = t.nodes[k].held
    BY DEF Holding
  <2>1. PICK i \in 1..Len(tr.nodes) :
          Alike(t.nodes[k], tr.nodes[i]) /\ (k = t.current <=> i = tr.current)
    BY DEF LeftOf
  <2> QED
    BY <1>1, <2>1 DEF Holding, Alike, Known
<1>2. ASSUME NEW x, OnText(tr, x) PROVE OnText(t, x)
  <2> SUFFICES ASSUME t.current # 0 PROVE t.nodes[t.current].held = x
    BY DEF OnText
  <2>1. t.current \in 1..Len(t.nodes) /\ tr.current # 0
    BY ShapeNumbers DEF LeftOf
  <2>2. PICK i \in 1..Len(tr.nodes) :
          Alike(t.nodes[t.current], tr.nodes[i]) /\ i = tr.current
    BY <2>1 DEF LeftOf
  <2> QED
    BY <1>2, <2>1, <2>2 DEF OnText, Alike
<1>3. ASSUME NEW k \in 1..Len(t.nodes)
      PROVE  <<t.nodes[k].saved, t.nodes[k].held>> \in Stamps(tr)
  <2>1. PICK i \in 1..Len(tr.nodes) : Alike(t.nodes[k], tr.nodes[i])
    BY DEF LeftOf
  <2> QED
    BY <2>1 DEF Alike, Stamps
<1>4. Stamps(t) \subseteq Stamps(tr)
  BY <1>3 DEF Stamps
<1> QED
  BY <1>1, <1>2, <1>4

-----------------------------------------------------------------------------
(* Reconciling *)

\* Changing what the node in front holds leaves the shape as it is.
LEMMA FrontReplaced ==
  ASSUME NEW tr, Shape(tr), tr.current # 0, NEW m \in Nodes,
         m.parent = tr.nodes[tr.current].parent, m.seq = tr.nodes[tr.current].seq,
         Len(m.state) <= 1
  PROVE  LET u == [tr EXCEPT !.nodes = [tr.nodes EXCEPT ![tr.current] = m]] IN
         /\ Shape(u) /\ u.current = tr.current /\ u.last = tr.last
         /\ Len(u.nodes) = Len(tr.nodes)
         /\ \A i \in 1..Len(tr.nodes) : i # tr.current => u.nodes[i] = tr.nodes[i]
         /\ u.nodes[tr.current] = m
<1> DEFINE c == tr.current
           nodes == tr.nodes
           ns == [nodes EXCEPT ![c] = m]
           u == [tr EXCEPT !.nodes = ns]
<1>1. /\ nodes \in Seq(Nodes) /\ Len(nodes) \in Nat /\ DOMAIN nodes = 1..Len(nodes)
      /\ c \in 1..Len(nodes) /\ tr.last \in Nat /\ \A i \in 1..Len(nodes) : nodes[i] \in Nodes
  BY ShapeNumbers
<1>2. tr \in [nodes : Seq(Nodes), current : Nat, last : Nat]
  BY DEF Shape
<1>4. u = [nodes |-> ns, current |-> c, last |-> tr.last]
  BY <1>2, TreeWith
<1> HIDE DEF u
<1>6. /\ ns \in Seq(Nodes) /\ Len(ns) = Len(nodes) /\ ns[c] = m
      /\ \A i \in 1..Len(nodes) : i # c => ns[i] = nodes[i]
  <2>1. ns \in [1..Len(nodes) -> Nodes]
    BY <1>1
  <2>2. ns \in Seq(Nodes) /\ Len(ns) = Len(nodes)
    BY <1>1, <2>1, LenProperties
  <2> QED
    BY <1>1, <2>2
<1> HIDE DEF ns
<1>7. u.nodes = ns /\ u.current = c /\ u.last = tr.last
  BY <1>4
<1>8. \A i \in 1..Len(nodes) :
        /\ ns[i].parent = nodes[i].parent /\ ns[i].seq = nodes[i].seq
        /\ Len(ns[i].state) <= 1
  <2> TAKE i \in 1..Len(nodes)
  <2>1. CASE i = c
    <3>1. ns[i] = m /\ nodes[i] = nodes[c]
      BY <1>6, <2>1
    <3>2. m.parent = nodes[c].parent /\ m.seq = nodes[c].seq
      OBVIOUS
    <3> HIDE DEF c, nodes
    <3> QED
      BY <3>1, <3>2
  <2>2. CASE i # c
    <3>1. ns[i] = nodes[i]
      BY <1>6, <2>2
    <3>2. Len(nodes[i].state) <= 1
      BY DEF Shape
    <3> QED
      BY <3>1, <3>2
  <2> QED
    BY <2>1, <2>2
<1>9. Shape(u)
  <2>1. Rooted(ns)
    BY <1>6, <1>8 DEF Shape, Rooted, Nodes
  <2>2. u \in [nodes : Seq(Nodes), current : Nat, last : Nat]
    BY <1>1, <1>4, <1>6
  <2>3. ns # <<>> /\ c # 0 /\ c <= Len(ns)
    BY <1>1, <1>6
  <2> QED
    BY <1>6, <1>7, <1>8, <2>1, <2>2, <2>3 DEF Shape
<1>10. /\ Shape(u) /\ u.current = c /\ u.last = tr.last /\ Len(u.nodes) = Len(nodes)
       /\ \A i \in 1..Len(nodes) : i # c => u.nodes[i] = nodes[i]
       /\ u.nodes[c] = m
  BY <1>6, <1>7, <1>9
<1> QED
  BY <1>10 DEF u, ns

\* Giving the node in front its content changes nothing else.
LEMMA GivenState ==
  ASSUME NEW tr, Shape(tr), tr.current # 0, NEW s \in States
  PROVE  LET u == [tr EXCEPT !.nodes[tr.current].state = <<s>>] IN
         /\ Shape(u) /\ u.current = tr.current /\ u.last = tr.last
         /\ Len(u.nodes) = Len(tr.nodes)
         /\ \A i \in 1..Len(tr.nodes) : i # tr.current => u.nodes[i] = tr.nodes[i]
         /\ u.nodes[tr.current].state = <<s>>
         /\ \A i \in 1..Len(tr.nodes) :
              /\ u.nodes[i].saved = tr.nodes[i].saved
              /\ u.nodes[i].held = tr.nodes[i].held
<1> DEFINE c == tr.current
           m == [tr.nodes[c] EXCEPT !.state = <<s>>]
           u == [tr EXCEPT !.nodes[tr.current].state = <<s>>]
           v == [tr EXCEPT !.nodes = [tr.nodes EXCEPT ![c] = m]]
<1>1. tr.nodes[c] \in [parent : Nat, seq : Nat, saved : Nat, state : Seq(States), held : Texts]
  <2>1. c \in 1..Len(tr.nodes)
    BY ShapeNumbers
  <2> QED
    BY <2>1, ShapeNumbers DEF Nodes
<1>2. /\ m \in Nodes /\ m.state = <<s>> /\ m.parent = tr.nodes[c].parent
      /\ m.seq = tr.nodes[c].seq /\ m.saved = tr.nodes[c].saved /\ m.held = tr.nodes[c].held
  <2>1. <<s>> \in Seq(States)
    OBVIOUS
  <2> HIDE DEF c
  <2> QED
    BY <1>1, <2>1 DEF Nodes
<1>3. Len(m.state) <= 1
  <2>1. Len(<<s>>) = 1
    OBVIOUS
  <2> HIDE DEF m
  <2> QED
    BY <1>2, <2>1
<1>4. u = v
  BY DEF Shape
<1> HIDE DEF m, u
<1>5. /\ Shape(v) /\ v.current = c /\ v.last = tr.last
      /\ Len(v.nodes) = Len(tr.nodes)
      /\ \A i \in 1..Len(tr.nodes) : i # c => v.nodes[i] = tr.nodes[i]
      /\ v.nodes[c] = m
  BY <1>2, <1>3, FrontReplaced
<1> HIDE DEF v
<1> QED
  BY <1>2, <1>4, <1>5 DEF u

\* Stamping the node in front changes nothing else.
LEMMA Stamped ==
  ASSUME NEW tr, Shape(tr), tr.current # 0, NEW w \in Nat
  PROVE  LET u == [tr EXCEPT !.nodes[tr.current].saved = w] IN
         /\ Shape(u) /\ u.current = tr.current /\ u.last = tr.last
         /\ Stamps(u) \subseteq Stamps(tr) \cup {<<w, tr.nodes[tr.current].held>>}
         /\ Holding(tr) => Holding(u)
         /\ \A x : OnText(tr, x) => OnText(u, x)
<1> DEFINE c == tr.current
           m == [tr.nodes[c] EXCEPT !.saved = w]
           u == [tr EXCEPT !.nodes[tr.current].saved = w]
           v == [tr EXCEPT !.nodes = [tr.nodes EXCEPT ![c] = m]]
<1>1. tr.nodes[c] \in [parent : Nat, seq : Nat, saved : Nat, state : Seq(States), held : Texts]
  <2>1. c \in 1..Len(tr.nodes)
    BY ShapeNumbers
  <2> QED
    BY <2>1, ShapeNumbers DEF Nodes
<1>2. /\ m \in Nodes /\ m.state = tr.nodes[c].state /\ m.parent = tr.nodes[c].parent
      /\ m.seq = tr.nodes[c].seq /\ m.saved = w /\ m.held = tr.nodes[c].held
  <2> HIDE DEF c
  <2> QED
    BY <1>1 DEF Nodes
<1>3. Len(m.state) <= 1
  <2>1. c \in 1..Len(tr.nodes)
    BY ShapeNumbers
  <2>2. Len(tr.nodes[c].state) <= 1
    BY <2>1 DEF Shape
  <2> HIDE DEF m
  <2> QED
    BY <1>2, <2>2
<1>4. u = v
  BY DEF Shape
<1> HIDE DEF m, u
<1>5. /\ Shape(v) /\ v.current = c /\ v.last = tr.last
      /\ Len(v.nodes) = Len(tr.nodes)
      /\ \A i \in 1..Len(tr.nodes) : i # c => v.nodes[i] = tr.nodes[i]
      /\ v.nodes[c] = m
  BY <1>2, <1>3, FrontReplaced
<1> HIDE DEF v
<1>6. Stamps(v) \subseteq Stamps(tr) \cup {<<w, tr.nodes[c].held>>}
  <2> SUFFICES ASSUME NEW i \in 1..Len(tr.nodes)
               PROVE  <<v.nodes[i].saved, v.nodes[i].held>> \in
                        Stamps(tr) \cup {<<w, tr.nodes[c].held>>}
    BY <1>5 DEF Stamps
  <2>1. CASE i = c
    BY <1>2, <1>5, <2>1
  <2>2. CASE i # c
    BY <1>5, <2>2 DEF Stamps
  <2> QED
    BY <2>1, <2>2
<1>7. ASSUME Holding(tr) PROVE Holding(v)
  <2> SUFFICES ASSUME NEW i \in 1..Len(tr.nodes)
               PROVE  /\ i # c => Known(v.nodes[i])
                      /\ Known(v.nodes[i]) => v.nodes[i].state[1].from = v.nodes[i].held
    BY <1>5 DEF Holding
  <2>1. CASE i = c
    <3>1. v.nodes[i].state = tr.nodes[i].state /\ v.nodes[i].held = tr.nodes[i].held
      BY <1>2, <1>5, <2>1
    <3> QED
      BY <1>7, <2>1, <3>1 DEF Holding, Known
  <2>2. CASE i # c
    BY <1>5, <1>7, <2>2 DEF Holding
  <2> QED
    BY <2>1, <2>2
<1>8. \A x : OnText(tr, x) => OnText(v, x)
  BY <1>2, <1>5 DEF OnText
<1> QED
  BY <1>4, <1>5, <1>6, <1>7, <1>8 DEF u

\* All nodes have their content, and a content is what the node reached.
AllHold(tr) ==
  \A i \in 1..Len(tr.nodes) :
    Known(tr.nodes[i]) /\ tr.nodes[i].state[1].from = tr.nodes[i].held

\* The states a tree can gain: unstamped.
New == {0} \X Texts

\* The pending snapshot gives the node in front its content, or roots the tree.
LEMMA SettledTree ==
  ASSUME NEW tr, Shape(tr), NEW p \in States
  PROVE  LET s == Settled(tr, p) IN
         /\ Shape(s) /\ s.current # 0
         /\ s.last = tr.last + (IF tr.current = 0 THEN 1 ELSE 0)
         /\ Stamps(s) \subseteq Stamps(tr) \cup New
         /\ Holding(tr) /\ OnText(tr, p.from) => AllHold(s)
<1> DEFINE s == Settled(tr, p)
<1>0. tr.current \in 0..Len(tr.nodes) /\ Len(tr.nodes) \in Nat /\ tr.last \in Nat
  BY ShapeNumbers
<1>1. CASE tr.current = 0
  <2> DEFINE m == Node(0, tr.last + 1, <<p>>, p.from)
  <2>1. s = [nodes |-> <<m>>, current |-> 1, last |-> tr.last + 1]
    BY <1>1 DEF Settled
  <2>2. /\ m \in Nodes /\ m.parent = 0 /\ m.seq = tr.last + 1 /\ m.saved = 0
        /\ m.state = <<p>> /\ m.held = p.from /\ p.from \in Texts
    <3>1. p.from \in Texts
      BY StateHolds
    <3>2. <<p>> \in Seq(States) /\ tr.last + 1 \in Nat /\ 0 \in Nat
      BY <1>0
    <3> QED
      BY <3>1, <3>2 DEF Node, Nodes
  <2> HIDE DEF m, s
  <2>3. <<m>> \in Seq(Nodes) /\ Len(<<m>>) = 1 /\ <<m>>[1] = m /\ <<m>> # <<>>
    BY <2>2
  <2>4. s.nodes = <<m>> /\ s.current = 1 /\ s.last = tr.last + 1
    BY <2>1
  <2>5. Shape(s)
    <3>1. s \in [nodes : Seq(Nodes), current : Nat, last : Nat]
      BY <1>0, <2>1, <2>3
    <3>2. Rooted(<<m>>)
      BY <2>2, <2>3 DEF Rooted, Nodes
    <3>3. Len(m.state) <= 1
      <4>1. Len(<<p>>) = 1
        OBVIOUS
      <4> QED
        BY <2>2, <4>1
    <3>4. 1..Len(s.nodes) = {1}
      BY <2>3, <2>4
    <3>5. \A i \in 1..Len(s.nodes) : i = 1 /\ s.nodes[i] = m
      BY <2>3, <2>4, <3>4
    <3>6. \A i, j \in 1..Len(s.nodes) : j < i => FALSE
      BY <3>4
    <3>7. \A i \in 1..Len(s.nodes) :
            1 <= s.nodes[i].seq /\ s.nodes[i].seq <= s.last /\ Len(s.nodes[i].state) <= 1
      <4> TAKE i \in 1..Len(s.nodes)
      <4>1. s.nodes[i] = m
        BY <3>5
      <4>2. 1 <= m.seq /\ m.seq <= s.last
        BY <1>0, <2>2, <2>4
      <4> QED
        BY <3>3, <4>1, <4>2
    <3>8. s.current <= Len(s.nodes) /\ s.current # 0 /\ s.nodes # <<>>
      BY <2>3, <2>4
    <3> QED
      BY <2>4, <3>1, <3>2, <3>6, <3>7, <3>8 DEF Shape
  <2>6. Stamps(s) \subseteq New
    BY <2>2, <2>3, <2>4 DEF Stamps, New
  <2>7. AllHold(s)
    <3>1. Known(m) /\ m.state[1].from = m.held
      BY <2>2 DEF Known
    <3> QED
      BY <2>3, <2>4, <3>1 DEF AllHold
  <2> QED
    BY <1>1, <2>4, <2>5, <2>6, <2>7 DEF s
<1>2. CASE tr.current # 0 /\ Known(tr.nodes[tr.current])
  <2>1. s = tr
    BY <1>2 DEF Settled
  <2>2. Holding(tr) => AllHold(tr)
    BY <1>2 DEF Holding, AllHold
  <2> QED
    BY <1>0, <1>2, <2>1, <2>2
<1>3. CASE tr.current # 0 /\ ~Known(tr.nodes[tr.current])
  <2> DEFINE u == [tr EXCEPT !.nodes[tr.current].state = <<p>>]
  <2>0. /\ Shape(u) /\ u.current = tr.current /\ u.last = tr.last
        /\ Len(u.nodes) = Len(tr.nodes)
        /\ \A i \in 1..Len(tr.nodes) : i # tr.current => u.nodes[i] = tr.nodes[i]
        /\ u.nodes[tr.current].state = <<p>>
        /\ \A i \in 1..Len(tr.nodes) :
              /\ u.nodes[i].saved = tr.nodes[i].saved
              /\ u.nodes[i].held = tr.nodes[i].held
    BY <1>3, GivenState
  <2>1. s = u
    BY <1>3 DEF Settled
  <2> HIDE DEF u, s
  <2>2. /\ Shape(s) /\ s.current = tr.current /\ s.last = tr.last
        /\ Len(s.nodes) = Len(tr.nodes)
        /\ \A i \in 1..Len(tr.nodes) : i # tr.current => s.nodes[i] = tr.nodes[i]
        /\ s.nodes[tr.current].state = <<p>>
        /\ \A i \in 1..Len(tr.nodes) :
              /\ s.nodes[i].saved = tr.nodes[i].saved
              /\ s.nodes[i].held = tr.nodes[i].held
    BY <2>0, <2>1
  <2>3. Stamps(s) \subseteq Stamps(tr)
    BY <2>2 DEF Stamps
  <2>4. ASSUME Holding(tr), OnText(tr, p.from) PROVE AllHold(s)
    <3> SUFFICES ASSUME NEW i \in 1..Len(tr.nodes)
                 PROVE  Known(s.nodes[i]) /\ s.nodes[i].state[1].from = s.nodes[i].held
      BY <2>2 DEF AllHold
    <3>1. CASE i = tr.current
      <4>1. s.nodes[i].state = <<p>> /\ s.nodes[i].held = p.from
        BY <1>3, <2>2, <2>4, <3>1 DEF OnText
      <4> QED
        BY <4>1 DEF Known
    <3>2. CASE i # tr.current
      BY <2>2, <2>4, <3>2 DEF Holding
    <3> QED
      BY <3>1, <3>2
  <2> QED
    BY <1>0, <1>3, <2>2, <2>3, <2>4 DEF s
<1> QED
  BY <1>1, <1>2, <1>3

\* A settled tree with a new node in front, which holds the live buffer.
GrownFrom(s, t) ==
  [nodes |-> Append(s.nodes, Node(s.current, s.last + 1, <<>>, t)),
   current |-> Len(s.nodes) + 1, last |-> s.last + 1]

\* The node undo_reconcile() adds is a child of the node that was in front.
LEMMA GrownTree ==
  ASSUME NEW s, Shape(s), s.current # 0, NEW t \in Texts
  PROVE  LET g == GrownFrom(s, t) IN
         /\ Shape(g) /\ g.current # 0 /\ g.last = s.last + 1
         /\ Stamps(g) \subseteq Stamps(s) \cup New
         /\ OnText(g, t)
         /\ AllHold(s) => Holding(g)
<1> DEFINE n == Len(s.nodes)
           m == Node(s.current, s.last + 1, <<>>, t)
           ns == Append(s.nodes, m)
           g == GrownFrom(s, t)
<1>1. /\ s.nodes \in Seq(Nodes) /\ n \in Nat /\ s.current \in 1..n /\ s.last \in Nat
      /\ \A i \in 1..n : s.nodes[i] \in Nodes
  BY ShapeNumbers
<1>2. /\ m \in Nodes /\ m.parent = s.current /\ m.seq = s.last + 1 /\ m.saved = 0
      /\ m.state = <<>> /\ m.held = t
  <2>1. <<>> \in Seq(States) /\ s.last + 1 \in Nat /\ s.current \in Nat
    BY <1>1
  <2> QED
    BY <2>1 DEF Node, Nodes
<1>3. g = [nodes |-> ns, current |-> n + 1, last |-> s.last + 1]
  BY DEF GrownFrom
<1> HIDE DEF m, g
<1>4. /\ ns \in Seq(Nodes) /\ Len(ns) = n + 1 /\ ns[n + 1] = m
      /\ \A i \in 1..n : ns[i] = s.nodes[i]
  BY <1>1, <1>2, AppendProperties
<1> HIDE DEF ns
<1>5. g.nodes = ns /\ g.current = n + 1 /\ g.last = s.last + 1
  BY <1>3
<1>6. \A i \in 1..(n + 1) : i \in 1..n \/ i = n + 1
  BY <1>1
<1>7. Shape(g)
  <2>1. g \in [nodes : Seq(Nodes), current : Nat, last : Nat]
    BY <1>1, <1>3, <1>4
  <2>2. ASSUME NEW i \in 1..(n + 1)
        PROVE  /\ ns[i].parent < i /\ (ns[i].parent = 0 => i = 1)
               /\ 1 <= ns[i].seq /\ ns[i].seq <= s.last + 1 /\ Len(ns[i].state) <= 1
    <3>1. CASE i \in 1..n
      <4>1. s.nodes[i].seq \in Nat
        BY <1>1, <3>1 DEF Nodes
      <4>2. /\ s.nodes[i].parent < i /\ (s.nodes[i].parent = 0 => i = 1)
            /\ 1 <= s.nodes[i].seq /\ s.nodes[i].seq <= s.last /\ Len(s.nodes[i].state) <= 1
        BY <3>1 DEF Shape, Rooted
      <4>3. ns[i] = s.nodes[i]
        BY <1>4, <3>1
      <4> QED
        BY <1>1, <4>1, <4>2, <4>3
    <3>2. CASE i = n + 1
      <4>1. Len(<<>>) = 0
        OBVIOUS
      <4>2. ns[i] = m /\ m.parent < i /\ m.parent # 0
        BY <1>1, <1>2, <1>4, <3>2
      <4>3. 1 <= m.seq /\ m.seq <= s.last + 1 /\ Len(m.state) <= 1
        BY <1>1, <1>2, <4>1
      <4> QED
        BY <4>2, <4>3
    <3> QED
      BY <1>6, <3>1, <3>2
  <2>3. ASSUME NEW i \in 1..(n + 1), NEW j \in 1..(n + 1), j < i
        PROVE  ns[j].seq < ns[i].seq
    <3>1. j \in 1..n
      BY <1>1, <2>3
    <3>2. CASE i \in 1..n
      BY <1>4, <2>3, <3>1, <3>2 DEF Shape
    <3>3. CASE i = n + 1
      <4>1. s.nodes[j].seq \in Nat
        BY <1>1, <3>1 DEF Nodes
      <4>2. s.nodes[j].seq <= s.last
        BY <3>1 DEF Shape
      <4>3. ns[j] = s.nodes[j] /\ ns[i] = m
        BY <1>4, <3>1, <3>3
      <4> QED
        BY <1>1, <1>2, <4>1, <4>2, <4>3
    <3> QED
      BY <1>6, <3>2, <3>3
  <2>4. Rooted(ns)
    BY <1>4, <2>2 DEF Rooted, Nodes
  <2>5. ns # <<>> /\ n + 1 # 0 /\ n + 1 <= Len(ns)
    BY <1>1, <1>4
  <2> QED
    BY <1>4, <1>5, <2>1, <2>2, <2>3, <2>4, <2>5 DEF Shape
<1>8. Stamps(g) \subseteq Stamps(s) \cup New
  <2> SUFFICES ASSUME NEW i \in 1..(n + 1)
               PROVE  <<ns[i].saved, ns[i].held>> \in Stamps(s) \cup New
    BY <1>4, <1>5 DEF Stamps
  <2>1. CASE i \in 1..n
    BY <1>4, <2>1 DEF Stamps
  <2>2. CASE i = n + 1
    BY <1>2, <1>4, <2>2 DEF New
  <2> QED
    BY <1>6, <2>1, <2>2
<1>9. OnText(g, t)
  BY <1>2, <1>4, <1>5 DEF OnText
<1>10. ASSUME AllHold(s) PROVE Holding(g)
  <2> SUFFICES ASSUME NEW i \in 1..(n + 1)
               PROVE  /\ i # n + 1 => Known(ns[i])
                      /\ Known(ns[i]) => ns[i].state[1].from = ns[i].held
    BY <1>4, <1>5 DEF Holding
  <2>1. CASE i \in 1..n
    BY <1>4, <1>10, <2>1 DEF AllHold
  <2>2. CASE i = n + 1
    BY <1>2, <1>4, <2>2 DEF Known
  <2> QED
    BY <1>6, <2>1, <2>2
<1> QED
  BY <1>1, <1>5, <1>7, <1>8, <1>9, <1>10 DEF g

\* A pending snapshot, if there is one.
Waiting(p) == p = <<>> \/ \E s \in States : p = <<s>>

\* What reconciling leaves: a tree, with at most two more states, all unstamped.
\* While snapshots are full, and the node in front reached what the buffer held
\* when the snapshot was taken, or holds now if there is none, then the node now
\* in front reached what the buffer holds, and every node still holds what it
\* reached.
LEMMA ReconciledTree ==
  ASSUME NEW tr, Shape(tr), NEW p, Waiting(p), NEW t \in Texts, NEW moved \in BOOLEAN,
         NEW n \in Reconciled(tr, p, t, moved)
  PROVE  /\ Shape(n)
         /\ n = tr \/ n.current # 0
         /\ n.last <= tr.last + 1 + (IF tr.current = 0 THEN 1 ELSE 0)
         /\ Stamps(n) \subseteq Stamps(tr) \cup New
         /\ /\ ~Windowed /\ Holding(tr)
            /\ p = <<>> => OnText(tr, t)
            /\ p # <<>> => OnText(tr, p[1].from)
            => Holding(n) /\ OnText(n, t)
<1>0. tr.current \in 0..Len(tr.nodes) /\ Len(tr.nodes) \in Nat /\ tr.last \in Nat
  BY ShapeNumbers
<1>1. CASE p = <<>>
  <2>1. n = tr
    BY <1>1 DEF Reconciled
  <2> QED
    BY <1>0, <1>1, <2>1
<1>2. CASE p # <<>>
  <2>1. PICK s \in States : p = <<s>>
    BY <1>2 DEF Waiting
  <2>2. p[1] = s
    BY <2>1
  <2>3. CASE ~moved /\ SameContent(t, p[1])
    <3>1. n = tr
      BY <2>3 DEF Reconciled
    <3>2. ASSUME ~Windowed PROVE s.from = t
      BY <2>2, <2>3, <3>2, AppliedAgrees DEF SameContent
    <3> QED
      BY <1>0, <1>2, <2>2, <3>1, <3>2
  <2>4. CASE ~(~moved /\ SameContent(t, p[1]))
    <3> DEFINE u == Settled(tr, s)
               g == GrownFrom(u, t)
    <3>1. n \in Trims(g)
      BY <1>2, <2>2, <2>4 DEF Reconciled, GrownFrom
    <3>2. /\ Shape(u) /\ u.current # 0
          /\ u.last = tr.last + (IF tr.current = 0 THEN 1 ELSE 0)
          /\ Stamps(u) \subseteq Stamps(tr) \cup New
          /\ Holding(tr) /\ OnText(tr, s.from) => AllHold(u)
      BY SettledTree
    <3> HIDE DEF u
    <3>3. /\ Shape(g) /\ g.current # 0 /\ g.last = u.last + 1
          /\ Stamps(g) \subseteq Stamps(u) \cup New
          /\ OnText(g, t)
          /\ AllHold(u) => Holding(g)
      BY <3>2, GrownTree
    <3> HIDE DEF g
    <3>4. Shape(n) /\ LeftOf(n, g)
      BY <3>1, <3>3, TrimsAreLeft
    <3>5. /\ Holding(g) => Holding(n)
          /\ OnText(g, t) => OnText(n, t)
          /\ Stamps(n) \subseteq Stamps(g)
      BY <3>3, <3>4, LeftKeepsHolding
    <3>6. n.last = g.last /\ n.current # 0
      BY <3>3, <3>4 DEF LeftOf
    <3>7. n.last <= tr.last + 1 + (IF tr.current = 0 THEN 1 ELSE 0)
      BY <1>0, <3>2, <3>3, <3>6
    <3> QED
      BY <1>2, <2>2, <3>2, <3>3, <3>4, <3>5, <3>6, <3>7
  <2> QED
    BY <2>3, <2>4
<1> QED
  BY <1>1, <1>2

\* What a save leaves: a tree like a reconciled one, with the new stamp.
LEMMA MarkedTree ==
  ASSUME NEW tr, Shape(tr), NEW p, Waiting(p), NEW t \in Texts, NEW moved \in BOOLEAN,
         writes \in Nat, NEW n \in Marked(tr, p, t, moved)
  PROVE  /\ Shape(n)
         /\ n.last <= tr.last + 1 + (IF tr.current = 0 THEN 1 ELSE 0)
         /\ Stamps(n) \subseteq Stamps(tr) \cup New \cup ({writes + 1} \X Texts)
         /\ /\ ~Windowed /\ Holding(tr)
            /\ p = <<>> => OnText(tr, t)
            /\ p # <<>> => OnText(tr, p[1].from)
            => /\ Holding(n) /\ OnText(n, t)
               /\ Stamps(n) \subseteq Stamps(tr) \cup New \cup {<<writes + 1, t>>}
<1>1. PICK r \in Reconciled(tr, p, t, moved) :
        n = IF r.current = 0 THEN r ELSE [r EXCEPT !.nodes[r.current].saved = writes + 1]
  BY DEF Marked
<1>2. /\ Shape(r)
      /\ r.last <= tr.last + 1 + (IF tr.current = 0 THEN 1 ELSE 0)
      /\ Stamps(r) \subseteq Stamps(tr) \cup New
      /\ /\ ~Windowed /\ Holding(tr)
         /\ p = <<>> => OnText(tr, t)
         /\ p # <<>> => OnText(tr, p[1].from)
         => Holding(r) /\ OnText(r, t)
  BY ReconciledTree
<1>3. CASE r.current = 0
  <2>1. n = r
    BY <1>1, <1>3
  <2> QED
    BY <1>2, <2>1
<1>4. CASE r.current # 0
  <2> DEFINE u == [r EXCEPT !.nodes[r.current].saved = writes + 1]
             held == r.nodes[r.current].held
  <2>1. /\ Shape(u) /\ u.current = r.current /\ u.last = r.last
        /\ Stamps(u) \subseteq Stamps(r) \cup {<<writes + 1, held>>}
        /\ Holding(r) => Holding(u)
        /\ \A x : OnText(r, x) => OnText(u, x)
    <3>1. writes + 1 \in Nat
      OBVIOUS
    <3> QED
      BY <1>2, <1>4, <3>1, Stamped
  <2>2. n = u
    BY <1>1, <1>4
  <2> HIDE DEF u
  <2>3. held \in Texts
    <3>1. r.current \in 1..Len(r.nodes)
      BY <1>2, <1>4, ShapeNumbers
    <3>2. r.nodes[r.current] \in Nodes
      BY <1>2, <3>1, ShapeNumbers
    <3> QED
      BY <3>2 DEF Nodes
  <2>4. OnText(r, t) => held = t
    BY <1>4 DEF OnText
  <2> HIDE DEF held
  <2>5. Stamps(u) \subseteq Stamps(tr) \cup New \cup ({writes + 1} \X Texts)
    BY <1>2, <2>1, <2>3
  <2>6. OnText(r, t) => Stamps(u) \subseteq Stamps(tr) \cup New \cup {<<writes + 1, t>>}
    BY <1>2, <2>1, <2>4
  <2>7. u.last <= tr.last + 1 + (IF tr.current = 0 THEN 1 ELSE 0)
    BY <1>2, <2>1
  <2> QED
    BY <1>2, <2>1, <2>2, <2>5, <2>6, <2>7
<1> QED
  BY <1>3, <1>4

-----------------------------------------------------------------------------
(* Walking *)

\* A captured node has a state of the buffer.
LEMMA NodeStates ==
  ASSUME NEW nodes, Rooted(nodes), NEW i \in 1..Len(nodes), Known(nodes[i])
  PROVE  nodes[i].state[1] \in States
<1>1. nodes[i].state \in Seq(States)
  BY RootedNodes
<1>2. nodes[i].state # <<>>
  BY DEF Known
<1>3. Len(nodes[i].state) \in Nat /\ Len(nodes[i].state) # 0
  BY <1>1, <1>2, EmptySeq, LenProperties
<1> QED
  BY <1>1, <1>3, ElementOfSeq

AlongUpto(nodes, path, t, A, n) ==
  A = [i \in 0..n |->
        IF i = 0 THEN t
        ELSE IF Known(nodes[path[i]]) THEN Applied(A[i - 1], nodes[path[i]].state[1])
        ELSE A[i - 1]]

\* The text after each step of a walk.
LEMMA AlongUptoExists ==
  ASSUME NEW nodes, NEW path, NEW t, NEW n \in Nat
  PROVE  \E A : AlongUpto(nodes, path, t, A, n)
<1> DEFINE step(i, x) == IF Known(nodes[path[i]]) THEN Applied(x, nodes[path[i]].state[1]) ELSE x
           T == {m \in Nat : \E A : AlongUpto(nodes, path, t, A, m)}
<1>0. \A A, m : AlongUpto(nodes, path, t, A, m) <=>
                  A = [i \in 0..m |-> IF i = 0 THEN t ELSE step(i, A[i - 1])]
  BY DEF AlongUpto
<1> HIDE DEF step
<1>1. ASSUME NEW m \in Nat, \A k \in Nat : k < m => k \in T
      PROVE  m \in T
  <2>1. CASE m = 0
    <3> DEFINE A == [i \in 0..0 |-> t]
    <3>1. A = [i \in 0..0 |-> IF i = 0 THEN t ELSE step(i, A[i - 1])]
      OBVIOUS
    <3>2. AlongUpto(nodes, path, t, A, 0)
      BY <1>0, <3>1
    <3> QED
      BY <2>1, <3>2
  <2>2. CASE m # 0
    <3>0. m - 1 \in Nat /\ m - 1 < m
      BY <2>2
    <3>1. PICK A : A = [i \in 0..(m - 1) |-> IF i = 0 THEN t ELSE step(i, A[i - 1])]
      <4>1. m - 1 \in T
        BY <1>1, <3>0
      <4>2. PICK A : AlongUpto(nodes, path, t, A, m - 1)
        BY <4>1
      <4> QED
        BY <1>0, <4>2
    <3> DEFINE G == [i \in 0..m |-> IF i = m THEN step(m, A[m - 1]) ELSE A[i]]
    <3>2. \A i \in 0..(m - 1) : G[i] = A[i]
      OBVIOUS
    <3>3. \A i \in 0..m : G[i] = IF i = 0 THEN t ELSE step(i, G[i - 1])
      <4> TAKE i \in 0..m
      <4>1. CASE i = m
        <5>1. G[m] = step(m, A[m - 1]) /\ G[m - 1] = A[m - 1]
          BY <2>2, <3>2
        <5> HIDE DEF G
        <5> QED
          BY <2>2, <4>1, <5>1
      <4>2. CASE i # m
        <5>1. i \in 0..(m - 1) /\ (i # 0 => i - 1 \in 0..(m - 1))
          BY <4>2
        <5>2. A[i] = IF i = 0 THEN t ELSE step(i, A[i - 1])
          BY <3>1, <5>1
        <5> HIDE DEF G
        <5> QED
          BY <3>2, <5>1, <5>2
      <4> QED
        BY <4>1, <4>2
    <3>4. AlongUpto(nodes, path, t, G, m)
      <4>1. G = [i \in 0..m |-> G[i]]
        OBVIOUS
      <4> HIDE DEF G
      <4>2. G = [i \in 0..m |-> IF i = 0 THEN t ELSE step(i, G[i - 1])]
        BY <3>3, <4>1
      <4> QED
        BY <1>0, <4>2
    <3> QED
      BY <3>4
  <2> QED
    BY <2>1, <2>2
<1> QED
  <2> HIDE DEF T
  <2>1. n \in T
    BY <1>1, EveryNumber
  <2> QED
    BY <2>1 DEF T

\* A walk makes a text of a text, the last step by applying its target.
LEMMA AlongEnds ==
  ASSUME NEW nodes, Rooted(nodes), NEW path \in Seq(1..Len(nodes)), NEW t \in Texts,
         Len(path) > 0, Known(nodes[path[Len(path)]])
  PROVE  \E x \in Texts : Along(nodes, path, t) = Applied(x, nodes[path[Len(path)]].state[1])
<1> DEFINE n == Len(path)
           A == CHOOSE A : AlongUpto(nodes, path, t, A, n)
           T == {m \in Nat : m <= n => A[m] \in Texts}
<1>0. n \in Nat /\ n # 0 /\ \A i \in 1..n : path[i] \in 1..Len(nodes)
  BY LenProperties, ElementOfSeq
<1>1. AlongUpto(nodes, path, t, A, n)
  BY <1>0, AlongUptoExists
<1>2. Along(nodes, path, t) = A[n]
  BY DEF Along, AlongUpto
<1> HIDE DEF A
<1>3. ASSUME NEW m \in Nat, \A k \in Nat : k < m => k \in T
      PROVE  m \in T
  <2> SUFFICES ASSUME m <= n PROVE A[m] \in Texts
    OBVIOUS
  <2>0. m \in 0..n
    BY <1>0
  <2>1. A[m] = IF m = 0 THEN t
               ELSE IF Known(nodes[path[m]]) THEN Applied(A[m - 1], nodes[path[m]].state[1])
               ELSE A[m - 1]
    BY <1>1, <2>0 DEF AlongUpto
  <2>2. CASE m = 0
    BY <2>1, <2>2
  <2>3. CASE m # 0
    <3>1. m - 1 \in Nat /\ m - 1 < m /\ m - 1 <= n /\ m \in 1..n
      BY <1>0, <2>3
    <3>2. A[m - 1] \in Texts
      BY <1>3, <3>1
    <3>3. CASE Known(nodes[path[m]])
      <4>1. nodes[path[m]].state[1] \in States
        BY <1>0, <3>1, <3>3, NodeStates
      <4> QED
        BY <2>1, <2>3, <3>2, <3>3, <4>1, AppliedAgrees
    <3>4. CASE ~Known(nodes[path[m]])
      BY <2>1, <2>3, <3>2, <3>4
    <3> QED
      BY <3>3, <3>4
  <2> QED
    BY <2>2, <2>3
<1>4. A[n - 1] \in Texts
  <2>1. n - 1 \in Nat /\ n - 1 <= n
    BY <1>0
  <2> HIDE DEF T
  <2>2. n - 1 \in T
    BY <1>3, <2>1, EveryNumber
  <2> QED
    BY <2>1, <2>2 DEF T
<1>5. A[n] = Applied(A[n - 1], nodes[path[n]].state[1])
  <2>1. n \in 0..n
    BY <1>0
  <2> QED
    BY <1>0, <1>1, <2>1 DEF AlongUpto
<1> QED
  BY <1>2, <1>4, <1>5

\* A sequence turned round ends with its first element.
LEMMA ReverseEnds ==
  ASSUME NEW X, NEW s \in Seq(X)
  PROVE  /\ Reverse(s) \in Seq(X) /\ Len(Reverse(s)) = Len(s)
         /\ Len(s) > 0 => Reverse(s)[Len(s)] = s[1]
<1> DEFINE n == Len(s)
           r == [i \in 1..n |-> s[(n - i) + 1]]
<1>0. n \in Nat /\ \A i \in 1..n : s[i] \in X
  BY LenProperties, ElementOfSeq
<1>1. Reverse(s) = r
  BY DEF Reverse
<1>2. r \in [1..n -> X]
  <2>1. \A i \in 1..n : (n - i) + 1 \in 1..n
    BY <1>0
  <2> HIDE DEF n
  <2> QED
    BY <1>0, <2>1
<1>3. r \in Seq(X) /\ Len(r) = n
  BY <1>0, <1>2, LenProperties
<1>4. n > 0 => r[n] = s[1]
  <2> SUFFICES ASSUME n > 0 PROVE r[n] = s[1]
    OBVIOUS
  <2>1. n \in 1..n /\ (n - n) + 1 = 1
    BY <1>0
  <2>2. r[n] = s[(n - n) + 1]
    BY <2>1
  <2> QED
    BY <2>1, <2>2
<1> QED
  BY <1>1, <1>3, <1>4

\* A walk ends at its target, and goes through nodes only.
LEMMA PathEnds ==
  ASSUME NEW nodes, Rooted(nodes),
         NEW from \in 1..Len(nodes), NEW target \in 1..Len(nodes), from # target
  PROVE  LET path == Path(nodes, from, target) IN
         /\ path \in Seq(1..Len(nodes)) /\ Len(path) > 0
         /\ path[Len(path)] = target
<1> DEFINE n == Len(nodes)
           c == Chain(nodes, from)
           d == Chain(nodes, target)
           U == {i \in DOMAIN nodes : ~OnPath(nodes, target, i)}
           D == {i \in DOMAIN nodes : ~OnPath(nodes, from, i)}
           up == Keeping(c, U)
           down == Keeping(d, D)
           ups == [i \in DOMAIN up |-> nodes[up[i]].parent]
           path == Path(nodes, from, target)
<1>0. /\ n \in Nat /\ DOMAIN nodes = 1..n
      /\ \A i \in 1..n : nodes[i].parent \in 0..(i - 1) /\ (nodes[i].parent = 0 => i = 1)
  BY RootedNodes
<1>1. path = ups \o Reverse(down)
  BY DEF Path
<1>2. Climbs(nodes, from, c) /\ Climbs(nodes, target, d)
  BY ChainClimbs
<1>3. /\ \A i : OnPath(nodes, from, i) <=> \E j \in DOMAIN c : c[j] = i
      /\ \A i : OnPath(nodes, target, i) <=> \E j \in DOMAIN d : d[j] = i
  BY DEF OnPath, ToSet
<1>4. /\ \A i : OnPath(nodes, from, i) => i \in 1..from
      /\ \A i : OnPath(nodes, target, i) => i \in 1..target
      /\ OnPath(nodes, target, 1) /\ OnPath(nodes, from, 1)
  BY PathsGoDown
<1>5. c \in Seq(1..n) /\ d \in Seq(1..n)
  <2>1. c \in Seq(1..from) /\ d \in Seq(1..target)
    BY <1>2 DEF Climbs
  <2>2. (1..from) \subseteq (1..n) /\ (1..target) \subseteq (1..n)
    BY <1>0
  <2>3. c \in Seq(1..n)
    BY <2>1, <2>2, SeqOfMore
  <2>4. d \in Seq(1..n)
    BY <2>1, <2>2, SeqOfMore
  <2> QED
    BY <2>3, <2>4
<1>6. /\ Len(c) \in Nat /\ DOMAIN c = 1..Len(c) /\ \A j \in 1..Len(c) : c[j] \in 1..n
      /\ Len(d) \in Nat /\ DOMAIN d = 1..Len(d) /\ \A j \in 1..Len(d) : d[j] \in 1..n
      /\ Len(c) > 0 /\ Len(d) > 0
  BY <1>2, <1>5, LenProperties, ElementOfSeq DEF Climbs
<1> HIDE DEF c, d
<1>7. up \in Seq(1..n) /\ \E h : Picks(c, U, up, Len(c), h)
  BY <1>5, KeepingPicks
<1>8. down \in Seq(1..n) /\ \E h : Picks(d, D, down, Len(d), h)
  BY <1>5, KeepingPicks
<1> HIDE DEF up, down
<1>9. PICK h : Picks(c, U, up, Len(c), h)
  BY <1>7
<1>10. PICK g : Picks(d, D, down, Len(d), g)
  BY <1>8
<1>11. /\ Len(up) \in Nat /\ DOMAIN up = 1..Len(up) /\ \A i \in 1..Len(up) : up[i] \in 1..n
       /\ Len(down) \in Nat
  BY <1>7, <1>8, LenProperties, ElementOfSeq
<1>12. \A i \in 1..Len(up) : h[i] \in 1..Len(c) /\ up[i] = c[h[i]] /\ up[i] \in U
  BY <1>9 DEF Picks
<1>13. /\ ups \in Seq(1..n) /\ Len(ups) = Len(up)
       /\ \A i \in 1..Len(up) : ups[i] = nodes[up[i]].parent
  <2>1. ASSUME NEW i \in 1..Len(up) PROVE nodes[up[i]].parent \in 1..n
    <3>1. up[i] # 1 /\ up[i] \in 1..n
      BY <1>4, <1>11, <1>12
    <3> QED
      BY <1>0, <3>1
  <2>2. ups \in [1..Len(up) -> 1..n]
    BY <1>11, <2>1
  <2>3. ups \in Seq(1..n) /\ Len(ups) = Len(up)
    BY <1>11, <2>2, LenProperties
  <2> QED
    BY <1>11, <2>3
<1> HIDE DEF ups
<1> DEFINE rev == Reverse(down)
<1>14. rev \in Seq(1..n) /\ Len(rev) = Len(down) /\ (Len(down) > 0 => rev[Len(down)] = down[1])
  BY <1>8, ReverseEnds
<1> HIDE DEF rev
<1>15. /\ path \in Seq(1..n) /\ Len(path) = Len(up) + Len(down)
       /\ Len(down) > 0 => path[Len(path)] = rev[Len(down)]
       /\ Len(down) = 0 /\ Len(up) > 0 => path[Len(path)] = ups[Len(up)]
  <2>1. path = ups \o rev
    BY <1>1 DEF rev
  <2> HIDE DEF path
  <2>2. path \in Seq(1..n) /\ Len(path) = Len(up) + Len(down)
    <3>1. /\ ups \o rev \in Seq(1..n)
          /\ Len(ups \o rev) = Len(ups) + Len(rev)
      BY <1>13, <1>14, ConcatProperties
    <3> QED
      BY <1>13, <1>14, <2>1, <3>1
  <2>3. ASSUME Len(down) > 0 PROVE path[Len(path)] = rev[Len(down)]
    <3>1. Len(path) \in 1..(Len(ups) + Len(rev)) /\ Len(path) > Len(ups)
          /\ Len(path) - Len(ups) = Len(down)
      BY <1>11, <1>13, <1>14, <2>2, <2>3
    <3> QED
      BY <1>13, <1>14, <2>1, <3>1, ConcatProperties
  <2>4. ASSUME Len(down) = 0, Len(up) > 0 PROVE path[Len(path)] = ups[Len(up)]
    <3>1. Len(path) \in 1..(Len(ups) + Len(rev)) /\ Len(path) <= Len(ups) /\ Len(path) = Len(up)
      BY <1>11, <1>13, <1>14, <2>2, <2>4
    <3> QED
      BY <1>13, <1>14, <2>1, <3>1, ConcatProperties
  <2> QED
    BY <2>2, <2>3, <2>4
<1> HIDE DEF path
<1>16. ASSUME ~OnPath(nodes, from, target)
       PROVE  Len(path) > 0 /\ path[Len(path)] = target
  <2>1. d[1] = target /\ 1 \in 1..Len(d) /\ d[1] \in D
    BY <1>0, <1>2, <1>6, <1>16 DEF Climbs
  <2>2. PICK k \in 1..Len(down) : g[k] = 1
    BY <1>10, <2>1 DEF Picks
  <2>3. 1 \in 1..Len(down) /\ g[1] \in 1..Len(d)
    BY <1>10, <1>11, <2>2 DEF Picks
  <2>4. k = 1
    <3>1. k = 1 \/ 1 < k
      BY <1>11, <2>2
    <3>2. 1 < k => g[1] < g[k]
      BY <1>10, <2>3 DEF Picks
    <3> QED
      BY <1>6, <2>2, <2>3, <3>1, <3>2
  <2>5. down[1] = target
    BY <1>10, <2>1, <2>2, <2>3, <2>4 DEF Picks
  <2>6. Len(down) > 0 /\ Len(path) > 0
    BY <1>11, <1>15, <2>3
  <2> QED
    BY <1>14, <1>15, <2>5, <2>6
<1>17. ASSUME OnPath(nodes, from, target)
       PROVE  Len(path) > 0 /\ path[Len(path)] = target
  <2>1. Len(down) = 0
    <3>1. ASSUME NEW k \in 1..Len(down) PROVE FALSE
      <4>1. g[k] \in 1..Len(d) /\ d[g[k]] \in D
        BY <1>10 DEF Picks
      <4> DEFINE e == d[g[k]]
      <4>2. OnPath(nodes, target, e)
        BY <1>3, <1>6, <4>1
      <4>3. e \in Nat /\ e <= target
        BY <1>4, <4>2
      <4> HIDE DEF e
      <4>4. OnPath(nodes, from, e)
        BY <1>17, <4>2, <4>3, PathsJoin
      <4> QED
        BY <4>1, <4>4 DEF e
    <3> QED
      BY <1>11, <3>1
  <2>2. PICK q \in 1..Len(c) : c[q] = target
    BY <1>3, <1>6, <1>17
  <2>3. q # 1 /\ q - 1 \in 1..Len(c) /\ q - 1 \in 1..(Len(c) - 1) /\ (q - 1) + 1 = q
    <3>1. q # 1
      BY <1>2, <2>2 DEF Climbs
    <3> QED
      BY <1>6, <2>2, <3>1
  <2>4. nodes[c[q - 1]].parent = target
    <3>1. c[(q - 1) + 1] = nodes[c[q - 1]].parent
      BY <1>2, <2>3 DEF Climbs
    <3> QED
      BY <2>2, <2>3, <3>1
  <2>5. c[q - 1] \in U
    <3>1. c[q] < c[q - 1]
      <4>1. q - 1 < q
        BY <2>2
      <4> QED
        BY <1>2, <2>2, <2>3, <4>1 DEF Climbs
    <3>2. ~OnPath(nodes, target, c[q - 1])
      BY <1>4, <1>6, <2>2, <2>3, <3>1
    <3> QED
      BY <1>0, <1>6, <2>3, <3>2
  <2>6. \A j \in 1..Len(c) : q <= j => c[j] \notin U
    <3> SUFFICES ASSUME NEW j \in 1..Len(c), q <= j PROVE OnPath(nodes, target, c[j])
      OBVIOUS
    <3>1. j = q \/ q < j
      BY <1>6, <2>2
    <3>2. q < j => c[j] < c[q]
      BY <1>2, <2>2 DEF Climbs
    <3>3. c[j] \in Nat /\ c[j] <= target
      BY <1>6, <2>2, <3>1, <3>2
    <3>4. OnPath(nodes, from, c[j])
      BY <1>3, <1>6
    <3> QED
      BY <1>17, <3>3, <3>4, PathsJoin
  <2>7. PICK k \in 1..Len(up) : h[k] = q - 1
    BY <1>9, <2>3, <2>5 DEF Picks
  <2>8. k = Len(up)
    <3>0. Len(up) \in Nat /\ k \in 1..Len(up)
      BY <1>11, <2>7
    <3>1. Len(up) \in 1..Len(up) /\ (k = Len(up) \/ k < Len(up))
      BY <3>0
    <3>2. ASSUME k < Len(up) PROVE FALSE
      <4>1. h[k] < h[Len(up)]
        BY <1>9, <2>7, <3>1, <3>2 DEF Picks
      <4>2. h[Len(up)] \in 1..Len(c) /\ c[h[Len(up)]] \in U
        BY <1>12, <3>1
      <4>3. q <= h[Len(up)]
        BY <1>6, <2>2, <2>7, <4>1, <4>2
      <4> QED
        BY <2>6, <4>2, <4>3
    <3> QED
      BY <3>1, <3>2
  <2>9. ups[Len(up)] = target /\ Len(up) > 0
    <3>1. up[k] = c[q - 1]
      BY <1>12, <2>7
    <3>2. ups[k] = target
      <4>1. k \in 1..Len(up)
        BY <2>7
      <4> QED
        BY <1>13, <2>4, <3>1, <4>1
    <3>3. Len(up) \in Nat /\ k \in 1..Len(up)
      BY <1>11, <2>7
    <3> QED
      BY <2>8, <3>2, <3>3
  <2>10. Len(path) > 0
    BY <1>11, <1>15, <2>1, <2>9
  <2> QED
    BY <1>15, <2>1, <2>9, <2>10
<1> QED
  <2>1. path \in Seq(1..Len(nodes)) /\ Len(path) > 0 /\ path[Len(path)] = target
    BY <1>15, <1>16, <1>17
  <2> QED
    BY <2>1 DEF path

\* A non-empty set of indices has a greatest one.
LEMMA GreatestOf ==
  ASSUME NEW n \in Nat, NEW S \in SUBSET (1..n), S # {}
  PROVE  \E x \in S : \A y \in S : y <= x
<1> DEFINE T == {m \in 0..n : n - m \in S}
<1>1. T \in SUBSET Nat /\ T # {}
  <2>1. PICK y \in S : TRUE
    OBVIOUS
  <2>2. n - y \in 0..n /\ n - (n - y) = y
    OBVIOUS
  <2>3. n - (n - y) \in S
    BY <2>1, <2>2
  <2>4. n - y \in T
    BY <2>2, <2>3
  <2>5. T \in SUBSET Nat
    OBVIOUS
  <2> HIDE DEF T
  <2> QED
    BY <2>4, <2>5
<1>2. PICK m \in T : \A k \in T : m <= k
  BY <1>1, LeastOf
<1>3. ASSUME NEW y \in S PROVE y <= n - m
  <2>1. n - y \in 0..n /\ n - (n - y) = y
    OBVIOUS
  <2>2. n - y \in T
    BY <2>1
  <2> QED
    BY <1>2, <2>1, <2>2
<1> QED
  BY <1>2, <1>3

\* An undo goes to a node behind the one in front that is the first, or has no
\* content, or is not what the buffer holds.
LEMMA UndoTargetStops ==
  ASSUME NEW tr, Shape(tr), tr.current # 0
  PROVE  LET u == UndoTarget(tr) IN
         \/ u = 0
         \/ /\ u \in 1..Len(tr.nodes)
            /\ \/ u = 1
               \/ ~Known(tr.nodes[u])
               \/ ~SameContent(text, tr.nodes[u].state[1])
<1> DEFINE nodes == tr.nodes
           c == Chain(nodes, tr.current)
           b == Tail(c)
           stop(n) == \/ nodes[n].parent = 0
                      \/ ~Known(nodes[n])
                      \/ ~SameContent(text, nodes[n].state[1])
           T == {i \in 1..Len(b) : stop(b[i])}
<1>1. /\ Len(nodes) \in Nat /\ tr.current \in 1..Len(nodes) /\ Rooted(nodes)
      /\ \A i \in 1..Len(nodes) : nodes[i].parent = 0 => i = 1
  <2>1. Rooted(nodes)
    BY DEF Shape
  <2> QED
    BY <2>1, ShapeNumbers, RootedNodes
<1>2. Climbs(nodes, tr.current, c)
  BY <1>1, ChainClimbs
<1>3. c \in Seq(1..tr.current) /\ Len(c) \in Nat /\ Len(c) > 0 /\ c # <<>>
  <2>1. c \in Seq(1..tr.current) /\ Len(c) > 0
    BY <1>2 DEF Climbs
  <2> HIDE DEF c
  <2> QED
    BY <2>1, LenProperties, EmptySeq
<1> HIDE DEF c
<1>4. /\ b \in Seq(1..tr.current) /\ Len(b) = Len(c) - 1
      /\ \A i \in 1..Len(b) : b[i] = c[i + 1]
  BY <1>3, HeadTailProperties
<1>5. UndoTarget(tr) = IF b = <<>> THEN 0
                       ELSE b[CHOOSE i \in DOMAIN b :
                                stop(b[i]) /\ \A j \in 1..(i - 1) : ~stop(b[j])]
  BY DEF UndoTarget, c
<1> HIDE DEF b
<1>6. Len(b) \in Nat /\ DOMAIN b = 1..Len(b) /\ \A i \in 1..Len(b) : b[i] \in 1..Len(nodes)
  <2>1. \A i \in 1..Len(b) : b[i] \in 1..tr.current
    BY <1>4, ElementOfSeq
  <2>2. (1..tr.current) \subseteq (1..Len(nodes))
    BY <1>1
  <2> QED
    BY <1>4, <2>1, <2>2, LenProperties
<1>7. CASE b = <<>>
  BY <1>5, <1>7
<1>8. CASE b # <<>>
  <2>1. Len(b) # 0
    BY <1>4, <1>8, EmptySeq
  <2>2. Len(b) \in T
    <3>1. Len(b) \in 1..Len(b) /\ Len(b) + 1 = Len(c)
      BY <1>3, <1>4, <1>6, <2>1
    <3>2. b[Len(b)] = c[Len(c)]
      BY <1>4, <3>1
    <3> QED
      BY <1>2, <3>1, <3>2 DEF Climbs
  <2>3. T \in SUBSET Nat
    BY <1>6
  <2>4. PICK x \in T : \A y \in T : x <= y
    BY <2>2, <2>3, LeastOf
  <2> DEFINE i == CHOOSE i \in DOMAIN b : stop(b[i]) /\ \A j \in 1..(i - 1) : ~stop(b[j])
  <2> HIDE DEF stop
  <2>5. x \in DOMAIN b /\ stop(b[x]) /\ \A j \in 1..(x - 1) : ~stop(b[j])
    <3>1. x \in 1..Len(b) /\ stop(b[x])
      BY <2>4
    <3>2. ASSUME NEW j \in 1..(x - 1) PROVE ~stop(b[j])
      <4>1. j \in 1..Len(b) /\ ~(x <= j)
        BY <1>6, <3>1
      <4> QED
        BY <2>4, <4>1
    <3> QED
      BY <1>6, <3>1, <3>2
  <2>6. i \in DOMAIN b /\ stop(b[i])
    BY <2>5
  <2>7. UndoTarget(tr) = b[i]
    BY <1>5, <1>8
  <2> HIDE DEF i
  <2> DEFINE u == b[i]
  <2>8. u \in 1..Len(nodes) /\ stop(u)
    BY <1>6, <2>6
  <2> HIDE DEF u
  <2>9. u = 1 \/ ~Known(nodes[u]) \/ ~SameContent(text, nodes[u].state[1])
    BY <1>1, <2>8 DEF stop
  <2> QED
    BY <2>7, <2>8, <2>9 DEF u
<1> QED
  BY <1>7, <1>8

\* Redo goes to a node of the tree, or nowhere.
LEMMA RedoTargetIsNode ==
  ASSUME NEW tr, Shape(tr)
  PROVE  RedoTarget(tr) \in 0..Len(tr.nodes)
<1> DEFINE nodes == tr.nodes
           S == {i \in DOMAIN nodes : nodes[i].parent = tr.current}
<1>0. Len(nodes) \in Nat /\ DOMAIN nodes = 1..Len(nodes) /\ \A i \in 1..Len(nodes) : nodes[i].seq \in Nat
  BY ShapeNumbers DEF Nodes
<1>1. CASE S = {}
  BY <1>0, <1>1 DEF RedoTarget
<1>2. CASE S # {}
  <2>1. S \in SUBSET (1..Len(nodes))
    BY <1>0
  <2>2. RedoTarget(tr) = CHOOSE i \in S : \A j \in S : nodes[i].seq >= nodes[j].seq
    BY <1>2 DEF RedoTarget
  <2> HIDE DEF S
  <2>3. PICK x \in S : \A y \in S : y <= x
    BY <1>0, <1>2, <2>1, GreatestOf
  <2>4. ASSUME NEW j \in S PROVE nodes[x].seq >= nodes[j].seq
    <3>1. x \in 1..Len(nodes) /\ j \in 1..Len(nodes) /\ (j < x \/ j = x)
      BY <1>0, <2>1, <2>3
    <3>2. j < x => nodes[j].seq < nodes[x].seq
      BY <3>1 DEF Shape
    <3> QED
      BY <1>0, <3>1, <3>2
  <2>5. RedoTarget(tr) \in S
    <3>1. \E i \in S : \A j \in S : nodes[i].seq >= nodes[j].seq
      BY <2>4
    <3> QED
      BY <2>2, <3>1
  <2>6. RedoTarget(tr) \in 1..Len(nodes)
    BY <2>1, <2>5
  <2> QED
    BY <1>0, <2>6
<1> QED
  BY <1>1, <1>2

\* The node a walk leaves has its content; nothing else changes.
LEMMA LeftBehind ==
  ASSUME NEW tr, Shape(tr), tr.current # 0,
         text \in Texts, cursor \in Regions, modified \in BOOLEAN
  PROVE  LET u == Left(tr) IN
         /\ Shape(u) /\ u.current = tr.current /\ u.last = tr.last
         /\ Len(u.nodes) = Len(tr.nodes)
         /\ Stamps(u) \subseteq Stamps(tr)
         /\ \A i \in 1..Len(tr.nodes) : u.nodes[i].held = tr.nodes[i].held
         /\ Holding(tr) /\ OnText(tr, text) => AllHold(u)
<1> DEFINE u == Left(tr)
<1>1. CASE Known(tr.nodes[tr.current])
  <2>1. u = tr
    BY <1>1 DEF Left
  <2>2. Holding(tr) => AllHold(tr)
    BY <1>1 DEF Holding, AllHold
  <2> QED
    BY <2>1, <2>2
<1>2. CASE ~Known(tr.nodes[tr.current])
  <2> DEFINE s == Capture(text, cursor, modified)
             v == [tr EXCEPT !.nodes[tr.current].state = <<s>>]
  <2>0. s \in States /\ s.from = text
    BY CaptureIsState
  <2>1. u = v
    BY <1>2 DEF Left
  <2> HIDE DEF s
  <2>2. /\ Shape(v) /\ v.current = tr.current /\ v.last = tr.last
        /\ Len(v.nodes) = Len(tr.nodes)
        /\ \A i \in 1..Len(tr.nodes) : i # tr.current => v.nodes[i] = tr.nodes[i]
        /\ v.nodes[tr.current].state = <<s>>
        /\ \A i \in 1..Len(tr.nodes) :
              /\ v.nodes[i].saved = tr.nodes[i].saved
              /\ v.nodes[i].held = tr.nodes[i].held
    BY <2>0, GivenState
  <2> HIDE DEF v, u
  <2>3. Stamps(v) \subseteq Stamps(tr)
    BY <2>2 DEF Stamps
  <2>4. ASSUME Holding(tr), OnText(tr, text) PROVE AllHold(v)
    <3> SUFFICES ASSUME NEW i \in 1..Len(tr.nodes)
                 PROVE  Known(v.nodes[i]) /\ v.nodes[i].state[1].from = v.nodes[i].held
      BY <2>2 DEF AllHold
    <3>1. CASE i = tr.current
      <4>1. v.nodes[i].state = <<s>> /\ v.nodes[i].held = text
        BY <2>2, <2>4, <3>1 DEF OnText
      <4> QED
        BY <2>0, <4>1 DEF Known
    <3>2. CASE i # tr.current
      BY <2>2, <2>4, <3>2 DEF Holding
    <3> QED
      BY <3>1, <3>2
  <2>5. /\ Shape(u) /\ u.current = tr.current /\ u.last = tr.last
        /\ Len(u.nodes) = Len(tr.nodes)
        /\ Stamps(u) \subseteq Stamps(tr)
        /\ \A i \in 1..Len(tr.nodes) : u.nodes[i].held = tr.nodes[i].held
        /\ Holding(tr) /\ OnText(tr, text) => AllHold(u)
    BY <2>1, <2>2, <2>3, <2>4
  <2> QED
    BY <2>5 DEF u
<1> QED
  BY <1>1, <1>2

\* Putting another node in front changes neither nodes nor stamps.
LEMMA Retargeted ==
  ASSUME NEW u, Shape(u), NEW target \in 1..Len(u.nodes)
  PROVE  LET v == [u EXCEPT !.current = target] IN
         /\ Shape(v) /\ v.current = target /\ v.last = u.last
         /\ Stamps(v) = Stamps(u)
         /\ AllHold(u) => Holding(v)
         /\ OnText(v, u.nodes[target].held)
<1> DEFINE v == [u EXCEPT !.current = target]
<1>1. u \in [nodes : Seq(Nodes), current : Nat, last : Nat]
  BY DEF Shape
<1>2. v = [nodes |-> u.nodes, current |-> target, last |-> u.last]
  BY <1>1, TreeWith
<1> HIDE DEF v
<1>3. v.nodes = u.nodes /\ v.current = target /\ v.last = u.last
  BY <1>2
<1>4. Len(u.nodes) \in Nat
  BY ShapeNumbers
<1>5. v \in [nodes : Seq(Nodes), current : Nat, last : Nat]
  BY <1>1, <1>2, <1>4
<1>6. u.nodes # <<>>
  BY <1>4, ShapeNumbers DEF Shape
<1>7. Shape(v)
  BY <1>3, <1>4, <1>5, <1>6 DEF Shape
<1>8. Stamps(v) = Stamps(u)
  BY <1>3 DEF Stamps
<1>9. AllHold(u) => Holding(v)
  BY <1>3 DEF AllHold, Holding
<1>10. OnText(v, u.nodes[target].held)
  BY <1>3 DEF OnText
<1> QED
  BY <1>3, <1>7, <1>8, <1>9, <1>10 DEF v

\* A walk that leaves a reconciled tree.
LEMMA WalkKeeps ==
  ASSUME NEW tr, Shape(tr), tr.current # 0,
         text \in Texts, cursor \in Regions, modified \in BOOLEAN,
         NEW target \in 0..Len(tr.nodes), WalkTo(tr, target)
  PROVE  /\ Shape(tree') /\ tree'.last = tr.last
         /\ Stamps(tree') \subseteq Stamps(tr)
         /\ text' \in Texts /\ cursor' \in Regions /\ modified' \in BOOLEAN /\ walked' \in BOOLEAN
         /\ ~Windowed /\ Holding(tr) /\ OnText(tr, text) => Holding(tree') /\ OnText(tree', text')
         /\ walked' => /\ target # 0 /\ Known(tr.nodes[target])
                       /\ SameContent(text', tr.nodes[target].state[1])
                       /\ target = 1 => tree'.current = 1
<1>1. CASE target = 0 \/ target = tr.current \/ ~Known(tr.nodes[target])
  <2>1. Stay(tr)
    BY <1>1 DEF WalkTo
  <2> QED
    BY <2>1 DEF Stay
<1>2. CASE ~(target = 0 \/ target = tr.current \/ ~Known(tr.nodes[target]))
  <2> DEFINE nodes == tr.nodes
             path == Path(nodes, tr.current, target)
             s == nodes[target].state[1]
             u == Left(tr)
             v == [u EXCEPT !.current = target]
  <2>1. /\ text' = Along(nodes, path, text) /\ cursor' = s.cursor /\ modified' = s.modified
        /\ tree' \in Trims(v) /\ walked' = TRUE
    BY <1>2 DEF WalkTo
  <2>2. /\ target \in 1..Len(nodes) /\ tr.current \in 1..Len(nodes) /\ tr.current # target
        /\ Rooted(nodes) /\ Known(nodes[target]) /\ nodes[target] \in Nodes
    BY <1>2, ShapeNumbers DEF Shape
  <2>3. s \in States
    BY <2>2, NodeStates
  <2>4. path \in Seq(1..Len(nodes)) /\ Len(path) > 0 /\ path[Len(path)] = target
    BY <2>2, PathEnds
  <2> HIDE DEF path
  <2>5. PICK x \in Texts : Along(nodes, path, text) = Applied(x, s)
    BY <2>2, <2>4, AlongEnds
  <2> HIDE DEF s
  <2>6. /\ text' \in Texts /\ \A r \in DOMAIN s.part : text'[r] = s.part[r]
        /\ ~Windowed => text' = s.from
    BY <2>1, <2>3, <2>5, AppliedAgrees
  <2>7. SameContent(text', s)
    <3>1. \A y \in Texts : SameContent(y, s) <=> \A r \in DOMAIN s.part : y[r] = s.part[r]
      BY <2>3, AppliedAgrees
    <3> QED
      BY <2>6, <3>1
  <2>8. cursor' \in Regions /\ modified' \in BOOLEAN
    BY <2>1, <2>3, StateHolds
  <2>9. /\ Shape(u) /\ u.current = tr.current /\ u.last = tr.last
        /\ Len(u.nodes) = Len(nodes)
        /\ Stamps(u) \subseteq Stamps(tr)
        /\ \A i \in 1..Len(nodes) : u.nodes[i].held = nodes[i].held
        /\ Holding(tr) /\ OnText(tr, text) => AllHold(u)
    BY LeftBehind
  <2> HIDE DEF u
  <2>10. /\ Shape(v) /\ v.current = target /\ v.last = u.last
         /\ Stamps(v) = Stamps(u)
         /\ AllHold(u) => Holding(v)
         /\ OnText(v, u.nodes[target].held)
    BY <2>2, <2>9, Retargeted
  <2> HIDE DEF v
  <2>11. \A t \in Trims(v) :
           /\ Shape(t) /\ LeftOf(t, v)
           /\ Holding(v) => Holding(t)
           /\ \A y : OnText(v, y) => OnText(t, y)
           /\ Stamps(t) \subseteq Stamps(v)
    BY <2>10, TrimsAreLeft, LeftKeepsHolding
  <2>12. /\ Shape(tree') /\ LeftOf(tree', v)
         /\ Holding(v) => Holding(tree')
         /\ \A y : OnText(v, y) => OnText(tree', y)
         /\ Stamps(tree') \subseteq Stamps(v)
    BY <2>1, <2>11
  <2>13. tree'.last = tr.last /\ (target = 1 => tree'.current = 1)
    BY <2>9, <2>10, <2>12 DEF LeftOf
  <2>14. ASSUME ~Windowed, Holding(tr), OnText(tr, text)
         PROVE  Holding(tree') /\ OnText(tree', text')
    <3>1. nodes[target].held = s.from
      BY <2>2, <2>14 DEF Holding, s
    <3>2. OnText(v, text')
      BY <2>2, <2>6, <2>9, <2>10, <2>14, <3>1
    <3> QED
      BY <2>9, <2>10, <2>12, <2>14, <3>2
  <2>15. Stamps(tree') \subseteq Stamps(tr)
    BY <2>9, <2>10, <2>12
  <2> QED
    BY <1>2, <2>1, <2>2, <2>6, <2>7, <2>8, <2>12, <2>13, <2>14, <2>15 DEF s
<1> QED
  BY <1>1, <1>2

-----------------------------------------------------------------------------
(* The inductive invariant *)

\* The formatters: until it has read the file, or if it failed, one holds no text.
Formatters == [stage : {"queued", "done"}, text : {<<>>}]
                \cup [stage : {"busy", "rewritten", "done"}, text : {<<t>> : t \in Texts}]

\* Everything has its type, the tree is a tree within its bound, and no stamp is
\* of a write to come.
Typed ==
  /\ text \in Texts /\ disk \in Texts
  /\ cursor \in Regions
  /\ modified \in BOOLEAN /\ touched \in BOOLEAN
  /\ walked \in BOOLEAN /\ crossed \in BOOLEAN
  /\ jobs \in Seq(Formatters) /\ Len(jobs) <= MaxJobs
  /\ Shape(tree) /\ tree.last <= MaxSeq
  /\ Waiting(pending)
  /\ writes \in 0..MaxWrites
  /\ \A x \in Stamps(tree) : x[1] <= writes

\* Unless they crossed, at most one formatter is under way, and what it has read
\* back for its completion is still what the file holds.
Alone ==
  ~crossed =>
    /\ Len(jobs) <= 1
    /\ \A k \in 1..Len(jobs) :
         jobs[k].stage = "done" /\ jobs[k].text # <<>> => jobs[k].text[1] = disk

\* The stamp of the last write is on what is on disk.
StampOnDisk ==
  ~crossed /\ ~Unlanded => \A x \in Stamps(tree) : writes > 0 /\ x[1] = writes => x[2] = disk

\* Every node holds what it reached, and the one in front reached what the buffer
\* held when the pending snapshot was taken, or holds; so the stamps stay on disk.
Faithful ==
  /\ Holding(tree)
  /\ pending = <<>> => OnText(tree, text)
  /\ pending # <<>> => OnText(tree, pending[1].from)
  /\ StampOnDisk

IndInv == Typed /\ Alone /\ (~Windowed => Faithful)

\* What a stamp is.
LEMMA StampsAreNumbers ==
  ASSUME NEW tr, Shape(tr)
  PROVE  \A x \in Stamps(tr) : x[1] \in Nat /\ x[2] \in Texts
<1>1. \A i \in 1..Len(tr.nodes) : tr.nodes[i].saved \in Nat /\ tr.nodes[i].held \in Texts
  BY ShapeNumbers DEF Nodes
<1> QED
  BY <1>1 DEF Stamps

\* jot.undo.clear() leaves a tree of which everything is true.
LEMMA EmptyTree ==
  LET e == [nodes |-> <<>>, current |-> 0, last |-> 0] IN
  /\ Shape(e) /\ Stamps(e) = {} /\ Holding(e) /\ \A x : OnText(e, x)
<1> DEFINE e == [nodes |-> <<>>, current |-> 0, last |-> 0]
<1>1. e.nodes = <<>> /\ e.current = 0 /\ e.last = 0
  OBVIOUS
<1>2. <<>> \in Seq(Nodes) /\ Len(<<>>) = 0 /\ 1..0 = {}
  OBVIOUS
<1>3. e \in [nodes : Seq(Nodes), current : Nat, last : Nat]
  BY <1>2
<1> HIDE DEF e
<1>4. \A i \in 1..Len(e.nodes) : FALSE
  BY <1>1, <1>2
<1>5. Rooted(e.nodes)
  BY <1>1, <1>2, <1>4 DEF Rooted, Nodes
<1>6. Shape(e)
  BY <1>1, <1>2, <1>3, <1>4, <1>5 DEF Shape
<1>7. Stamps(e) = {} /\ Holding(e) /\ \A x : OnText(e, x)
  BY <1>1, <1>4 DEF Stamps, Holding, OnText
<1> QED
  BY <1>6, <1>7 DEF e

\* A step that leaves the formatters and the file alone leaves their state alone.
LEMMA FormattersStay ==
  ASSUME Alone, UNCHANGED <<disk, jobs, crossed>>
  PROVE  Alone' /\ (Unlanded' <=> Unlanded)
BY DEF Alone, Unlanded

\* And if it adds no stamp, the last one stays on disk.
LEMMA StampStays ==
  ASSUME Alone, StampOnDisk, UNCHANGED <<writes, disk, jobs, crossed>>,
         Stamps(tree') \subseteq Stamps(tree) \cup New
  PROVE  StampOnDisk'
<1>1. Unlanded' <=> Unlanded
  BY FormattersStay
<1> QED
  BY <1>1 DEF StampOnDisk, New

\* A buffer starts without a history.
LEMMA InitHolds == Init => IndInv
<1> SUFFICES ASSUME Init PROVE IndInv
  OBVIOUS
<1>1. Shape(tree) /\ Stamps(tree) = {} /\ Holding(tree) /\ \A x : OnText(tree, x)
  BY EmptyTree DEF Init
<1>2. tree.last = 0
  BY DEF Init
<1>3. jobs \in Seq(Formatters) /\ Len(jobs) = 0 /\ 1..0 = {}
  BY EmptySeq DEF Init
<1>4. Typed
  <2>1. tree.last <= MaxSeq /\ writes \in 0..MaxWrites /\ Len(jobs) <= MaxJobs
    BY <1>2, <1>3, BoundAssumption DEF Init
  <2>2. /\ modified \in BOOLEAN /\ touched \in BOOLEAN /\ walked \in BOOLEAN
        /\ crossed \in BOOLEAN /\ Waiting(pending)
    BY DEF Init, Waiting
  <2>3. text \in Texts /\ disk \in Texts /\ cursor \in Regions
    BY DEF Init
  <2> QED
    BY <1>1, <1>3, <2>1, <2>2, <2>3 DEF Typed
<1>5. Alone
  BY <1>3 DEF Alone
<1>6. Faithful
  BY <1>1 DEF Init, Faithful, StampOnDisk
<1> QED
  BY <1>4, <1>5, <1>6 DEF IndInv

\* Moving the caret.
LEMMA MoveKeeps == IndInv /\ Move => IndInv'
<1> SUFFICES ASSUME IndInv, Move PROVE IndInv'
  OBVIOUS
<1>1. Typed'
  BY DEF IndInv, Typed, Move, Waiting
<1>2. Alone'
  BY FormattersStay DEF IndInv, Move
<1>3. Faithful => Faithful'
  BY StampStays DEF IndInv, Faithful, Move
<1> QED
  BY <1>1, <1>2, <1>3 DEF IndInv

\* save_state() reconciles, takes the snapshot, and the command edits.
LEMMA CommandKeeps == IndInv /\ Command => IndInv'
<1> SUFFICES ASSUME IndInv, Command PROVE IndInv'
  OBVIOUS
<1> USE DEF IndInv
<1>1. /\ InBound /\ tree' \in Reconciled(tree, pending, text, TRUE)
      /\ pending' = <<Capture(text, cursor, modified)>>
      /\ text' \in Edited /\ touched' \in {FALSE, text' # text}
      /\ modified' = (modified \/ text' # text) /\ walked' = FALSE
      /\ UNCHANGED <<cursor, writes, disk, jobs, crossed>>
  BY DEF Command
<1>2. Shape(tree) /\ Waiting(pending) /\ text \in Texts /\ TRUE \in BOOLEAN
  BY DEF Typed
<1>3. \A n \in Reconciled(tree, pending, text, TRUE) :
         /\ Shape(n)
         /\ n.last <= tree.last + 1 + (IF tree.current = 0 THEN 1 ELSE 0)
         /\ Stamps(n) \subseteq Stamps(tree) \cup New
         /\ /\ ~Windowed /\ Holding(tree)
            /\ pending = <<>> => OnText(tree, text)
            /\ pending # <<>> => OnText(tree, pending[1].from)
            => Holding(n) /\ OnText(n, text)
  BY <1>2, ReconciledTree
<1>4. /\ Shape(tree')
      /\ tree'.last <= tree.last + 1 + (IF tree.current = 0 THEN 1 ELSE 0)
      /\ Stamps(tree') \subseteq Stamps(tree) \cup New
      /\ /\ ~Windowed /\ Holding(tree)
         /\ pending = <<>> => OnText(tree, text)
         /\ pending # <<>> => OnText(tree, pending[1].from)
         => Holding(tree') /\ OnText(tree', text)
  BY <1>1, <1>3
<1> DEFINE s == Capture(text, cursor, modified)
<1>5. s \in States /\ s.from = text
  BY CaptureIsState DEF Typed
<1> HIDE DEF s
<1>6. pending' = <<s>> /\ pending' # <<>> /\ pending'[1] = s
  BY <1>1 DEF s
<1>7. text' \in Texts
  BY <1>1, <1>2 DEF Edited, Texts, Typed
<1>8. tree'.last <= MaxSeq
  BY <1>1 DEF InBound
<1>9. \A x \in Stamps(tree') : x[1] <= writes'
  BY <1>1, <1>4 DEF Typed, New
<1>10. modified' \in BOOLEAN /\ touched' \in BOOLEAN /\ walked' \in BOOLEAN
  BY <1>1 DEF Typed
<1>11. Typed'
  <2>1. /\ disk' \in Texts /\ cursor' \in Regions /\ writes' \in 0..MaxWrites
        /\ crossed' \in BOOLEAN /\ jobs' \in Seq(Formatters) /\ Len(jobs') <= MaxJobs
    BY <1>1 DEF Typed
  <2>2. Waiting(pending')
    BY <1>5, <1>6 DEF Waiting
  <2> QED
    BY <1>4, <1>7, <1>8, <1>9, <1>10, <2>1, <2>2 DEF Typed
<1>12. ASSUME ~Windowed PROVE Faithful'
  <2>1. Holding(tree') /\ OnText(tree', text)
    BY <1>4, <1>12 DEF Faithful
  <2>2. StampOnDisk'
    BY <1>1, <1>4, <1>12, StampStays DEF Faithful
  <2> QED
    BY <1>5, <1>6, <2>1, <2>2 DEF Faithful
<1>13. Alone'
  BY <1>1, FormattersStay
<1> QED
  BY <1>11, <1>12, <1>13

\* jot.undo.clear().
LEMMA ClearKeeps == IndInv /\ Clear => IndInv'
<1> SUFFICES ASSUME IndInv, Clear PROVE IndInv'
  OBVIOUS
<1>1. /\ tree' = [nodes |-> <<>>, current |-> 0, last |-> 0] /\ pending' = <<>>
      /\ walked' = FALSE
      /\ UNCHANGED <<text, cursor, modified, touched, writes, disk, jobs, crossed>>
  BY DEF Clear
<1>2. Shape(tree') /\ Stamps(tree') = {} /\ Holding(tree') /\ \A x : OnText(tree', x)
  BY <1>1, EmptyTree
<1>3. tree'.last = 0
  BY <1>1
<1>4. Typed'
  <2>1. tree'.last <= MaxSeq /\ writes' \in 0..MaxWrites
    BY <1>1, <1>3, BoundAssumption DEF IndInv, Typed
  <2>2. /\ modified' \in BOOLEAN /\ touched' \in BOOLEAN /\ walked' \in BOOLEAN
        /\ Waiting(pending')
    BY <1>1 DEF IndInv, Typed, Waiting
  <2>3. text' \in Texts /\ disk' \in Texts /\ cursor' \in Regions
    BY <1>1 DEF IndInv, Typed
  <2>4. crossed' \in BOOLEAN /\ jobs' \in Seq(Formatters) /\ Len(jobs') <= MaxJobs
    BY <1>1 DEF IndInv, Typed
  <2> QED
    BY <1>2, <2>1, <2>2, <2>3, <2>4 DEF Typed
<1>5. Faithful'
  BY <1>1, <1>2 DEF Faithful, StampOnDisk
<1>6. Alone'
  BY <1>1, FormattersStay DEF IndInv
<1> QED
  BY <1>4, <1>5, <1>6 DEF IndInv

\* Looking at the tree: it is reconciled, and then walked or left as it is.
LEMMA LookingKeeps ==
  ASSUME IndInv, InBound, NEW tr \in Reconciled(tree, pending, text, touched),
         Stay(tr) \/ (tr.current # 0 /\ \E target \in 0..Len(tr.nodes) : WalkTo(tr, target)),
         pending' = <<>>, touched' = FALSE, UNCHANGED <<writes, disk, jobs, crossed>>
  PROVE  IndInv'
<1> USE DEF IndInv
<1>1. Shape(tree) /\ Waiting(pending) /\ text \in Texts /\ touched \in BOOLEAN
  BY DEF Typed
<1>2. /\ Shape(tr)
      /\ tr.last <= tree.last + 1 + (IF tree.current = 0 THEN 1 ELSE 0)
      /\ Stamps(tr) \subseteq Stamps(tree) \cup New
      /\ /\ ~Windowed /\ Holding(tree)
         /\ pending = <<>> => OnText(tree, text)
         /\ pending # <<>> => OnText(tree, pending[1].from)
         => Holding(tr) /\ OnText(tr, text)
  BY <1>1, ReconciledTree
<1>3. /\ Shape(tree') /\ tree'.last = tr.last
      /\ Stamps(tree') \subseteq Stamps(tr)
      /\ text' \in Texts /\ cursor' \in Regions /\ modified' \in BOOLEAN /\ walked' \in BOOLEAN
      /\ ~Windowed /\ Holding(tr) /\ OnText(tr, text) => Holding(tree') /\ OnText(tree', text')
  <2>1. CASE Stay(tr)
    BY <1>2, <2>1 DEF Stay, Typed
  <2>2. CASE tr.current # 0 /\ \E target \in 0..Len(tr.nodes) : WalkTo(tr, target)
    <3>1. PICK target \in 0..Len(tr.nodes) : WalkTo(tr, target)
      BY <2>2
    <3>2. text \in Texts /\ cursor \in Regions /\ modified \in BOOLEAN
      BY DEF Typed
    <3> QED
      BY <1>2, <2>2, <3>1, <3>2, WalkKeeps
  <2> QED
    BY <2>1, <2>2
<1>4. tree'.last <= MaxSeq
  BY DEF InBound
<1>5. Stamps(tree') \subseteq Stamps(tree) \cup New
  BY <1>2, <1>3
<1>6. \A x \in Stamps(tree') : x[1] <= writes'
  BY <1>5 DEF Typed, New
<1>7. Typed'
  BY <1>3, <1>4, <1>6 DEF Typed, Waiting
<1>8. ASSUME ~Windowed PROVE Faithful'
  <2>1. Holding(tree') /\ OnText(tree', text')
    BY <1>2, <1>3, <1>8 DEF Faithful
  <2>2. StampOnDisk'
    BY <1>5, <1>8, StampStays DEF Faithful
  <2> QED
    BY <2>1, <2>2 DEF Faithful
<1>9. Alone'
  BY FormattersStay
<1> QED
  BY <1>7, <1>8, <1>9

\* Where an undo goes is a node of the reconciled tree, or nowhere.
LEMMA UndoLooks ==
  ASSUME IndInv, Undo
  PROVE  \E tr \in Reconciled(tree, pending, text, touched) :
           /\ Shape(tr)
           /\ Stay(tr) \/ (tr.current # 0 /\ UndoTarget(tr) \in 0..Len(tr.nodes) /\ WalkTo(tr, UndoTarget(tr)))
<1>1. PICK tr \in Reconciled(tree, pending, text, touched) :
        IF tr.current = 0 THEN Stay(tr) ELSE WalkTo(tr, UndoTarget(tr))
  BY DEF Undo, Looking
<1>2. Shape(tree) /\ Waiting(pending) /\ text \in Texts /\ touched \in BOOLEAN
  BY DEF IndInv, Typed
<1>3. Shape(tr)
  BY <1>2, ReconciledTree
<1>4. tr.current # 0 => UndoTarget(tr) \in 0..Len(tr.nodes)
  <2> SUFFICES ASSUME tr.current # 0 PROVE UndoTarget(tr) \in 0..Len(tr.nodes)
    OBVIOUS
  <2>1. UndoTarget(tr) = 0 \/ UndoTarget(tr) \in 1..Len(tr.nodes)
    BY <1>3, UndoTargetStops
  <2>2. Len(tr.nodes) \in Nat
    BY <1>3, ShapeNumbers
  <2> QED
    BY <2>1, <2>2
<1> QED
  BY <1>1, <1>3, <1>4

\* undo(), as a walk to UndoTarget.
LEMMA UndoKeeps == IndInv /\ Undo => IndInv'
<1> SUFFICES ASSUME IndInv, Undo PROVE IndInv'
  OBVIOUS
<1>1. PICK tr \in Reconciled(tree, pending, text, touched) :
        Stay(tr) \/ (tr.current # 0 /\ UndoTarget(tr) \in 0..Len(tr.nodes) /\ WalkTo(tr, UndoTarget(tr)))
  BY UndoLooks
<1>2. InBound /\ pending' = <<>> /\ touched' = FALSE /\ UNCHANGED <<writes, disk, jobs, crossed>>
  BY DEF Undo, Looking
<1>3. Stay(tr) \/ (tr.current # 0 /\ \E target \in 0..Len(tr.nodes) : WalkTo(tr, target))
  BY <1>1
<1> QED
  BY <1>2, <1>3, LookingKeeps

\* redo(), as a walk to RedoTarget.
LEMMA RedoKeeps == IndInv /\ Redo => IndInv'
<1> SUFFICES ASSUME IndInv, Redo PROVE IndInv'
  OBVIOUS
<1>1. PICK tr \in Reconciled(tree, pending, text, touched) :
        IF tr.current = 0 THEN Stay(tr) ELSE WalkTo(tr, RedoTarget(tr))
  BY DEF Redo, Looking
<1>2. InBound /\ pending' = <<>> /\ touched' = FALSE /\ UNCHANGED <<writes, disk, jobs, crossed>>
  BY DEF Redo, Looking
<1>3. Shape(tree) /\ Waiting(pending) /\ text \in Texts /\ touched \in BOOLEAN
  BY DEF IndInv, Typed
<1>4. RedoTarget(tr) \in 0..Len(tr.nodes)
  BY <1>3, ReconciledTree, RedoTargetIsNode
<1>5. Stay(tr) \/ (tr.current # 0 /\ \E target \in 0..Len(tr.nodes) : WalkTo(tr, target))
  BY <1>1, <1>4
<1> QED
  BY <1>2, <1>5, LookingKeeps

\* undo_tree_goto(), as a walk to some node, or none.
LEMMA GotoKeeps == IndInv /\ Goto => IndInv'
<1> SUFFICES ASSUME IndInv, Goto PROVE IndInv'
  OBVIOUS
<1>1. PICK tr \in Reconciled(tree, pending, text, touched) :
        IF tr.current = 0 THEN Stay(tr)
        ELSE Stay(tr) \/ \E n \in DOMAIN tr.nodes : WalkTo(tr, n)
  BY DEF Goto, Looking
<1>2. InBound /\ pending' = <<>> /\ touched' = FALSE /\ UNCHANGED <<writes, disk, jobs, crossed>>
  BY DEF Goto, Looking
<1>3. Shape(tree) /\ Waiting(pending) /\ text \in Texts /\ touched \in BOOLEAN
  BY DEF IndInv, Typed
<1>4. \A n \in DOMAIN tr.nodes : n \in 0..Len(tr.nodes)
  <2>1. Shape(tr)
    BY <1>3, ReconciledTree
  <2>2. DOMAIN tr.nodes = 1..Len(tr.nodes)
    BY <2>1, ShapeNumbers
  <2> QED
    BY <2>2
<1>5. Stay(tr) \/ (tr.current # 0 /\ \E target \in 0..Len(tr.nodes) : WalkTo(tr, target))
  BY <1>1, <1>4
<1> QED
  BY <1>2, <1>5, LookingKeeps

\* A reconciliation without a walk.
LEMMA InspectKeeps == IndInv /\ Inspect => IndInv'
<1> SUFFICES ASSUME IndInv, Inspect PROVE IndInv'
  OBVIOUS
<1>1. PICK tr \in Reconciled(tree, pending, text, touched) : Stay(tr)
  BY DEF Inspect, Looking
<1>2. InBound /\ pending' = <<>> /\ touched' = FALSE /\ UNCHANGED <<writes, disk, jobs, crossed>>
  BY DEF Inspect, Looking
<1> QED
  BY <1>1, <1>2, LookingKeeps

\* What replaces the buffer's lines takes its snapshot first: the trees it can leave,
\* and the snapshot.
LEMMA SwappedTree ==
  ASSUME IndInv, NEW t \in Texts, NEW tr \in Swapped(t)
  PROVE  /\ Shape(tr) /\ Waiting(Snapshot(t))
         /\ Stamps(tr) \subseteq Stamps(tree) \cup New
         /\ ~Windowed => /\ Holding(tr)
                         /\ Snapshot(t) = <<>> => OnText(tr, t)
                         /\ Snapshot(t) # <<>> => OnText(tr, Snapshot(t)[1].from)
<1> USE DEF IndInv
<1>1. /\ Shape(tree) /\ Waiting(pending) /\ text \in Texts
      /\ cursor \in Regions /\ TRUE \in BOOLEAN
  BY DEF Typed
<1>2. CASE t # text
  <2> DEFINE s == Capture(text, cursor, TRUE)
  <2>1. s \in States /\ s.from = text
    BY <1>1, CaptureIsState
  <2>2. Snapshot(t) = <<s>>
    BY <1>2 DEF Snapshot, BeforeSwap
  <2> HIDE DEF s
  <2>3. Snapshot(t) # <<>> /\ Snapshot(t)[1].from = text /\ Waiting(Snapshot(t))
    BY <2>1, <2>2 DEF Waiting
  <2>4. tr \in Reconciled(tree, pending, text, TRUE)
    BY <1>2 DEF Swapped
  <2>5. /\ Shape(tr)
        /\ Stamps(tr) \subseteq Stamps(tree) \cup New
        /\ /\ ~Windowed /\ Holding(tree)
           /\ pending = <<>> => OnText(tree, text)
           /\ pending # <<>> => OnText(tree, pending[1].from)
           => Holding(tr) /\ OnText(tr, text)
    BY <1>1, <2>4, ReconciledTree
  <2>6. ~Windowed => Holding(tr) /\ OnText(tr, text)
    BY <2>5 DEF Faithful
  <2> QED
    BY <2>3, <2>5, <2>6
<1>3. CASE t = text
  <2>1. tr = tree /\ Snapshot(t) = pending
    BY <1>3 DEF Swapped, Snapshot
  <2> QED
    BY <1>1, <1>3, <2>1 DEF Faithful
<1> QED
  BY <1>2, <1>3

\* undo_mark_saved(), after a write and after a formatter: the tree keeps its shape,
\* and the new stamp is on the text of the buffer.
LEMMA MarkSavedTree ==
  ASSUME IndInv, NEW t \in Texts, MarkSaved(t)
  PROVE  /\ Shape(tree')
         /\ \A x \in Stamps(tree') : x[1] <= writes'
         /\ ~Windowed => /\ Holding(tree') /\ OnText(tree', t)
                         /\ \A x \in Stamps(tree') : x[1] = writes' => x[2] = t
<1> USE DEF IndInv
<1> DEFINE moved == touched \/ t # text
           snap == Snapshot(t)
<1>1. Shape(tree) /\ writes \in Nat /\ moved \in BOOLEAN
  BY BoundAssumption DEF Typed
<1>2. writes' = writes + 1
  BY DEF MarkSaved
<1>3. PICK tr \in Swapped(t) : tree' \in Marked(tr, snap, t, moved)
  BY DEF MarkSaved
<1>4. /\ Shape(tr) /\ Waiting(snap)
      /\ Stamps(tr) \subseteq Stamps(tree) \cup New
      /\ ~Windowed => /\ Holding(tr)
                      /\ snap = <<>> => OnText(tr, t)
                      /\ snap # <<>> => OnText(tr, snap[1].from)
  BY SwappedTree
<1> HIDE DEF moved, snap
<1>5. \A n \in Marked(tr, snap, t, moved) :
        /\ Shape(n)
        /\ n.last <= tr.last + 1 + (IF tr.current = 0 THEN 1 ELSE 0)
        /\ Stamps(n) \subseteq Stamps(tr) \cup New \cup ({writes + 1} \X Texts)
        /\ /\ ~Windowed /\ Holding(tr)
           /\ snap = <<>> => OnText(tr, t)
           /\ snap # <<>> => OnText(tr, snap[1].from)
           => /\ Holding(n) /\ OnText(n, t)
              /\ Stamps(n) \subseteq Stamps(tr) \cup New \cup {<<writes + 1, t>>}
  BY <1>1, <1>4, MarkedTree
<1>6. /\ Shape(tree')
      /\ Stamps(tree') \subseteq Stamps(tree) \cup New \cup ({writes + 1} \X Texts)
      /\ ~Windowed => /\ Holding(tree') /\ OnText(tree', t)
                      /\ Stamps(tree') \subseteq Stamps(tree) \cup New \cup {<<writes + 1, t>>}
  BY <1>3, <1>4, <1>5
<1>7. \A x \in Stamps(tree) : x[1] \in Nat /\ x[1] <= writes
  BY <1>1, StampsAreNumbers DEF Typed
<1>8. \A x \in Stamps(tree') : x[1] <= writes'
  BY <1>1, <1>2, <1>6, <1>7 DEF New
<1>9. ASSUME ~Windowed, NEW x \in Stamps(tree'), x[1] = writes' PROVE x[2] = t
  <2>1. x \notin Stamps(tree)
    BY <1>1, <1>2, <1>7, <1>9
  <2>2. x \notin New
    BY <1>1, <1>2, <1>9 DEF New
  <2>3. x = <<writes + 1, t>>
    BY <1>6, <1>9, <2>1, <2>2
  <2> QED
    BY <2>3
<1> QED
  BY <1>6, <1>8, <1>9

\* A step that stamps the buffer keeps the invariant if it keeps track of what the
\* formatters and the file may differ in.
LEMMA MarkSavedKeeps ==
  ASSUME IndInv, NEW t \in Texts, MarkSaved(t), InBound, writes < MaxWrites,
         walked' = FALSE, cursor' = cursor, disk' \in Texts, crossed' \in BOOLEAN,
         jobs' \in Seq(Formatters), Len(jobs') <= MaxJobs,
         Alone', ~crossed' => t = disk'
  PROVE  IndInv'
<1>1. /\ Shape(tree')
      /\ \A x \in Stamps(tree') : x[1] <= writes'
      /\ ~Windowed => /\ Holding(tree') /\ OnText(tree', t)
                      /\ \A x \in Stamps(tree') : x[1] = writes' => x[2] = t
  BY MarkSavedTree
<1>2. /\ text' = t /\ pending' = <<>> /\ touched' = FALSE /\ modified' = FALSE
      /\ writes' = writes + 1
  BY DEF MarkSaved
<1>3. Typed'
  <2>1. writes' \in 0..MaxWrites /\ cursor' \in Regions
    BY <1>2, BoundAssumption DEF IndInv, Typed
  <2>2. Waiting(pending') /\ tree'.last <= MaxSeq
    BY <1>2 DEF Waiting, InBound
  <2> QED
    BY <1>1, <1>2, <2>1, <2>2 DEF Typed
<1>4. ASSUME ~Windowed PROVE Faithful'
  <2>1. StampOnDisk'
    BY <1>1, <1>4 DEF StampOnDisk
  <2> QED
    BY <1>1, <1>2, <1>4, <2>1 DEF Faithful
<1> QED
  BY <1>3, <1>4 DEF IndInv

\* A save: the cleanup with its snapshot, the write, and the stamp on what was reconciled.
LEMMA SaveKeeps == IndInv /\ Save => IndInv'
<1> SUFFICES ASSUME IndInv, Save PROVE IndInv'
  OBVIOUS
<1>1. /\ text \in Texts /\ disk \in Texts /\ cursor \in Regions
      /\ modified \in BOOLEAN /\ touched \in BOOLEAN /\ crossed \in BOOLEAN
      /\ writes \in 0..MaxWrites /\ jobs \in Seq(Formatters) /\ Len(jobs) <= MaxJobs
  BY DEF IndInv, Typed
<1>2. Cleaned \in Texts
  BY <1>1, CleanAssumption DEF Cleaned, Texts
<1>3. writes < MaxWrites /\ InBound /\ walked' = FALSE /\ cursor' = cursor
  BY DEF Save
<1>4. CASE /\ MarkSaved(Cleaned) /\ disk' = Cleaned
           /\ \/ jobs' = jobs
              \/ Len(jobs) < MaxJobs /\ jobs' = Append(jobs, Job("queued", <<>>))
           /\ crossed' = (jobs # <<>>)
  <2>1. Job("queued", <<>>) \in Formatters
    BY DEF Job, Formatters
  <2> DEFINE new == Job("queued", <<>>)
  <2>2. /\ jobs' \in Seq(Formatters) /\ Len(jobs') <= MaxJobs
        /\ jobs = <<>> => Len(jobs') <= 1 /\ \A k \in 1..Len(jobs') : jobs'[k] = new
    <3> HIDE DEF new
    <3>1. CASE jobs' = jobs
      BY <1>1, <3>1
    <3>2. CASE Len(jobs) < MaxJobs /\ jobs' = Append(jobs, new)
      <4>1. /\ jobs' \in Seq(Formatters) /\ Len(jobs') = Len(jobs) + 1
            /\ jobs'[Len(jobs) + 1] = new
        BY <1>1, <2>1, <3>2, AppendProperties DEF new
      <4>2. Len(jobs) \in Nat /\ (jobs = <<>> => Len(jobs) = 0)
        BY <1>1, LenProperties
      <4> QED
        BY <3>2, <4>1, <4>2, BoundAssumption
    <3> QED
      BY <1>4, <3>1, <3>2 DEF new
  <2>3. Alone'
    <3>1. new.stage = "queued"
      BY DEF Job
    <3> HIDE DEF new
    <3>2. ASSUME ~crossed' PROVE Len(jobs') <= 1 /\ \A k \in 1..Len(jobs') : jobs'[k] = new
      BY <1>4, <2>2, <3>2
    <3> QED
      BY <3>1, <3>2 DEF Alone
  <2>4. disk' \in Texts /\ crossed' \in BOOLEAN /\ Cleaned = disk'
    BY <1>2, <1>4
  <2> HIDE DEF new
  <2> QED
    BY <1>2, <1>3, <1>4, <2>2, <2>3, <2>4, MarkSavedKeeps
<1>5. CASE /\ tree' \in Swapped(Cleaned) /\ text' = Cleaned
           /\ pending' = Snapshot(Cleaned) /\ touched' = (touched \/ Cleaned # text)
           /\ UNCHANGED <<modified, writes, disk, jobs, crossed>>
  <2>1. /\ Shape(tree') /\ Waiting(Snapshot(Cleaned))
        /\ Stamps(tree') \subseteq Stamps(tree) \cup New
        /\ ~Windowed => /\ Holding(tree')
                        /\ Snapshot(Cleaned) = <<>> => OnText(tree', Cleaned)
                        /\ Snapshot(Cleaned) # <<>> => OnText(tree', Snapshot(Cleaned)[1].from)
    BY <1>2, <1>5, SwappedTree
  <2>2. \A x \in Stamps(tree') : x[1] <= writes'
    BY <1>1, <1>5, <2>1 DEF IndInv, Typed, New
  <2>3. Typed'
    <3>1. /\ text' \in Texts /\ disk' \in Texts /\ cursor' \in Regions
          /\ modified' \in BOOLEAN /\ touched' \in BOOLEAN /\ walked' \in BOOLEAN
          /\ crossed' \in BOOLEAN /\ writes' \in 0..MaxWrites
          /\ jobs' \in Seq(Formatters) /\ Len(jobs') <= MaxJobs
      BY <1>1, <1>2, <1>3, <1>5
    <3>2. tree'.last <= MaxSeq /\ Waiting(pending')
      BY <1>3, <1>5, <2>1 DEF InBound
    <3> QED
      BY <2>1, <2>2, <3>1, <3>2 DEF Typed
  <2>4. ASSUME ~Windowed PROVE Faithful'
    <3>1. StampOnDisk'
      BY <1>5, <2>1, <2>4, StampStays DEF IndInv, Faithful
    <3> QED
      BY <1>5, <2>1, <2>4, <3>1 DEF Faithful
  <2>5. Alone'
    BY <1>5, FormattersStay DEF IndInv
  <2> QED
    BY <2>3, <2>4, <2>5 DEF IndInv
<1> QED
  BY <1>4, <1>5 DEF Save

-----------------------------------------------------------------------------
(* The formatters *)

\* A formatter in another stage, among those that are under way.
LEMMA JobReplaced ==
  ASSUME jobs \in Seq(Formatters), NEW k \in 1..Len(jobs), NEW job \in Formatters,
         jobs' = [jobs EXCEPT ![k] = job]
  PROVE  /\ jobs' \in Seq(Formatters) /\ Len(jobs') = Len(jobs)
         /\ DOMAIN jobs = 1..Len(jobs) /\ DOMAIN jobs' = 1..Len(jobs)
         /\ \A l \in 1..Len(jobs) : jobs'[l] = IF l = k THEN job ELSE jobs[l]
<1>1. /\ jobs' \in Seq(Formatters) /\ Len(jobs') = Len(jobs)
      /\ \A l \in 1..Len(jobs) : jobs'[l] = IF l = k THEN job ELSE jobs[l]
  BY ExceptSeq
<1> QED
  BY <1>1, LenProperties

\* A formatter without its completion changes no more than itself and the file.
LEMMA WorksKeeps ==
  ASSUME IndInv, NEW k \in 1..Len(jobs), NEW job \in Formatters, Works(k, job),
         disk' \in Texts, Alone', StampOnDisk => StampOnDisk'
  PROVE  IndInv'
<1>1. jobs' \in Seq(Formatters) /\ Len(jobs') = Len(jobs)
  BY JobReplaced DEF Works, IndInv, Typed
<1>2. Typed'
  BY <1>1 DEF Works, IndInv, Typed, Waiting
<1>3. Faithful => Faithful'
  BY DEF Works, Faithful
<1> QED
  BY <1>2, <1>3 DEF IndInv

\* A job that is not one to land leaves what is claimed of the others.
LEMMA NotToLand ==
  ASSUME IndInv, NEW k \in 1..Len(jobs), NEW job \in Formatters, Works(k, job),
         jobs[k].stage = "queued", disk' = disk, job.stage = "busy" \/ job.text = <<>>
  PROVE  IndInv'
<1>1. /\ jobs \in Seq(Formatters) /\ jobs' = [jobs EXCEPT ![k] = job]
      /\ crossed' = crossed /\ writes' = writes /\ tree' = tree
  BY DEF Works, IndInv, Typed
<1>2. /\ Len(jobs') = Len(jobs)
      /\ DOMAIN jobs = 1..Len(jobs) /\ DOMAIN jobs' = 1..Len(jobs)
      /\ \A l \in 1..Len(jobs) : jobs'[l] = IF l = k THEN job ELSE jobs[l]
  BY <1>1, JobReplaced
<1>3. Alone'
  <2> SUFFICES ASSUME ~crossed'
               PROVE  /\ Len(jobs') <= 1
                      /\ \A l \in 1..Len(jobs') :
                           jobs'[l].stage = "done" /\ jobs'[l].text # <<>> => jobs'[l].text[1] = disk'
    BY DEF Alone
  <2>1. /\ Len(jobs) <= 1
        /\ \A l \in 1..Len(jobs) :
             jobs[l].stage = "done" /\ jobs[l].text # <<>> => jobs[l].text[1] = disk
    BY <1>1 DEF Alone, IndInv
  <2>2. ASSUME NEW l \in 1..Len(jobs), jobs'[l].stage = "done", jobs'[l].text # <<>>
        PROVE  jobs'[l].text[1] = disk'
    <3>1. l # k /\ jobs'[l] = jobs[l]
      BY <1>2, <2>2
    <3> QED
      BY <2>1, <2>2, <3>1
  <2> QED
    BY <1>2, <2>1, <2>2
<1>4. Unlanded => Unlanded'
  BY <1>2 DEF Unlanded
<1>5. StampOnDisk => StampOnDisk'
  BY <1>1, <1>4 DEF StampOnDisk
<1>6. disk' \in Texts
  BY DEF IndInv, Typed
<1> QED
  BY <1>3, <1>5, <1>6, WorksKeeps

\* Reading the file is not yet to change it.
LEMMA ReadsKeeps == ASSUME NEW k \in 1..Len(jobs) PROVE IndInv /\ Reads(k) => IndInv'
<1> SUFFICES ASSUME IndInv, Reads(k) PROVE IndInv'
  OBVIOUS
<1> DEFINE job == Job("busy", <<disk>>)
<1>1. job \in Formatters /\ job.stage = "busy"
  BY DEF Job, Formatters, IndInv, Typed
<1>2. Works(k, job) /\ jobs[k].stage = "queued" /\ disk' = disk
  BY DEF Reads
<1> HIDE DEF job
<1> QED
  BY <1>1, <1>2, NotToLand

\* A formatter that failed has nothing to land.
LEMMA FormatFailsKeeps == ASSUME NEW k \in 1..Len(jobs) PROVE IndInv /\ FormatFails(k) => IndInv'
<1> SUFFICES ASSUME IndInv, FormatFails(k) PROVE IndInv'
  OBVIOUS
<1> DEFINE job == Job("done", <<>>)
<1>1. job \in Formatters /\ job.text = <<>>
  BY DEF Job, Formatters
<1>2. Works(k, job) /\ jobs[k].stage = "queued" /\ disk' = disk
  BY DEF FormatFails
<1> HIDE DEF job
<1> QED
  BY <1>1, <1>2, NotToLand

\* While a formatter has something to land, no stamp is claimed to be on disk.
LEMMA ToLand ==
  ASSUME IndInv, NEW k \in 1..Len(jobs), NEW job \in Formatters, Works(k, job),
         disk' \in Texts, job.stage \in {"rewritten", "done"}, job.text # <<>>,
         job.stage = "done" => job.text[1] = disk'
  PROVE  IndInv'
<1>1. /\ jobs \in Seq(Formatters) /\ jobs' = [jobs EXCEPT ![k] = job]
      /\ crossed' = crossed
  BY DEF Works, IndInv, Typed
<1>2. /\ Len(jobs') = Len(jobs) /\ Len(jobs) \in Nat
      /\ DOMAIN jobs = 1..Len(jobs) /\ DOMAIN jobs' = 1..Len(jobs)
      /\ \A l \in 1..Len(jobs) : jobs'[l] = IF l = k THEN job ELSE jobs[l]
  BY <1>1, JobReplaced, LenProperties
<1>3. Alone'
  <2> SUFFICES ASSUME ~crossed'
               PROVE  /\ Len(jobs') <= 1
                      /\ \A l \in 1..Len(jobs') :
                           jobs'[l].stage = "done" /\ jobs'[l].text # <<>> => jobs'[l].text[1] = disk'
    BY DEF Alone
  <2>1. Len(jobs) <= 1
    BY <1>1 DEF Alone, IndInv
  <2>2. \A l \in 1..Len(jobs') : l = k /\ jobs'[l] = job
    BY <1>2, <2>1
  <2> QED
    BY <1>2, <2>1, <2>2
<1>4. Unlanded'
  BY <1>2 DEF Unlanded
<1>5. StampOnDisk'
  BY <1>4 DEF StampOnDisk
<1> QED
  BY <1>3, <1>5, WorksKeeps

\* The formatter rewrites the file.
LEMMA FormatsKeeps == ASSUME NEW k \in 1..Len(jobs) PROVE IndInv /\ Formats(k) => IndInv'
<1> SUFFICES ASSUME IndInv, Formats(k) PROVE IndInv'
  OBVIOUS
<1> DEFINE job == [jobs[k] EXCEPT !.stage = "rewritten"]
<1>1. jobs[k] \in Formatters /\ jobs[k].stage = "busy"
  BY ElementOfSeq DEF Formats, IndInv, Typed
<1>2. PICK t \in Texts : jobs[k].text = <<t>>
  BY <1>1 DEF Formatters
<1>3. job \in Formatters /\ job.stage = "rewritten" /\ job.text = <<t>> /\ <<t>> # <<>>
  BY <1>1, <1>2 DEF Formatters
<1>4. Works(k, job) /\ disk' = [r \in Regions |-> Format(t[r])]
  BY <1>2 DEF Formats
<1>5. disk' \in Texts
  BY <1>4, FormatAssumption DEF Texts
<1> HIDE DEF job
<1> QED
  BY <1>3, <1>4, <1>5, ToLand

\* The worker reads back what the file holds.
LEMMA ReadsAgainKeeps == ASSUME NEW k \in 1..Len(jobs) PROVE IndInv /\ ReadsAgain(k) => IndInv'
<1> SUFFICES ASSUME IndInv, ReadsAgain(k) PROVE IndInv'
  OBVIOUS
<1> DEFINE job == Job("done", <<disk>>)
<1>1. /\ job \in Formatters /\ job.stage = "done"
      /\ job.text # <<>> /\ job.text[1] = disk
  BY DEF Job, Formatters, IndInv, Typed
<1>2. Works(k, job) /\ disk' = disk /\ disk' \in Texts
  BY DEF ReadsAgain, IndInv, Typed
<1> HIDE DEF job
<1> QED
  BY <1>1, <1>2, ToLand

\* What RemoveAt leaves of a sequence is one, and shorter.
LEMMA RemoveAtType ==
  ASSUME NEW S, NEW s \in Seq(S), NEW k \in 1..Len(s)
  PROVE  RemoveAt(s, k) \in Seq(S) /\ Len(RemoveAt(s, k)) = Len(s) - 1
<1> DEFINE a == SubSeq(s, 1, k - 1)
           c == SubSeq(s, k + 1, Len(s))
<1>1. Len(s) \in Nat /\ \A i \in 1..Len(s) : s[i] \in S
  BY LenProperties, ElementOfSeq
<1>2. a \in Seq(S) /\ Len(a) = k - 1
  <2>1. \A i \in 1..(k - 1) : s[i] \in S
    BY <1>1
  <2> QED
    BY <1>1, <2>1, SubSeqProperties
<1>3. c \in Seq(S) /\ Len(c) = Len(s) - k
  <2>1. \A i \in (k + 1)..Len(s) : s[i] \in S
    BY <1>1
  <2> QED
    BY <1>1, <2>1, SubSeqProperties
<1>4. RemoveAt(s, k) = a \o c
  BY DEF RemoveAt
<1> HIDE DEF a, c
<1>5. a \o c \in Seq(S) /\ Len(a \o c) = Len(a) + Len(c)
  BY <1>2, <1>3, ConcatProperties
<1> QED
  BY <1>1, <1>2, <1>3, <1>4, <1>5

\* The completion stamps what the formatter left on disk, if it was alone; or what
\* the buffer holds, and that is what is on disk unless it was edited since.
LEMMA LandFormatKeeps == ASSUME NEW k \in 1..Len(jobs) PROVE IndInv /\ LandFormat(k) => IndInv'
<1> SUFFICES ASSUME IndInv, LandFormat(k) PROVE IndInv'
  OBVIOUS
<1> DEFINE t == IF jobs[k].text = <<>> THEN text ELSE jobs[k].text[1]
<1>1. /\ writes < MaxWrites /\ jobs[k].stage = "done" /\ MarkSaved(t) /\ InBound
      /\ jobs' = RemoveAt(jobs, k)
      /\ crossed' = (crossed \/ (jobs[k].text = <<>> /\ text # disk))
      /\ walked' = FALSE /\ cursor' = cursor /\ disk' = disk
  BY DEF LandFormat
<1>2. /\ jobs \in Seq(Formatters) /\ Len(jobs) <= MaxJobs /\ text \in Texts /\ disk \in Texts
      /\ crossed \in BOOLEAN /\ Alone
  BY DEF IndInv, Typed
<1>3. jobs[k] \in Formatters
  BY <1>2, ElementOfSeq
<1>4. t \in Texts
  BY <1>2, <1>3 DEF Formatters
<1>5. /\ jobs' \in Seq(Formatters) /\ Len(jobs) \in Nat
      /\ Len(jobs') = Len(jobs) - 1 /\ Len(jobs') <= MaxJobs
  BY <1>1, <1>2, RemoveAtType, LenProperties, BoundAssumption
<1>6. crossed' \in BOOLEAN /\ disk' \in Texts
  BY <1>1, <1>2
<1>7. ASSUME ~crossed' PROVE t = disk' /\ Len(jobs') = 0
  <2>1. ~crossed /\ (jobs[k].text = <<>> => text = disk)
    BY <1>1, <1>7
  <2>2. Len(jobs) <= 1 /\ (jobs[k].text # <<>> => jobs[k].text[1] = disk)
    BY <1>1, <1>2, <2>1 DEF Alone
  <2> QED
    BY <1>1, <1>5, <2>1, <2>2
<1>8. Alone'
  BY <1>7 DEF Alone
<1> HIDE DEF t
<1> QED
  BY <1>1, <1>4, <1>5, <1>6, <1>7, <1>8, MarkSavedKeeps

\* The inductive invariant.
THEOREM Invariance == Spec => []IndInv
<1>1. Init => IndInv
  BY InitHolds
<1>2. IndInv /\ [Next]_vars => IndInv'
  <2> SUFFICES ASSUME IndInv, [Next]_vars PROVE IndInv'
    OBVIOUS
  <2>1. CASE Move
    BY <2>1, MoveKeeps
  <2>2. CASE Command
    BY <2>2, CommandKeeps
  <2>3. CASE Save
    BY <2>3, SaveKeeps
  <2>4. CASE Undo
    BY <2>4, UndoKeeps
  <2>5. CASE Redo
    BY <2>5, RedoKeeps
  <2>6. CASE Inspect
    BY <2>6, InspectKeeps
  <2>7. CASE Clear
    BY <2>7, ClearKeeps
  <2>8. CASE Goto
    BY <2>8, GotoKeeps
  <2>9. ASSUME NEW k \in DOMAIN jobs,
               \/ Reads(k) \/ Formats(k) \/ FormatFails(k) \/ ReadsAgain(k) \/ LandFormat(k)
        PROVE  IndInv'
    <3>1. k \in 1..Len(jobs)
      BY LenProperties DEF IndInv, Typed
    <3> QED
      BY <2>9, <3>1, ReadsKeeps, FormatsKeeps, FormatFailsKeeps, ReadsAgainKeeps, LandFormatKeeps
  <2>10. CASE UNCHANGED vars
    <3>1. Typed' /\ Alone'
      BY <2>10, FormattersStay DEF vars, IndInv, Typed, Waiting
    <3>2. Faithful => Faithful'
      BY <2>10, StampStays DEF vars, IndInv, Faithful
    <3> QED
      BY <3>1, <3>2 DEF IndInv
  <2> QED
    BY <2>1, <2>2, <2>3, <2>4, <2>5, <2>6, <2>7, <2>8, <2>9, <2>10 DEF Next
<1> QED
  BY <1>1, <1>2, PTL DEF Spec

-----------------------------------------------------------------------------
(* What TLC checks *)

\* The types, whatever the snapshots hold and the trimming drops.
THEOREM TypeCorrect == Spec => []TypeOK
<1>1. IndInv => TypeOK
  <2> SUFFICES ASSUME IndInv PROVE TypeOK
    OBVIOUS
  <2>1. Typed /\ Shape(tree)
    BY DEF IndInv, Typed
  <2>2. /\ tree.current \in 0..Len(tree.nodes) /\ tree.last \in Nat /\ tree.last <= MaxSeq
        /\ Len(tree.nodes) \in Nat /\ DOMAIN tree.nodes = 1..Len(tree.nodes)
    BY <2>1, ShapeNumbers DEF Typed
  <2>3. ASSUME NEW i \in 1..Len(tree.nodes) PROVE NodeOK(tree.nodes[i])
    <3> DEFINE n == tree.nodes[i]
    <3>1. n \in Nodes /\ 1 <= n.seq /\ n.seq <= tree.last /\ Len(n.state) <= 1
      BY <2>1, ShapeNumbers DEF Shape
    <3>2. n.parent \in Nat /\ n.parent < i
      BY <2>1, <3>1 DEF Shape, Rooted, Nodes
    <3>3. n.saved <= writes
      <4> DEFINE x == <<n.saved, n.held>>
      <4>1. x \in Stamps(tree)
        BY DEF Stamps
      <4>2. x[1] = n.saved
        OBVIOUS
      <4>3. x[1] <= writes
        BY <2>1, <4>1 DEF Typed
      <4> HIDE DEF x, n
      <4> QED
        BY <4>2, <4>3
    <3>4. n.seq \in Nat /\ n.saved \in Nat /\ n.state \in Seq(States) /\ n.held \in Texts
      BY <3>1 DEF Nodes
    <3> HIDE DEF n
    <3>5. n.state = <<>> \/ (Len(n.state) = 1 /\ n.state[1] \in States)
      <4>1. Len(n.state) \in Nat
        BY <3>4, LenProperties
      <4>2. Len(n.state) = 0 => n.state = <<>>
        BY <3>4, EmptySeq
      <4>3. Len(n.state) = 1 => n.state[1] \in States
        BY <3>4, ElementOfSeq
      <4>4. Len(n.state) = 0 \/ Len(n.state) = 1
        <5> DEFINE l == Len(n.state)
        <5>1. l \in Nat /\ l <= 1
          BY <3>1, <4>1
        <5> HIDE DEF l
        <5>2. l = 0 \/ l = 1
          BY <5>1
        <5> QED
          BY <5>2 DEF l
      <4> QED
        BY <4>2, <4>3, <4>4
    <3>6. n.parent \in 0..Len(tree.nodes)
      BY <2>2, <3>2
    <3>7. n.seq \in 1..MaxSeq
      BY <2>2, <3>1, <3>4, BoundAssumption
    <3>8. n.saved \in 0..writes
      BY <2>1, <3>3, <3>4 DEF Typed
    <3> QED
      BY <3>4, <3>5, <3>6, <3>7, <3>8 DEF NodeOK, n
  <2>4. pending = <<>> \/ (Len(pending) = 1 /\ pending[1] \in States)
    BY <2>1 DEF Typed, Waiting
  <2>5. tree.last \in 0..MaxSeq
    BY <2>2, BoundAssumption
  <2>6. ASSUME NEW k \in DOMAIN jobs PROVE JobOK(jobs[k])
    <3>1. jobs[k] \in Formatters
      BY <2>1, ElementOfSeq, LenProperties DEF Typed
    <3> QED
      BY <3>1 DEF Formatters, JobOK
  <2> QED
    BY <2>1, <2>2, <2>3, <2>4, <2>5, <2>6 DEF TypeOK, Typed
<1> QED
  BY <1>1, Invariance, PTL

\* Whatever is trimmed, and whatever a snapshot holds, the history stays one tree.
THEOREM HistoryStaysATree == Spec => []TreeShape
<1>1. IndInv => TreeShape
  <2> SUFFICES ASSUME IndInv PROVE TreeShape
    OBVIOUS
  <2>1. Shape(tree)
    BY DEF IndInv, Typed
  <2>2. Len(tree.nodes) \in Nat /\ DOMAIN tree.nodes = 1..Len(tree.nodes)
    BY <2>1, ShapeNumbers
  <2>3. ASSUME NEW i \in 1..Len(tree.nodes), NEW j \in 1..(i - 1)
        PROVE  tree.nodes[j].seq < tree.nodes[i].seq
    <3>1. j \in 1..Len(tree.nodes) /\ j < i
      BY <2>2
    <3> QED
      BY <2>1, <3>1 DEF Shape
  <2> QED
    BY <2>1, <2>2, <2>3 DEF TreeShape, Shape, Rooted
<1> QED
  BY <1>1, Invariance, PTL

\* While snapshots are full, the buffer is what the node in front reached,
\* whatever was walked, trimmed and saved in between.
THEOREM Restores ==
  ASSUME ~Windowed
  PROVE  Spec => []RestoresWhatItReached
<1>1. IndInv => RestoresWhatItReached
  BY DEF IndInv, Faithful, OnText, RestoresWhatItReached, InFront
<1> QED
  BY <1>1, Invariance, PTL

\* While snapshots are full, every state on the way of a walk is there to be
\* restored, and is what its node reached.
THEOREM StatesHold ==
  ASSUME ~Windowed
  PROVE  Spec => []StatesHoldWhatTheyReached
<1>1. IndInv => StatesHoldWhatTheyReached
  <2> SUFFICES ASSUME IndInv PROVE StatesHoldWhatTheyReached
    OBVIOUS
  <2>1. Shape(tree) /\ Holding(tree)
    BY DEF IndInv, Typed, Faithful
  <2>2. DOMAIN tree.nodes = 1..Len(tree.nodes) /\ Rooted(tree.nodes)
    BY <2>1, ShapeNumbers DEF Shape
  <2>3. ASSUME NEW i \in 1..Len(tree.nodes), Known(tree.nodes[i])
        PROVE  tree.nodes[i].state[1].part =
                 Restrict(tree.nodes[i].held, DOMAIN tree.nodes[i].state[1].part)
    <3> DEFINE s == tree.nodes[i].state[1]
    <3>1. s \in States /\ s.from = tree.nodes[i].held
      BY <2>1, <2>2, <2>3, NodeStates DEF Holding
    <3> HIDE DEF s
    <3>2. s.part = [r \in DOMAIN s.part |-> s.from[r]]
      <4>1. PICK t \in Texts, c \in Regions, m \in BOOLEAN : s = Capture(t, c, m)
        BY <3>1 DEF States
      <4>2. s.part = [r \in IF Windowed THEN {c} ELSE Regions |-> t[r]] /\ s.from = t
        BY <4>1 DEF Capture
      <4> QED
        BY <4>2
    <3> QED
      BY <3>1, <3>2 DEF Restrict, s
  <2>4. pending # <<>> /\ tree.current # 0 => pending[1].from = InFront.held
    BY DEF IndInv, Faithful, OnText, InFront
  <2> QED
    BY <2>1, <2>2, <2>3, <2>4 DEF StatesHoldWhatTheyReached, Holding
<1> QED
  BY <1>1, Invariance, PTL

\* While snapshots are full, a state that carries the last write's stamp is what is
\* on disk: whatever was typed, walked and trimmed while the formatter ran, once its
\* result has landed, as long as no save came over it and it did not fail on a buffer
\* that was edited since.
THEOREM StampIsOnDisk ==
  ASSUME ~Windowed
  PROVE  Spec => []LastWriteStampIsOnDisk
<1>1. IndInv => LastWriteStampIsOnDisk
  <2> SUFFICES ASSUME IndInv PROVE LastWriteStampIsOnDisk
    OBVIOUS
  <2>1. DOMAIN tree.nodes = 1..Len(tree.nodes)
    BY ShapeNumbers DEF IndInv, Typed
  <2>2. ~crossed /\ ~Unlanded =>
          \A x \in Stamps(tree) : writes > 0 /\ x[1] = writes => x[2] = disk
    BY DEF IndInv, Faithful, StampOnDisk
  <2>3. ASSUME ~crossed, ~Unlanded,
               NEW i \in 1..Len(tree.nodes), writes > 0, tree.nodes[i].saved = writes
        PROVE  tree.nodes[i].held = disk
    <3> DEFINE x == <<tree.nodes[i].saved, tree.nodes[i].held>>
    <3>1. x \in Stamps(tree)
      BY DEF Stamps
    <3>2. x[1] = writes /\ x[2] = tree.nodes[i].held
      BY <2>3
    <3> HIDE DEF x
    <3> QED
      BY <2>2, <2>3, <3>1, <3>2
  <2> QED
    BY <2>1, <2>3 DEF LastWriteStampIsOnDisk
<1> QED
  BY <1>1, Invariance, PTL

\* An undo that walks changes the text, unless it lands on the oldest state kept.
\* This needs no full snapshots: where it goes is what the buffer does not hold.
THEOREM UndoIsReal == Spec => UndoReachesARealEdit
<1>1. ASSUME IndInv, Undo, walked'
      PROVE  text' # text \/ Head(tree'.nodes).seq = tree'.nodes[tree'.current].seq
  <2>1. PICK tr \in Reconciled(tree, pending, text, touched) :
          /\ Shape(tr)
          /\ Stay(tr) \/ (tr.current # 0 /\ UndoTarget(tr) \in 0..Len(tr.nodes) /\ WalkTo(tr, UndoTarget(tr)))
    BY <1>1, UndoLooks
  <2>2. ~Stay(tr)
    BY <1>1 DEF Stay
  <2> DEFINE u == UndoTarget(tr)
  <2>3. \/ u = 0
        \/ /\ u \in 1..Len(tr.nodes)
           /\ \/ u = 1
              \/ ~Known(tr.nodes[u])
              \/ ~SameContent(text, tr.nodes[u].state[1])
    BY <2>1, <2>2, UndoTargetStops
  <2>4. text \in Texts /\ cursor \in Regions /\ modified \in BOOLEAN
    BY <1>1 DEF IndInv, Typed
  <2> HIDE DEF u
  <2>5. /\ Shape(tree')
        /\ u # 0 /\ Known(tr.nodes[u])
        /\ SameContent(text', tr.nodes[u].state[1])
        /\ u = 1 => tree'.current = 1
    BY <1>1, <2>1, <2>2, <2>4, WalkKeeps DEF u
  <2>6. CASE u = 1
    <3>1. tree'.current = 1
      BY <2>5, <2>6
    <3>2. tree'.nodes \in Seq(Nodes) /\ tree'.nodes # <<>>
      BY <2>5, <3>1, ShapeNumbers DEF Shape
    <3>3. Head(tree'.nodes) = tree'.nodes[1]
      BY <3>2, HeadTailProperties
    <3> QED
      BY <3>1, <3>3
  <2>7. CASE u # 1
    BY <2>3, <2>5, <2>7
  <2> QED
    BY <2>6, <2>7
<1>2. IndInv /\ [Next]_vars =>
        [walked' /\ text' = text /\ Undo => Head(tree'.nodes).seq = tree'.nodes[tree'.current].seq]_vars
  BY <1>1
<1> QED
  BY <1>2, Invariance, PTL DEF Spec, UndoReachesARealEdit
=============================================================================
