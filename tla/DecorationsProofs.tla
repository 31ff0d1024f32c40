------------------------- MODULE DecorationsProofs -------------------------
(***************************************************************************)
(* That marks are never moved by another edit than those made since they   *)
(* were set, that undoing an edit takes an anchor back where it was, and   *)
(* that no mark overtakes another that leans its way, for any texts and    *)
(* any number of marks.  The first as long as frames keep up with keys and *)
(* a log does not grow under its colours.                                  *)
(*                                                                         *)
(* The argument: whoever sets a mark finds the kept text to be the         *)
(* buffer's or no text at all, either because it absorbed the window       *)
(* itself or because a frame did since the last edit.                      *)
(***************************************************************************)
EXTENDS Decorations, FiniteSetTheorems, SequenceTheorems, WellFoundedInduction, TLAPS

\* A sequence, of whatever it is made of.
IsSeq(ms) == ms \in Seq({ms[i] : i \in DOMAIN ms})

\* A mark is at an offset of a text, or past its end, and says so by the row the
\* offset is in.
IsAt(m, t, o) == o \in Nat /\ m.row = RowOf(t, o) /\ m.col = ColOf(t, o)

\* A mark whose position is meant in a text, wherever it is.
MarkIn(m, t) ==
  /\ {"row", "col", "right", "of"} \subseteq DOMAIN m
  /\ m.row \in Nat /\ m.col \in Nat /\ m.right \in BOOLEAN
  /\ m.of = t

AllOf(ms, t) == \A i \in DOMAIN ms : MarkIn(ms[i], t)

\* What is kept, for a buffer with a text.
Sound(s, t) ==
  /\ s = [marks |-> s.marks, base |-> s.base, dirty |-> s.dirty]
  /\ s.dirty \in BOOLEAN
  /\ s.base \in Texts \cup {None}
  /\ IsSeq(s.marks)
  /\ s.dirty /\ s.base # None => AllOf(s.marks, s.base)
  /\ ~(s.dirty /\ s.base # None) => AllOf(s.marks, t)
  /\ ~s.dirty /\ s.base # None => s.base = t
  /\ ~s.dirty /\ s.marks = <<>> => s.base = None

IndInv ==
  /\ text \in Texts
  /\ edited \in BOOLEAN
  /\ Sound(State, text)
  /\ ~edited => base \in {None, text}

-----------------------------------------------------------------------------
(* Sequences *)

\* A sequence of a set is one in the sense used here.
LEMMA SeqOfItself ==
  ASSUME NEW S, NEW r \in Seq(S)
  PROVE  IsSeq(r) /\ \A i \in DOMAIN r : r[i] \in S
BY DEF IsSeq

\* No marks: nothing to show.
LEMMA EmptyIsSeq == IsSeq(<<>>) /\ \A t : AllOf(<<>>, t)
BY DEF IsSeq, AllOf

\* What is in a list after an insertion is the new mark or was there.
LEMMA InsertKeeps ==
  ASSUME NEW ms, IsSeq(ms), NEW k \in 1..(Len(ms) + 1), NEW e
  PROVE  /\ IsSeq(InsertAt(ms, k, e))
         /\ InsertAt(ms, k, e) # <<>>
         /\ \A i \in DOMAIN InsertAt(ms, k, e) :
              InsertAt(ms, k, e)[i] = e \/ \E j \in DOMAIN ms : InsertAt(ms, k, e)[i] = ms[j]
<1> DEFINE S == {ms[i] : i \in DOMAIN ms} \cup {e}
           a == SubSeq(ms, 1, k - 1)
           b == <<e>>
           c == SubSeq(ms, k, Len(ms))
<1>1. ms \in Seq(S) /\ Len(ms) \in Nat /\ DOMAIN ms = 1..Len(ms)
  BY DEF IsSeq
<1>2. a \in Seq(S)
  BY <1>1, SubSeqProperties
<1>3. c \in Seq(S)
  BY <1>1, SubSeqProperties
<1>4. b \in Seq(S) /\ Len(b) = 1
  OBVIOUS
<1> HIDE DEF a, b, c, S
<1>5. a \o b \in Seq(S) /\ Len(a \o b) = Len(a) + 1
  BY <1>2, <1>4, ConcatProperties
<1>6. (a \o b) \o c \in Seq(S) /\ Len((a \o b) \o c) = Len(a \o b) + Len(c)
  BY <1>3, <1>5, ConcatProperties, Zenon
<1>7. Len(a) \in Nat /\ Len(c) \in Nat
  BY <1>2, <1>3
<1>8. InsertAt(ms, k, e) = (a \o b) \o c
  BY DEF InsertAt, a, b, c
<1>9. (a \o b) \o c # <<>>
  BY <1>5, <1>6, <1>7
<1>10. /\ IsSeq(InsertAt(ms, k, e))
       /\ \A i \in DOMAIN InsertAt(ms, k, e) : InsertAt(ms, k, e)[i] \in S
  BY <1>6, <1>8, SeqOfItself
<1>11. \A x \in S : x = e \/ \E j \in DOMAIN ms : x = ms[j]
  BY DEF S
<1> QED
  BY <1>8, <1>9, <1>10, <1>11

\* What is in a list after a removal was there.
LEMMA RemoveKeeps ==
  ASSUME NEW ms, IsSeq(ms), NEW k \in 1..Len(ms)
  PROVE  /\ IsSeq(RemoveAt(ms, k))
         /\ \A i \in DOMAIN RemoveAt(ms, k) : \E j \in DOMAIN ms : RemoveAt(ms, k)[i] = ms[j]
<1> DEFINE S == {ms[i] : i \in DOMAIN ms}
           a == SubSeq(ms, 1, k - 1)
           c == SubSeq(ms, k + 1, Len(ms))
<1>1. ms \in Seq(S) /\ Len(ms) \in Nat /\ DOMAIN ms = 1..Len(ms)
  BY DEF IsSeq
<1>2. a \in Seq(S)
  BY <1>1, SubSeqProperties
<1>3. c \in Seq(S)
  BY <1>1, SubSeqProperties
<1> HIDE DEF a, c, S
<1>4. a \o c \in Seq(S)
  BY <1>2, <1>3, ConcatProperties
<1>5. RemoveAt(ms, k) = a \o c
  BY DEF RemoveAt, a, c
<1>6. /\ IsSeq(RemoveAt(ms, k))
      /\ \A i \in DOMAIN RemoveAt(ms, k) : RemoveAt(ms, k)[i] \in S
  BY <1>4, <1>5, SeqOfItself
<1>7. \A x \in S : \E j \in DOMAIN ms : x = ms[j]
  BY DEF S
<1> QED
  BY <1>6, <1>7

\* The first place at which something holds is one at which it holds.
LEMMA LeastIsIn ==
  ASSUME NEW T \in SUBSET Nat, T # {}
  PROVE  Min(T) \in T /\ \A y \in T : Min(T) <= y
<1>1. PICK x \in T : \A y \in T : <<y, x>> \notin OpToRel(<, Nat)
  BY WFMin, NatLessThanWellFounded
<1>2. ASSUME NEW y \in T, ~(x =< y)
      PROVE  FALSE
  <2>1. <<y, x>> \in Nat \X Nat /\ y < x
    BY <1>2
  <2>2. <<y, x>> \in OpToRel(<, Nat)
    BY <2>1 DEF OpToRel
  <2> QED
    BY <1>1, <2>2
<1> QED
  BY <1>2 DEF Min

\* So is the last, if there is one.
LEMMA GreatestIsIn ==
  ASSUME NEW n \in Nat, NEW T \in SUBSET (0..n), T # {}
  PROVE  Max(T) \in T /\ \A y \in T : y <= Max(T)
<1> DEFINE R == {x \in Nat : x <= n /\ n - x \in T}
<1>1. \A y \in T : n - y \in R
  OBVIOUS
<1>2. R \in SUBSET Nat /\ R # {}
  BY <1>1
<1>3. PICK x \in R : \A y \in R : x <= y
  <2> HIDE DEF R
  <2> QED BY <1>2, LeastIsIn
<1>4. n - x \in T /\ \A y \in T : y <= n - x
  BY <1>1, <1>3
<1>5. \E z \in T : \A y \in T : z >= y
  BY <1>4
<1> QED
  BY <1>5 DEF Max

-----------------------------------------------------------------------------
(* Positions *)

\* A text is a bounded sequence of characters and line ends.
LEMMA TextIsSeq ==
  ASSUME NEW t \in Texts
  PROVE  Len(t) \in 0..MaxLen /\ DOMAIN t = 1..Len(t) /\ t \in Seq(Chars \cup {NL})
BY DecorationsAssumption DEF Texts

\* The lines that start up to an offset.
Upto(t, o) == {s \in Starts(t) : s <= o}

\* The first row starts at 0, and a text has finitely many rows.
LEMMA StartsAreFew ==
  ASSUME NEW t \in Texts
  PROVE  /\ Starts(t) \subseteq 0..Len(t) /\ 0 \in Starts(t)
         /\ \A S \in SUBSET Starts(t) : IsFiniteSet(S) /\ Cardinality(S) \in Nat
<1>1. Len(t) \in Nat /\ Starts(t) \subseteq 0..Len(t) /\ 0 \in Starts(t)
  BY TextIsSeq DEF Starts
<1>2. IsFiniteSet(0..Len(t))
  BY <1>1, FS_Interval
<1> QED
  BY <1>1, <1>2, FS_Subset, FS_CardinalityType

\* The line an offset is in starts at the last start up to it; what is past the
\* end is in the last one.
LEMMA RowStart ==
  ASSUME NEW t \in Texts, NEW o \in Nat
  PROVE  /\ RowOf(t, o) \in 0..(Rows(t) - 1)
         /\ StartOf(t, RowOf(t, o)) = Max(Upto(t, o))
         /\ Max(Upto(t, o)) \in 0..o
<1> DEFINE s == Max(Upto(t, o))
<1>0. Len(t) \in Nat /\ o \in Nat
  BY TextIsSeq
<1>1. Upto(t, o) \subseteq 0..o /\ 0 \in Upto(t, o) /\ Upto(t, o) \subseteq Starts(t)
  BY <1>0, StartsAreFew DEF Upto
<1>2. s \in Upto(t, o) /\ \A y \in Upto(t, o) : y <= s
  BY <1>0, <1>1, GreatestIsIn
<1>3. s \in 0..o /\ s \in Starts(t)
  BY <1>1, <1>2
<1> DEFINE before(x) == {r \in Starts(t) : r < x}
<1>4. Upto(t, o) = before(s) \cup {s} /\ s \notin before(s)
  <2> HIDE DEF s
  <2> QED BY <1>0, <1>2, <1>3, StartsAreFew DEF Upto
<1>5. \A x \in Starts(t) : IsFiniteSet(before(x)) /\ Cardinality(before(x)) \in Nat
  BY StartsAreFew
<1>6. Cardinality(Upto(t, o)) = Cardinality(before(s)) + 1
  <2> HIDE DEF s, before
  <2> QED BY <1>3, <1>4, <1>5, FS_AddElement
<1>7. RowOf(t, o) = Cardinality(before(s))
  <2>1. RowOf(t, o) = Cardinality(Upto(t, o)) - 1
    BY DEF RowOf, Upto
  <2>2. Cardinality(before(s)) \in Nat
    BY <1>3, <1>5
  <2> HIDE DEF s, before
  <2> QED BY <1>6, <2>1, <2>2
<1>8. Cardinality(Upto(t, o)) <= Rows(t) /\ Rows(t) \in Nat
  BY <1>1, StartsAreFew, FS_Subset DEF Rows
<1>9. \A x, y \in Starts(t) : x < y => Cardinality(before(x)) < Cardinality(before(y))
  <2> SUFFICES ASSUME NEW x \in Starts(t), NEW y \in Starts(t), x < y
               PROVE  Cardinality(before(x)) < Cardinality(before(y))
    OBVIOUS
  <2>1. before(x) \subseteq before(y) /\ x \in before(y) /\ x \notin before(x)
    BY <1>0, StartsAreFew
  <2>2. IsFiniteSet(before(y)) /\ Cardinality(before(y)) \in Nat /\ Cardinality(before(x)) \in Nat
    BY <1>5
  <2> HIDE DEF before
  <2> QED BY <2>1, <2>2, FS_Subset
<1>10. ASSUME NEW x \in Starts(t), Cardinality(before(x)) = RowOf(t, o)
       PROVE  x = s
  <2>1. x \in Nat /\ s \in Nat
    BY <1>0, <1>3, StartsAreFew
  <2>2. /\ x < s => Cardinality(before(x)) < Cardinality(before(s))
        /\ s < x => Cardinality(before(s)) < Cardinality(before(x))
    BY <1>3, <1>9
  <2>3. Cardinality(before(x)) \in Nat /\ Cardinality(before(s)) \in Nat
    BY <1>3, <1>5
  <2> HIDE DEF s, before
  <2> QED BY <1>7, <1>10, <2>1, <2>2, <2>3
<1>11. StartOf(t, RowOf(t, o)) = s
  <2> HIDE DEF s
  <2> QED BY <1>3, <1>7, <1>10 DEF StartOf
<1> QED
  <2> HIDE DEF s, before
  <2>1. Cardinality(before(s)) \in Nat
    BY <1>3, <1>5
  <2> QED BY <1>3, <1>6, <1>7, <1>8, <1>11, <2>1 DEF s

\* Every row has a start, with as many starts before it as there are rows.
LEMMA RowHasStart ==
  ASSUME NEW t \in Texts, NEW row \in Nat, row < Rows(t)
  PROVE  /\ StartOf(t, row) \in Starts(t)
         /\ Cardinality({r \in Starts(t) : r < StartOf(t, row)}) = row
<1> DEFINE S == Starts(t)
           before(x) == {r \in S : r < x}
           U == {x \in S : Cardinality(before(x)) >= row}
<1>0. Len(t) \in Nat /\ S \subseteq 0..Len(t) /\ S \in SUBSET Nat /\ 0 \in S
  BY TextIsSeq, StartsAreFew
<1>1. \A x \in Nat : IsFiniteSet(before(x)) /\ Cardinality(before(x)) \in Nat
  BY StartsAreFew
<1>2. ASSUME NEW x \in Nat, before(x) # {}
      PROVE  LET y == Max(before(x))
             IN y \in before(x) /\ Cardinality(before(x)) = Cardinality(before(y)) + 1
  <2> DEFINE y == Max(before(x))
  <2>1. before(x) \in SUBSET (0..Len(t))
    BY <1>0
  <2>2. y \in before(x) /\ \A z \in before(x) : z <= y
    <3> HIDE DEF before
    <3> QED BY <1>0, <1>2, <2>1, GreatestIsIn
  <2>3. y \in Nat /\ y \in S /\ y < x
    BY <1>0, <2>2
  <2>4. before(x) = before(y) \cup {y} /\ y \notin before(y)
    <3> HIDE DEF y
    <3> QED BY <1>0, <2>2, <2>3
  <2>5. IsFiniteSet(before(y))
    BY <1>1, <2>3
  <2> HIDE DEF y, before
  <2>6. Cardinality(before(x)) = Cardinality(before(y)) + 1
    BY <2>4, <2>5, FS_AddElement
  <2> QED BY <2>2, <2>6 DEF y
<1>3. U # {}
  <2> DEFINE e == Len(t) + 1
  <2>1. e \in Nat /\ before(e) = S
    BY <1>0
  <2>2. Max(S) \in S /\ Cardinality(S) = Cardinality(before(Max(S))) + 1
    <3> HIDE DEF e, S, before
    <3> QED BY <1>0, <1>2, <2>1
  <2>3. Cardinality(before(Max(S))) \in Nat
    BY <1>0, <1>1, <2>2
  <2>4. Cardinality(before(Max(S))) >= row
    <3> HIDE DEF e, before
    <3> QED BY <2>2, <2>3 DEF Rows
  <2> QED BY <2>2, <2>4
<1>4. PICK s \in U : \A y \in U : s <= y
  <2>1. U \in SUBSET Nat
    BY <1>0
  <2> HIDE DEF U
  <2> QED BY <1>3, <2>1, LeastIsIn
<1>5. s \in S /\ s \in Nat /\ Cardinality(before(s)) >= row /\ Cardinality(before(s)) \in Nat
  BY <1>0, <1>1, <1>4
<1>6. Cardinality(before(s)) = row
  <2> SUFFICES ASSUME Cardinality(before(s)) > row PROVE FALSE
    <3> HIDE DEF before
    <3> QED BY <1>5
  <2>1. before(s) # {}
    <3>1. before(s) = {} => Cardinality(before(s)) = 0
      BY FS_EmptySet
    <3> HIDE DEF before
    <3> QED BY <1>5, <3>1
  <2> DEFINE y == Max(before(s))
  <2>2. y \in before(s) /\ Cardinality(before(s)) = Cardinality(before(y)) + 1
    <3> HIDE DEF before
    <3> QED BY <1>2, <1>5, <2>1
  <2>3. y \in S /\ y \in Nat /\ y < s /\ Cardinality(before(y)) \in Nat
    BY <1>0, <1>1, <2>2
  <2>4. Cardinality(before(y)) >= row
    <3> HIDE DEF before, y
    <3> QED BY <1>5, <2>2, <2>3
  <2>5. y \in U
    BY <2>3, <2>4
  <2> HIDE DEF before, y, U
  <2> QED BY <1>4, <1>5, <2>3, <2>5
<1>7. \E x \in Starts(t) : Cardinality({r \in Starts(t) : r < x}) = row
  BY <1>5, <1>6
<1> QED
  BY <1>7 DEF StartOf

\* And no other.
LEMMA StartIs ==
  ASSUME NEW t \in Texts, NEW s \in Starts(t)
  PROVE  LET row == Cardinality({r \in Starts(t) : r < s})
         IN row \in Nat /\ row < Rows(t) /\ StartOf(t, row) = s
<1> DEFINE before(x) == {r \in Starts(t) : r < x}
           row == Cardinality(before(s))
<1>0. Len(t) \in Nat /\ Starts(t) \subseteq 0..Len(t) /\ Starts(t) \in SUBSET Nat
  BY TextIsSeq, StartsAreFew
<1>1. /\ \A x \in Starts(t) : IsFiniteSet(before(x)) /\ Cardinality(before(x)) \in Nat
      /\ IsFiniteSet(Starts(t)) /\ Rows(t) \in Nat
  BY StartsAreFew DEF Rows
<1>2. \A x, y \in Starts(t) : x < y => Cardinality(before(x)) < Cardinality(before(y))
  <2> SUFFICES ASSUME NEW x \in Starts(t), NEW y \in Starts(t), x < y
               PROVE  Cardinality(before(x)) < Cardinality(before(y))
    OBVIOUS
  <2>1. before(x) \subseteq before(y) /\ x \in before(y) /\ x \notin before(x)
    BY <1>0
  <2>2. IsFiniteSet(before(y)) /\ Cardinality(before(y)) \in Nat /\ Cardinality(before(x)) \in Nat
    BY <1>1
  <2> HIDE DEF before
  <2> QED BY <2>1, <2>2, FS_Subset
<1>3. row < Rows(t)
  <2>1. before(s) \subseteq Starts(t) /\ s \notin before(s)
    BY <1>0
  <2> HIDE DEF before
  <2> QED BY <1>1, <2>1, FS_Subset DEF Rows
<1>4. \A x \in Starts(t) : Cardinality(before(x)) = row => x = s
  <2> SUFFICES ASSUME NEW x \in Starts(t), Cardinality(before(x)) = row PROVE x = s
    OBVIOUS
  <2>1. x \in Nat /\ s \in Nat
    BY <1>0
  <2>2. /\ x < s => Cardinality(before(x)) < Cardinality(before(s))
        /\ s < x => Cardinality(before(s)) < Cardinality(before(x))
    BY <1>2
  <2>3. Cardinality(before(x)) \in Nat /\ Cardinality(before(s)) \in Nat
    BY <1>1
  <2> HIDE DEF before
  <2> QED BY <2>1, <2>2, <2>3
<1>5. StartOf(t, row) = s
  <2> HIDE DEF row
  <2> QED BY <1>4 DEF StartOf, row
<1> QED
  BY <1>1, <1>3, <1>5

\* Its position tells where.
LEMMA OffsetOfMark ==
  ASSUME NEW t \in Texts, NEW o, NEW m, IsAt(m, t, o)
  PROVE  Offset(t, m) = o /\ m.row < Rows(t)
<1>1. /\ RowOf(t, o) \in 0..(Rows(t) - 1) /\ o \in Nat
      /\ StartOf(t, RowOf(t, o)) \in 0..o
  BY RowStart DEF IsAt
<1>2. Rows(t) \in Nat
  BY StartsAreFew DEF Rows
<1> QED
  BY <1>1, <1>2 DEF IsAt, Offset, ColOf

\* An offset has a position.
LEMMA PositionType ==
  ASSUME NEW t \in Texts, NEW o \in Nat
  PROVE  RowOf(t, o) \in Nat /\ ColOf(t, o) \in Nat
<1>1. /\ RowOf(t, o) \in 0..(Rows(t) - 1) /\ StartOf(t, RowOf(t, o)) = Max(Upto(t, o))
      /\ Max(Upto(t, o)) \in 0..o
  BY RowStart
<1>2. Rows(t) \in Nat
  BY StartsAreFew DEF Rows
<1> QED BY <1>1, <1>2 DEF ColOf

\* Any position is one of an offset.
LEMMA OffsetType ==
  ASSUME NEW t \in Texts, NEW m, m.row \in Nat, m.col \in Nat
  PROVE  /\ Offset(t, m) \in Nat
         /\ m.row < Rows(t) => /\ StartOf(t, m.row) \in Starts(t)
                               /\ Cardinality({r \in Starts(t) : r < StartOf(t, m.row)}) = m.row
                               /\ StartOf(t, m.row) \in Nat
                               /\ Offset(t, m) = StartOf(t, m.row) + m.col
<1> DEFINE row == IF m.row < Rows(t) THEN m.row ELSE Rows(t) - 1
<1>1. Rows(t) \in Nat /\ Rows(t) > 0
  <2>1. RowOf(t, 0) \in 0..(Rows(t) - 1) /\ Rows(t) \in Nat
    BY RowStart, StartsAreFew DEF Rows
  <2> QED BY <2>1
<1>2. row \in Nat /\ row < Rows(t)
  BY <1>1
<1> HIDE DEF row
<1>3. /\ StartOf(t, row) \in Starts(t)
      /\ Cardinality({r \in Starts(t) : r < StartOf(t, row)}) = row
  BY <1>2, RowHasStart
<1>4. StartOf(t, row) \in Nat
  <2>1. Starts(t) \subseteq 0..Len(t) /\ Len(t) \in Nat
    BY StartsAreFew, TextIsSeq
  <2> QED BY <1>3, <2>1
<1>5. Offset(t, m) = StartOf(t, row) + m.col
  BY DEF Offset, row
<1>6. m.row < Rows(t) => row = m.row
  BY DEF row
<1>7. Offset(t, m) \in Nat
  BY <1>4, <1>5
<1>8. ASSUME m.row < Rows(t)
      PROVE  /\ StartOf(t, m.row) \in Starts(t)
             /\ Cardinality({r \in Starts(t) : r < StartOf(t, m.row)}) = m.row
             /\ StartOf(t, m.row) \in Nat
             /\ Offset(t, m) = StartOf(t, m.row) + m.col
  <2>1. row = m.row
    BY <1>6, <1>8
  <2> QED BY <1>3, <1>4, <1>5, <2>1, Zenon
<1> QED
  BY <1>7, <1>8

\* Rows that start where two texts are alike start alike.
LEMMA RowsAlike ==
  ASSUME NEW s \in Texts, NEW t \in Texts, NEW n \in Nat,
         n <= Len(s), n <= Len(t), \A i \in 1..n : s[i] = t[i],
         NEW m, m.row \in Nat, m.col \in Nat, m.row < Rows(s), Offset(s, m) <= n
  PROVE  m.row < Rows(t) /\ Offset(t, m) = Offset(s, m)
<1> DEFINE a == StartOf(s, m.row)
<1>1. /\ a \in Starts(s) /\ a \in Nat /\ Offset(s, m) = a + m.col
      /\ Cardinality({r \in Starts(s) : r < a}) = m.row
  BY OffsetType
<1>2. a <= n
  <2> HIDE DEF a
  <2> QED BY <1>1
<1> HIDE DEF a
<1>3. \A x \in 0..n : x \in Starts(s) <=> x \in Starts(t)
  BY TextIsSeq DEF Starts
<1>4. Starts(s) \in SUBSET Nat /\ Starts(t) \in SUBSET Nat
  <2>1. Starts(s) \subseteq 0..Len(s) /\ Starts(t) \subseteq 0..Len(t)
    BY StartsAreFew
  <2> QED BY <2>1, TextIsSeq
<1>5. a \in Starts(t) /\ {r \in Starts(s) : r < a} = {r \in Starts(t) : r < a}
  BY <1>1, <1>2, <1>3, <1>4
<1>6. m.row < Rows(t) /\ StartOf(t, m.row) = a
  BY <1>1, <1>5, StartIs
<1> QED
  BY <1>1, <1>6, OffsetType

\* Up to where two texts are alike positions are the same.
LEMMA AlikeUpto ==
  ASSUME NEW s \in Texts, NEW t \in Texts, NEW o \in Nat,
         o <= Len(s), o <= Len(t), \A i \in 1..o : s[i] = t[i]
  PROVE  RowOf(s, o) = RowOf(t, o) /\ ColOf(s, o) = ColOf(t, o)
<1>1. Upto(s, o) = Upto(t, o)
  BY TextIsSeq DEF Upto, Starts
<1>2. StartOf(s, RowOf(s, o)) = StartOf(t, RowOf(t, o))
  BY <1>1, RowStart
<1> QED
  BY <1>1, <1>2 DEF RowOf, ColOf, Upto

-----------------------------------------------------------------------------
(* The window *)

\* The length of the shorter of two texts.
LEMMA ShorterOfBoth ==
  ASSUME NEW s \in Texts, NEW t \in Texts
  PROVE  /\ Shorter(s, t) \in Nat /\ Shorter(s, t) <= Len(s) /\ Shorter(s, t) <= Len(t)
         /\ Shorter(s, t) = Shorter(t, s)
<1>1. {Len(s), Len(t)} \in SUBSET Nat /\ {Len(s), Len(t)} = {Len(t), Len(s)}
  BY TextIsSeq
<1> QED
  BY <1>1, LeastIsIn DEF Shorter

\* Prefix and suffix do not overlap, and depend on no order.
LEMMA TheWindow ==
  ASSUME NEW s \in Texts, NEW t \in Texts
  PROVE  /\ Prefix(s, t) \in 0..Shorter(s, t)
         /\ \A i \in 1..Prefix(s, t) : s[i] = t[i]
         /\ Suffix(s, t) \in 0..(Shorter(s, t) - Prefix(s, t))
         /\ Prefix(s, t) = Prefix(t, s) /\ Suffix(s, t) = Suffix(t, s)
<1> DEFINE n == Shorter(s, t)
           P == {k \in 0..n : \A i \in 1..k : s[i] = t[i]}
           p == Prefix(s, t)
           S == {k \in 0..(n - p) : AlikeAtTheEnd(s, t, k)}
<1>1. n \in Nat /\ n = Shorter(t, s) /\ Len(s) \in Nat /\ Len(t) \in Nat
  BY ShorterOfBoth, TextIsSeq
<1>2. p = Max(P) /\ P = {k \in 0..n : \A i \in 1..k : t[i] = s[i]}
  BY DEF Prefix
<1>3. p \in P
  <2>1. 0 \in P
    BY <1>1
  <2>2. P \in SUBSET (0..n) /\ P # {}
    BY <2>1
  <2> HIDE DEF P, n, p
  <2> QED BY <1>1, <1>2, <2>2, GreatestIsIn
<1>4. p = Prefix(t, s)
  <2> HIDE DEF P, n, p
  <2> QED BY <1>1, <1>2 DEF Prefix
<1>5. Suffix(s, t) = Max(S) /\ S = {k \in 0..(n - p) : AlikeAtTheEnd(t, s, k)}
  <2> HIDE DEF n, p
  <2> QED BY DEF AlikeAtTheEnd, Suffix, n, p
<1>6. Suffix(s, t) \in S
  <2>0. n - p \in Nat
    BY <1>1, <1>3
  <2>1. 0 \in S
    BY <2>0 DEF AlikeAtTheEnd
  <2>2. S \in SUBSET (0..(n - p)) /\ S # {}
    BY <2>1
  <2> HIDE DEF S, n, p
  <2> QED BY <1>5, <2>0, <2>2, GreatestIsIn
<1>7. Suffix(s, t) = Suffix(t, s)
  <2> HIDE DEF S, n, p
  <2> QED BY <1>1, <1>4, <1>5 DEF Suffix
<1> QED
  BY <1>3, <1>4, <1>6, <1>7

\* Where an offset goes when a mark on it is moved to another text.
Goes(o, b, t, right) ==
  IF b = t \/ o < Prefix(b, t) \/ (o = Prefix(b, t) /\ ~right) THEN o
  ELSE Moved(o, b, t, right)

\* What is known of the window between two texts.
LEMMA WindowOf ==
  ASSUME NEW b \in Texts, NEW t \in Texts
  PROVE  /\ Len(b) \in Nat /\ Len(t) \in Nat /\ Prefix(b, t) \in Nat /\ Suffix(b, t) \in Nat
         /\ Prefix(b, t) + Suffix(b, t) <= Len(b)
         /\ Prefix(b, t) + Suffix(b, t) <= Len(t)
         /\ Prefix(b, t) = Prefix(t, b) /\ Suffix(b, t) = Suffix(t, b)
BY TheWindow, ShorterOfBoth, TextIsSeq

\* The transform ends in the new text, or as far past its end as it started.
LEMMA GoesInto ==
  ASSUME NEW b \in Texts, NEW t \in Texts, NEW o \in Nat, NEW right \in BOOLEAN
  PROVE  /\ Goes(o, b, t, right) \in Nat
         /\ o <= Len(b) => Goes(o, b, t, right) <= Len(t)
         /\ o > Len(b) => Goes(o, b, t, right) + Len(b) = o + Len(t)
<1> DEFINE p == Prefix(b, t)
           u == Suffix(b, t)
<1>1. /\ Len(b) \in Nat /\ Len(t) \in Nat /\ p \in Nat /\ u \in Nat
      /\ p + u <= Len(b) /\ p + u <= Len(t)
  BY WindowOf
<1>2. Goes(o, b, t, right) =
        IF b = t \/ o < p \/ (o = p /\ ~right) THEN o
        ELSE IF o >= Len(b) - u THEN (o + Len(t)) - Len(b)
        ELSE IF right THEN Len(t) - u ELSE p
  BY DEF Goes, Moved
<1> HIDE DEF p, u
<1> QED
  BY <1>1, <1>2

\* Two that lean the same way keep their order.
LEMMA GoesInOrder ==
  ASSUME NEW b \in Texts, NEW t \in Texts, NEW right \in BOOLEAN,
         NEW o \in Nat, NEW n \in Nat, o <= n
  PROVE  Goes(o, b, t, right) <= Goes(n, b, t, right)
<1> DEFINE p == Prefix(b, t)
           u == Suffix(b, t)
<1>1. /\ Len(b) \in Nat /\ Len(t) \in Nat /\ p \in Nat /\ u \in Nat
      /\ p + u <= Len(b) /\ p + u <= Len(t)
  BY WindowOf
<1>2. \A x \in {o, n} : Goes(x, b, t, right) =
        IF b = t \/ x < p \/ (x = p /\ ~right) THEN x
        ELSE IF x >= Len(b) - u THEN (x + Len(t)) - Len(b)
        ELSE IF right THEN Len(t) - u ELSE p
  BY DEF Goes, Moved
<1> HIDE DEF p, u
<1> QED
  BY <1>1, <1>2

\* What the window does not hold comes back.
LEMMA GoesAndComes ==
  ASSUME NEW b \in Texts, NEW t \in Texts, NEW right \in BOOLEAN, NEW o \in Nat,
         \/ b = t \/ o < Prefix(b, t) \/ (o = Prefix(b, t) /\ ~right)
         \/ o > Len(b) - Suffix(b, t)
         \/ o = Len(b) - Suffix(b, t) /\ right
  PROVE  Goes(Goes(o, b, t, right), t, b, right) = o
<1> DEFINE p == Prefix(b, t)
           u == Suffix(b, t)
           g == Goes(o, b, t, right)
<1>1. /\ Len(b) \in Nat /\ Len(t) \in Nat /\ p \in Nat /\ u \in Nat
      /\ p + u <= Len(b) /\ p + u <= Len(t)
      /\ p = Prefix(t, b) /\ u = Suffix(t, b)
  BY WindowOf
<1>2. g = IF b = t \/ o < p \/ (o = p /\ ~right) THEN o
          ELSE IF o >= Len(b) - u THEN (o + Len(t)) - Len(b)
          ELSE IF right THEN Len(t) - u ELSE p
  BY DEF Goes, Moved
<1>3. Goes(g, t, b, right) =
        IF b = t \/ g < p \/ (g = p /\ ~right) THEN g
        ELSE IF g >= Len(t) - u THEN (g + Len(b)) - Len(t)
        ELSE IF right THEN Len(b) - u ELSE p
  BY <1>1 DEF Goes, Moved
<1>4. \/ b = t \/ o < p \/ (o = p /\ ~right)
      \/ o > Len(b) - u
      \/ o = Len(b) - u /\ right
  OBVIOUS
<1> HIDE DEF p, u, g
<1>5. Goes(g, t, b, right) = o
  BY <1>1, <1>2, <1>3, <1>4
<1> QED
  BY <1>5 DEF g

\* A mark is a mark of the new text, and leans as before.
LEMMA AnchoredIsOf ==
  ASSUME NEW b \in Texts, NEW t \in Texts, NEW m, MarkIn(m, b)
  PROVE  /\ MarkIn(Anchored(m, b, t), t)
         /\ Anchored(m, b, t).right = m.right
         /\ Stays(m, b, t) => /\ Anchored(m, b, t).row = m.row
                              /\ Anchored(m, b, t).col = m.col
         /\ ~Stays(m, b, t) => IsAt(Anchored(m, b, t), t, Goes(Offset(b, m), b, t, m.right))
<1> DEFINE o == Offset(b, m)
           g == Goes(o, b, t, m.right)
           q == IF Stays(m, b, t) THEN m ELSE Put(m, t, Moved(Offset(b, m), b, t, m.right))
<1>1. o \in Nat /\ m.right \in BOOLEAN
  BY OffsetType DEF MarkIn
<1>2. g \in Nat
  BY <1>1, GoesInto
<1>3. RowOf(t, g) \in Nat /\ ColOf(t, g) \in Nat
  BY <1>2, PositionType
<1>4. ~Stays(m, b, t) => q = [m EXCEPT !.row = RowOf(t, g), !.col = ColOf(t, g)]
  BY DEF Put, Stays, Goes
<1>5. Anchored(m, b, t) = [q EXCEPT !.of = t]
  BY DEF Anchored, MarkIn
<1>6. Stays(m, b, t) => q = m
  OBVIOUS
<1> HIDE DEF q, g, o
<1>7. CASE Stays(m, b, t)
  BY <1>5, <1>6, <1>7 DEF MarkIn
<1>8. CASE ~Stays(m, b, t)
  <2>1. /\ {"row", "col", "right", "of"} \subseteq DOMAIN q
        /\ q.row = RowOf(t, g) /\ q.col = ColOf(t, g) /\ q.right = m.right
    BY <1>4, <1>8 DEF MarkIn
  <2> QED
    BY <1>1, <1>2, <1>3, <1>5, <1>8, <2>1 DEF MarkIn, IsAt, g, o
<1> QED BY <1>7, <1>8

\* A mark on a row of the text goes where its offset goes, to a row of the new text.
LEMMA AnchoredAt ==
  ASSUME NEW b \in Texts, NEW t \in Texts, NEW m, MarkIn(m, b), m.row < Rows(b)
  PROVE  /\ Anchored(m, b, t).row < Rows(t)
         /\ Offset(t, Anchored(m, b, t)) = Goes(Offset(b, m), b, t, m.right)
<1> DEFINE a == Anchored(m, b, t)
           o == Offset(b, m)
<1>1. /\ MarkIn(a, t) /\ a.right = m.right
      /\ Stays(m, b, t) => a.row = m.row /\ a.col = m.col
      /\ ~Stays(m, b, t) => IsAt(a, t, Goes(o, b, t, m.right))
  BY AnchoredIsOf
<1>2. o \in Nat /\ m.right \in BOOLEAN /\ m.row \in Nat /\ m.col \in Nat
  BY OffsetType DEF MarkIn
<1> HIDE DEF a
<1>3. CASE ~Stays(m, b, t)
  BY <1>1, <1>3, OffsetOfMark DEF a
<1>4. CASE Stays(m, b, t)
  <2>1. Goes(o, b, t, m.right) = o
    BY <1>4 DEF Stays, Goes
  <2>2. m.row < Rows(t) /\ Offset(t, m) = o
    <3>1. CASE b = t
      BY <3>1
    <3>2. CASE b # t
      <4>1. o <= Prefix(b, t)
        BY <1>2, <1>4, <3>2, WindowOf DEF Stays
      <4>2. /\ Prefix(b, t) \in Nat /\ Prefix(b, t) <= Len(b) /\ Prefix(b, t) <= Len(t)
            /\ \A i \in 1..Prefix(b, t) : b[i] = t[i]
        BY WindowOf, TheWindow
      <4> QED BY <1>2, <4>1, <4>2, RowsAlike
    <3> QED BY <3>1, <3>2
  <2>3. a.row < Rows(t) /\ Offset(t, a) = Offset(t, m)
    BY <1>1, <1>4, <2>2 DEF Offset
  <2> QED BY <2>1, <2>2, <2>3 DEF a
<1> QED BY <1>3, <1>4

\* A position that is in the row its offset is in.
LEMMA InItsRow ==
  ASSUME NEW t \in Texts, NEW m, m.row \in Nat, m.col \in Nat, m.row < Rows(t),
         m.row = RowOf(t, Offset(t, m))
  PROVE  IsAt(m, t, Offset(t, m))
<1>1. /\ Offset(t, m) \in Nat /\ StartOf(t, m.row) \in Nat
      /\ Offset(t, m) = StartOf(t, m.row) + m.col
  BY OffsetType
<1> QED
  BY <1>1 DEF IsAt, ColOf

\* The transform leaves such a position alone or makes one.
LEMMA AnchoredInItsRow ==
  ASSUME NEW b \in Texts, NEW t \in Texts, NEW m, MarkIn(m, b), m.row < Rows(b),
         m.row = RowOf(b, Offset(b, m))
  PROVE  IsAt(Anchored(m, b, t), t, Goes(Offset(b, m), b, t, m.right))
<1> DEFINE a == Anchored(m, b, t)
           o == Offset(b, m)
<1>1. /\ Stays(m, b, t) => a.row = m.row /\ a.col = m.col
      /\ ~Stays(m, b, t) => IsAt(a, t, Goes(o, b, t, m.right))
  BY AnchoredIsOf
<1>2. IsAt(m, b, o) /\ o \in Nat
  BY InItsRow, OffsetType DEF MarkIn
<1> HIDE DEF a, o
<1>3. CASE ~Stays(m, b, t)
  BY <1>1, <1>3 DEF a, o
<1>4. CASE Stays(m, b, t)
  <2>1. Goes(o, b, t, m.right) = o
    BY <1>4 DEF Stays, Goes, o
  <2>2. RowOf(t, o) = RowOf(b, o) /\ ColOf(t, o) = ColOf(b, o)
    <3>1. CASE b = t
      BY <3>1
    <3>2. CASE b # t
      <4>1. o <= Prefix(b, t)
        BY <1>2, <1>4, <3>2, WindowOf DEF Stays, o
      <4>2. /\ Prefix(b, t) \in Nat /\ Prefix(b, t) <= Len(b) /\ Prefix(b, t) <= Len(t)
            /\ \A i \in 1..Prefix(b, t) : b[i] = t[i]
        BY WindowOf, TheWindow
      <4>3. o <= Len(b) /\ o <= Len(t) /\ \A i \in 1..o : b[i] = t[i]
        BY <1>2, <4>1, <4>2, TextIsSeq
      <4> QED BY <1>2, <4>3, AlikeUpto
    <3> QED BY <3>1, <3>2
  <2> QED BY <1>1, <1>2, <1>4, <2>1, <2>2 DEF IsAt, a, o
<1> QED BY <1>3, <1>4

-----------------------------------------------------------------------------
(* What the helpers keep *)

\* decoration_rebase leaves nothing dirty, and the kept text the text or none.
LEMMA EnsuredSound ==
  ASSUME NEW s, text \in Texts, Sound(s, text)
  PROVE  /\ Sound(Ensured(s), text)
         /\ ~Ensured(s).dirty
         /\ Ensured(s).base \in {None, text}
<1>0. text # None
  BY NoneAssumption
<1>1. CASE s.marks = <<>> \/ lazy
  <2>1. Ensured(s) = [marks |-> <<>>, base |-> None, dirty |-> FALSE]
    BY <1>1 DEF Ensured
  <2> QED
    BY <2>1, EmptyIsSeq DEF Sound
<1>2. CASE ~(s.marks = <<>> \/ lazy) /\ s.base = None
  BY <1>0, <1>2 DEF Ensured, Sound
<1>3. CASE ~(s.marks = <<>> \/ lazy) /\ s.base # None /\ ~s.dirty
  BY <1>3 DEF Ensured, Sound
<1>4. CASE ~(s.marks = <<>> \/ lazy) /\ s.base # None /\ s.dirty
  <2> DEFINE ms == [i \in DOMAIN s.marks |-> Anchored(s.marks[i], s.base, text)]
  <2>1. Ensured(s) = [marks |-> ms, base |-> text, dirty |-> FALSE]
    BY <1>4 DEF Ensured
  <2>2. AllOf(s.marks, s.base) /\ IsSeq(s.marks)
    BY <1>4 DEF Sound
  <2>3. DOMAIN s.marks = 1..Len(s.marks) /\ Len(s.marks) \in Nat /\ s.marks # <<>>
    BY <1>4, <2>2 DEF IsSeq
  <2>4. ms \in Seq({ms[i] : i \in DOMAIN ms}) /\ ms # <<>>
    BY <2>3
  <2>5. ASSUME NEW m, MarkIn(m, s.base)
        PROVE  MarkIn(Anchored(m, s.base, text), text)
    <3>1. s.base \in Texts
      BY <1>4 DEF Sound
    <3> QED
      BY <2>5, <3>1, AnchoredIsOf
  <2>6. AllOf(ms, text)
    BY <2>2, <2>3, <2>5 DEF AllOf
  <2> HIDE DEF ms
  <2> QED
    BY <1>0, <2>1, <2>4, <2>6 DEF Sound, IsSeq
<1> QED
  BY <1>1, <1>2, <1>3, <1>4 DEF Sound

\* The same for what an operation does first.
LEMMA ReadySound ==
  ASSUME NEW s, text \in Texts, Sound(s, text)
  PROVE  Sound(Ready(s), text) /\ Ready(s).base \in {None, text}
BY EnsuredSound DEF Ready, Sound

\* Erasing marks keeps the others where they are.
LEMMA ErasedSound ==
  ASSUME NEW s, NEW id, Sound(s, text)
  PROVE  Sound(Erased(s, id), text) /\ Erased(s, id).base = s.base
<1> DEFINE at == SelectInSeq(s.marks, LAMBDA m : m.id = id)
<1>0. IsSeq(s.marks) /\ Len(s.marks) \in Nat
  BY DEF Sound, IsSeq
<1>1. at \in 0..Len(s.marks)
  <2> DEFINE I == {i \in 1..Len(s.marks) : s.marks[i].id = id}
  <2>1. at = IF I # {} THEN Min(I) ELSE 0
    BY DEF SelectInSeq
  <2>2. I \in SUBSET Nat
    BY <1>0
  <2>3. I # {} => Min(I) \in I
    BY <2>2, LeastIsIn
  <2> QED
    BY <1>0, <2>1, <2>3
<1>2. Erased(s, id) = IF at = 0 THEN s
                      ELSE [s EXCEPT !.marks = RemoveAt(s.marks, at), !.dirty = TRUE]
  BY DEF Erased
<1> HIDE DEF at
<1>3. CASE at = 0
  BY <1>2, <1>3
<1>4. CASE at # 0
  <2>1. /\ IsSeq(RemoveAt(s.marks, at))
        /\ \A i \in DOMAIN RemoveAt(s.marks, at) :
             \E j \in DOMAIN s.marks : RemoveAt(s.marks, at)[i] = s.marks[j]
    BY <1>0, <1>1, <1>4, RemoveKeeps
  <2>2. Erased(s, id) = [marks |-> RemoveAt(s.marks, at), base |-> s.base, dirty |-> TRUE]
    BY <1>2, <1>4 DEF Sound
  <2>3. s.base # None => AllOf(s.marks, s.base)
    BY DEF Sound, AllOf
  <2>4. s.base = None => AllOf(s.marks, text)
    BY DEF Sound
  <2>5. ASSUME NEW t, AllOf(s.marks, t)
        PROVE  AllOf(RemoveAt(s.marks, at), t)
    BY <2>1, <2>5 DEF AllOf
  <2> QED
    BY <2>1, <2>2, <2>3, <2>4, <2>5 DEF Sound
<1> QED
  BY <1>3, <1>4

\* Inserting a mark of the current text, when the kept text is that or none.
LEMMA InsertedSound ==
  ASSUME NEW s, Sound(s, text), s.base \in {None, text},
         NEW m, MarkIn(m, text),
         NEW k \in Places(s.marks, m)
  PROVE  Sound(Inserted(s, m, k), text) /\ Inserted(s, m, k).base = s.base
<1>1. k \in 1..(Len(s.marks) + 1) /\ IsSeq(s.marks)
  BY DEF Places, Sound
<1>2. /\ IsSeq(InsertAt(s.marks, k, m))
      /\ \A i \in DOMAIN InsertAt(s.marks, k, m) :
           \/ InsertAt(s.marks, k, m)[i] = m
           \/ \E j \in DOMAIN s.marks : InsertAt(s.marks, k, m)[i] = s.marks[j]
  BY <1>1, InsertKeeps
<1>3. AllOf(s.marks, text)
  BY DEF Sound
<1>4. AllOf(InsertAt(s.marks, k, m), text)
  BY <1>2, <1>3 DEF AllOf
<1>5. Inserted(s, m, k) = [marks |-> InsertAt(s.marks, k, m), base |-> s.base, dirty |-> TRUE]
  <2>1. s = [marks |-> s.marks, base |-> s.base, dirty |-> s.dirty]
    BY DEF Sound
  <2>2. Inserted(s, m, k) = [s EXCEPT !.marks = InsertAt(s.marks, k, m), !.dirty = TRUE]
    BY <2>1 DEF Inserted
  <2> QED
    BY <2>1, <2>2
<1> QED
  BY <1>2, <1>4, <1>5 DEF Sound

-----------------------------------------------------------------------------
(* Every step *)

\* A mark set on the text is a mark of the text, wherever it is set.
LEMMA AtIsOfTheText ==
  ASSUME NEW position \in Nat \X Nat, NEW id, NEW right \in BOOLEAN, NEW owner
  PROVE  MarkIn(At(position, id, right, owner), text)
BY DEF At, MarkIn

\* The variables after a step, as the record the operations work on.
LEMMA BecomesState ==
  ASSUME NEW s, NEW t, Sound(s, t), Becomes(s)
  PROVE  State' = s
BY DEF Becomes, State, Sound

\* A step of a plugin or of a search leaves the text, and goes to a state that is
\* sound for it; what is kept is of the buffer's text if nothing was edited.
LEMMA SoundStep ==
  ASSUME IndInv, NEW s, Becomes(s), Sound(s, text), UNCHANGED text,
         \/ edited' = edited /\ s.base \in {None, text, base}
         \/ edited' = FALSE /\ s.base \in {None, text}
  PROVE  IndInv'
<1>1. State' = s
  BY BecomesState
<1>2. base' = s.base
  BY DEF Becomes
<1>3. Sound(State', text')
  BY <1>1
<1>4. ~edited' => base' \in {None, text'}
  BY <1>2 DEF IndInv
<1> QED
  BY <1>3, <1>4 DEF IndInv

\* A command that edits: the text is kept before, marks move later.
LEMMA CommandKeeps ==
  ASSUME ~Hasty, IndInv, Command
  PROVE  IndInv'
<1> USE DEF IndInv
<1>1. text' \in Texts /\ edited' = TRUE /\ text # None
  BY NoneAssumption DEF Command
<1>2. CASE marks = <<>> \/ lazy
  <2>1. marks = <<>> /\ State' = State
    BY <1>2, BecomesState DEF Command, Begun, State, Becomes
  <2>2. Sound(State, text')
    BY <2>1 DEF Sound, State, AllOf
  <2> QED
    BY <1>1, <2>1, <2>2
<1>3. CASE ~(marks = <<>> \/ lazy)
  <2> DEFINE e == Ensured(State)
             s == [marks |-> e.marks, base |-> text, dirty |-> TRUE]
  <2>1. Sound(e, text) /\ ~e.dirty
    BY EnsuredSound
  <2>2. Begun(State) = s
    BY <1>3 DEF Begun, State
  <2> HIDE DEF e
  <2>3. s = [marks |-> e.marks, base |-> text, dirty |-> TRUE]
    OBVIOUS
  <2>4. AllOf(e.marks, text) /\ IsSeq(e.marks)
    BY <2>1 DEF Sound
  <2> HIDE DEF s
  <2>5. Sound(s, text')
    BY <1>1, <2>3, <2>4 DEF Sound
  <2>6. State' = s
    BY <2>2, <2>5, BecomesState DEF Command
  <2> QED
    BY <1>1, <2>5, <2>6
<1> QED
  BY <1>2, <1>3

\* The text is replaced as a whole.
LEMMA ReplaceKeeps ==
  ASSUME IndInv, Replace
  PROVE  IndInv'
<1>1. <<>> \in Texts
  <2>1. <<>> \in [1..0 -> Chars \cup {NL}] /\ 0 \in 0..MaxLen
    BY DecorationsAssumption
  <2> QED
    BY <2>1 DEF Texts
<1>2. dirty \in BOOLEAN
  BY DEF IndInv, Sound, State
<1>3. State' = [marks |-> <<>>, base |-> None, dirty |-> dirty'] /\ dirty' \in BOOLEAN
  BY <1>2 DEF Replace, State
<1>4. Sound(State', text')
  BY <1>3, EmptyIsSeq DEF Sound
<1> QED
  BY <1>1, <1>4 DEF IndInv, Replace, State

\* jot.decoration.*
LEMMA PluginKeeps ==
  ASSUME IndInv, PluginStep
  PROVE  IndInv'
<1>0. text \in Texts /\ Sound(State, text)
  BY DEF IndInv
<1>1. CASE PluginSets
  <2> DEFINE s == Ready(State)
  <2>1. PICK at \in Positions, right \in Gravities :
          \E k \in Places(s.marks, At(at, nextPlugin, right, "plugin")) :
            Becomes(Inserted(s, At(at, nextPlugin, right, "plugin"), k))
    BY <1>1 DEF PluginSets
  <2> DEFINE m == At(at, nextPlugin, right, "plugin")
  <2>2. Sound(s, text) /\ s.base \in {None, text} /\ MarkIn(m, text)
    BY <1>0, ReadySound, AtIsOfTheText, DecorationsAssumption
  <2>3. PICK k \in Places(s.marks, m) : Becomes(Inserted(s, m, k))
    BY <2>1
  <2>4. Sound(Inserted(s, m, k), text) /\ Inserted(s, m, k).base = s.base
    <3> HIDE DEF s, m
    <3> QED BY <2>2, InsertedSound
  <2> QED
    BY <1>1, <2>2, <2>3, <2>4, SoundStep DEF PluginSets
<1>2. ASSUME NEW id, PluginMoves(id)
      PROVE  IndInv'
  <2> DEFINE s == Erased(Ready(State), id)
  <2>1. PICK at \in Positions, right \in Gravities :
          \E k \in Places(s.marks, At(at, id, right, "plugin")) :
            Becomes(Inserted(s, At(at, id, right, "plugin"), k))
    BY <1>2 DEF PluginMoves
  <2> DEFINE m == At(at, id, right, "plugin")
  <2>2. Sound(s, text) /\ s.base \in {None, text} /\ MarkIn(m, text)
    BY <1>0, ReadySound, ErasedSound, AtIsOfTheText, DecorationsAssumption
  <2>3. PICK k \in Places(s.marks, m) : Becomes(Inserted(s, m, k))
    BY <2>1
  <2>4. Sound(Inserted(s, m, k), text) /\ Inserted(s, m, k).base = s.base
    <3> HIDE DEF s, m
    <3> QED BY <2>2, InsertedSound
  <2> QED
    BY <1>2, <2>2, <2>3, <2>4, SoundStep DEF PluginMoves
<1>3. ASSUME NEW id, PluginDeletes(id)
      PROVE  IndInv'
  <2> DEFINE s == Erased(State, id)
  <2>1. Sound(s, text) /\ s.base = State.base
    BY <1>0, ErasedSound
  <2>2. s.base = base
    BY <2>1 DEF State
  <2>3. Becomes(s) /\ text' = text /\ edited' = edited
    BY <1>3 DEF PluginDeletes
  <2> HIDE DEF s
  <2> QED
    BY <2>1, <2>2, <2>3, SoundStep
<1>4. CASE PluginClears
  <2> DEFINE s == [marks |-> <<>>, base |-> None, dirty |-> FALSE]
  <2>1. Sound(s, text)
    BY EmptyIsSeq DEF Sound
  <2> QED
    BY <1>4, <2>1, SoundStep DEF PluginClears
<1>5. CASE PluginLists
  BY <1>0, <1>5, ReadySound, SoundStep DEF PluginLists
<1> QED
  BY <1>1, <1>2, <1>3, <1>4, <1>5, DecorationsAssumption DEF PluginStep

\* The highlight of a search.
LEMMA SearchKeeps ==
  ASSUME ~Hasty, IndInv, SearchStep
  PROVE  IndInv'
<1>0. Sound(State, text)
  BY DEF IndInv
<1>1. Sound(WithoutHighlight, text) /\ WithoutHighlight.base = base
  BY <1>0, ErasedSound DEF WithoutHighlight, State
<1>2. ASSUME NEW offset \in 0..(Len(text) - 1), SearchFinds(offset)
      PROVE  IndInv'
  <2> DEFINE s == WithoutHighlight
             m == At(<<RowOf(text, offset), ColOf(text, offset)>>, nextSearch, TRUE, "search")
  <2>1. PICK k \in Places(s.marks, m) : Becomes(Inserted(s, m, k))
    BY <1>2 DEF SearchFinds
  <2>2. s.base \in {None, text} /\ Sound(s, text)
    BY <1>1, <1>2 DEF SearchFinds, Painted, IndInv
  <2>0. MarkIn(m, text)
    <3>1. offset \in Nat /\ text \in Texts
      BY <1>2, TextIsSeq DEF IndInv
    <3>2. RowOf(text, offset) \in Nat /\ ColOf(text, offset) \in Nat
      BY <3>1, PositionType
    <3> QED
      BY <3>2, AtIsOfTheText
  <2> HIDE DEF s, m
  <2>3. Sound(Inserted(s, m, k), text) /\ Inserted(s, m, k).base = s.base
    BY <2>2, <2>0, InsertedSound
  <2> QED
    BY <1>2, <2>1, <2>2, <2>3, SoundStep DEF SearchFinds
<1>3. CASE SearchEnds
  <2>1. Becomes(WithoutHighlight) /\ text' = text /\ edited' = edited
    BY <1>3 DEF SearchEnds
  <2> QED
    BY <1>1, <2>1, SoundStep
<1> QED
  BY <1>2, <1>3 DEF SearchStep

\* Rows appended to a compilation log.
LEMMA LogKeeps ==
  ASSUME ~Logs, IndInv, LogStep
  PROVE  IndInv'
<1>0. PICK row \in Texts : NL \notin Range(row) /\ \E col \in 0..Len(row) : LogAppends(row, col)
  BY DEF LogStep
<1>1. PICK col \in 0..Len(row) : LogAppends(row, col)
  BY <1>0
<1> DEFINE m == [id |-> 0, row |-> Rows(text), col |-> col, right |-> TRUE,
                 owner |-> "log", of |-> text']
<1>2. marks = <<>> /\ ~dirty /\ base = None /\ Sound(State, text)
  BY <1>1 DEF LogAppends, IndInv, Sound, State
<1>3. text' \in Texts /\ edited'
  <2>1. text' = text \o <<NL>> \o row /\ Len(text) + 1 + Len(row) <= MaxLen /\ edited'
    BY <1>1 DEF LogAppends
  <2>2. text \in Seq(Chars \cup {NL}) /\ row \in Seq(Chars \cup {NL}) /\ <<NL>> \in Seq(Chars \cup {NL})
    BY DecorationsAssumption DEF IndInv, Texts
  <2>3. text' \in Seq(Chars \cup {NL}) /\ Len(text') = Len(text) + 1 + Len(row)
    BY <2>1, <2>2
  <2>4. Len(text) \in Nat /\ Len(row) \in Nat /\ Len(text') \in Nat /\ MaxLen \in Nat
    BY <2>2, <2>3, DecorationsAssumption
  <2>5. text' \in [1..Len(text') -> Chars \cup {NL}]
    BY <2>3
  <2>6. Len(text') \in 0..MaxLen
    BY <2>1, <2>3, <2>4
  <2> QED
    BY <2>1, <2>5, <2>6 DEF Texts
<1>4. PICK k \in Places(marks, m) : Becomes(Inserted(State, m, k))
  BY <1>1 DEF LogAppends
<1>10. MarkIn(m, text')
  <2>1. Rows(text) \in Nat /\ Len(row) \in Nat
    BY StartsAreFew, TextIsSeq DEF Rows, IndInv
  <2>2. col \in Nat
    BY <2>1
  <2> QED
    BY <2>1, <2>2 DEF MarkIn
<1> HIDE DEF m
<1>5. k \in 1..(Len(marks) + 1) /\ IsSeq(marks)
  BY <1>2, <1>4 DEF Places, Sound, State
<1>6. /\ IsSeq(InsertAt(marks, k, m))
      /\ \A i \in DOMAIN InsertAt(marks, k, m) :
           InsertAt(marks, k, m)[i] = m \/ \E j \in DOMAIN marks : InsertAt(marks, k, m)[i] = marks[j]
  BY <1>5, InsertKeeps
<1>7. AllOf(InsertAt(marks, k, m), text')
  BY <1>2, <1>6, <1>10 DEF AllOf
<1>8. State' = [marks |-> InsertAt(marks, k, m), base |-> None, dirty |-> TRUE]
  BY <1>2, <1>4 DEF Becomes, Inserted, State
<1>9. Sound(State', text')
  BY <1>6, <1>7, <1>8 DEF Sound
<1> QED
  BY <1>3, <1>9 DEF IndInv

\* A frame absorbs the edits.
LEMMA FrameKeeps ==
  ASSUME IndInv, Frame
  PROVE  IndInv'
<1>1. Sound(Ready(State), text) /\ Ready(State).base \in {None, text}
  BY ReadySound DEF IndInv
<1> QED
  BY <1>1, SoundStep DEF Frame

-----------------------------------------------------------------------------
\* The invariant, as long as frames keep up and logs do not grow under their
\* colours: every set of marks is sound for the buffer's text
\* (src/core/decorations_rebase.cpp:215-293).
THEOREM Invariance ==
  ASSUME ~Hasty, ~Logs
  PROVE  Spec => []IndInv
<1>1. Init => IndInv
  BY EmptyIsSeq DEF Init, IndInv, Sound, State
<1>2. IndInv /\ [Next]_vars => IndInv'
  <2> SUFFICES ASSUME IndInv, [Next]_vars
               PROVE  IndInv'
    OBVIOUS
  <2>1. CASE UNCHANGED vars
    BY <2>1 DEF vars, IndInv, State
  <2> QED
    BY <2>1, CommandKeeps, ReplaceKeeps, PluginKeeps, SearchKeeps, LogKeeps, FrameKeeps DEF Next
<1> QED
  BY <1>1, <1>2, PTL DEF Spec

\* No mark is ever moved by an edit made before it was set, nor left behind by one
\* made after (src/core/decorations_rebase.cpp:215-267).
THEOREM MarksFollow ==
  ASSUME ~Hasty, ~Logs
  PROVE  Spec => []InTheirText
<1>1. IndInv => InTheirText
  BY DEF IndInv, Sound, State, AllOf, MarkIn, InTheirText, Window
<1> QED
  BY <1>1, Invariance, PTL

\* What the invariant says of marks while a window is to be absorbed.
LEMMA WhileAWindow ==
  ASSUME IndInv, Window
  PROVE  base \in Texts /\ text \in Texts /\ \A i \in DOMAIN marks : MarkIn(marks[i], base)
BY DEF IndInv, Sound, State, Window, AllOf

\* An edit keeps a mark inside the text, or as far past its end as it was, and an
\* edit and its undo bring back every mark that was not on what the edit replaced
\* (src/core/decorations_rebase.cpp:124-203).
THEOREM EditsAreUndone ==
  ASSUME ~Hasty, ~Logs
  PROVE  Spec => []AnchorsComeBack
<1>1. IndInv => AnchorsComeBack
  <2> SUFFICES ASSUME IndInv, Window, NEW i \in DOMAIN marks, marks[i].row < Rows(base)
               PROVE  LET m == marks[i]
                          there == Anchored(m, base, text)
                          back == Anchored(there, text, base)
                          was == Offset(base, m)
                          is == Offset(text, there)
                      IN /\ there.row < Rows(text)
                         /\ IF was <= Len(base) THEN is <= Len(text)
                            ELSE is + Len(base) = was + Len(text)
                         /\ Outside(m) =>
                              /\ Offset(base, back) = was
                              /\ m.row = RowOf(base, was) => back.row = m.row /\ back.col = m.col
    BY DEF AnchorsComeBack
  <2> DEFINE m == marks[i]
             there == Anchored(m, base, text)
             back == Anchored(there, text, base)
             was == Offset(base, m)
             is == Offset(text, there)
  <2>1. base \in Texts /\ text \in Texts /\ MarkIn(m, base) /\ m.row < Rows(base)
    BY WhileAWindow
  <2> HIDE DEF m
  <2>2. m.right \in BOOLEAN /\ was \in Nat
    BY <2>1, OffsetType DEF MarkIn
  <2>3. MarkIn(there, text) /\ there.right = m.right
    BY <2>1, AnchoredIsOf
  <2>4. there.row < Rows(text) /\ is = Goes(was, base, text, m.right)
    BY <2>1, AnchoredAt
  <2>5. IF was <= Len(base) THEN is <= Len(text) ELSE is + Len(base) = was + Len(text)
    <3>1. Len(base) \in Nat
      BY <2>1, TextIsSeq
    <3>2. /\ was <= Len(base) => is <= Len(text)
          /\ was > Len(base) => is + Len(base) = was + Len(text)
      <4> HIDE DEF was, is
      <4> QED BY <2>1, <2>2, <2>4, GoesInto
    <3> HIDE DEF was, is
    <3> QED BY <2>2, <3>1, <3>2
  <2>6. Outside(m) => Goes(is, text, base, m.right) = was
    BY <2>1, <2>2, <2>4, GoesAndComes DEF Outside, Stays
  <2> HIDE DEF there
  <2>7. Offset(base, back) = Goes(is, text, base, m.right)
    BY <2>1, <2>3, <2>4, AnchoredAt
  <2>8. ASSUME Outside(m), m.row = RowOf(base, was)
        PROVE  back.row = m.row /\ back.col = m.col
    <3>1. IsAt(there, text, is)
      BY <2>1, <2>4, <2>8, AnchoredInItsRow DEF there
    <3>2. there.row = RowOf(text, is)
      BY <3>1 DEF IsAt
    <3>3. IsAt(back, base, Goes(is, text, base, m.right))
      BY <2>1, <2>3, <2>4, <3>2, AnchoredInItsRow
    <3>4. IsAt(m, base, was)
      BY <2>1, <2>8, InItsRow DEF MarkIn
    <3> HIDE DEF back, was, is
    <3> QED BY <2>6, <2>8, <3>3, <3>4 DEF IsAt
  <2> HIDE DEF was, is, back
  <2>9. /\ there.row < Rows(text)
        /\ IF was <= Len(base) THEN is <= Len(text) ELSE is + Len(base) = was + Len(text)
        /\ Outside(m) => /\ Offset(base, back) = was
                         /\ m.row = RowOf(base, was) => back.row = m.row /\ back.col = m.col
    BY <2>4, <2>5, <2>6, <2>7, <2>8
  <2> QED
    BY <2>9 DEF m, there, back, was, is
<1> QED
  BY <1>1, Invariance, PTL

\* No mark overtakes another that leans the same way
\* (src/core/decorations_rebase.cpp:177-202).
THEOREM NoneOvertakes ==
  ASSUME ~Hasty, ~Logs
  PROVE  Spec => []OrderIsKept
<1>1. IndInv => OrderIsKept
  <2> SUFFICES ASSUME IndInv, Window, NEW i \in DOMAIN marks, NEW j \in DOMAIN marks,
                      marks[i].row < Rows(base), marks[j].row < Rows(base),
                      marks[i].right = marks[j].right,
                      Offset(base, marks[i]) <= Offset(base, marks[j])
               PROVE  Offset(text, Anchored(marks[i], base, text))
                        <= Offset(text, Anchored(marks[j], base, text))
    BY DEF OrderIsKept
  <2> DEFINE o == Offset(base, marks[i])
             n == Offset(base, marks[j])
  <2>1. /\ base \in Texts /\ text \in Texts /\ marks[i].right \in BOOLEAN
        /\ MarkIn(marks[i], base) /\ MarkIn(marks[j], base)
    BY WhileAWindow DEF MarkIn
  <2>2. o \in Nat /\ n \in Nat
    BY <2>1, OffsetType DEF MarkIn
  <2>3. Offset(text, Anchored(marks[i], base, text)) = Goes(o, base, text, marks[i].right)
    BY <2>1, AnchoredAt
  <2>4. Offset(text, Anchored(marks[j], base, text)) = Goes(n, base, text, marks[i].right)
    BY <2>1, AnchoredAt
  <2> QED
    BY <2>1, <2>2, <2>3, <2>4, GoesInOrder
<1> QED
  BY <1>1, Invariance, PTL
=============================================================================
