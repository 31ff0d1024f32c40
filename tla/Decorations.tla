---------------------------- MODULE Decorations ----------------------------
(***************************************************************************)
(* Decorations: marks on a buffer's text that follow its edits             *)
(* (src/src/core/decorations_rebase.cpp), as plugins set them              *)
(* (src/src/lua/api/api_decorations.cpp), incremental search highlights    *)
(* with them (src/src/input/modes/modeless.cpp) and the compilation log    *)
(* colours its rows with them (src/src/workspace/tasks.cpp).               *)
(*                                                                         *)
(* No command says what it changed.  decoration_rebase_begin() keeps the   *)
(* text from before it, and the next reader compares the two and moves     *)
(* every mark by the one window in which they differ.                      *)
(*                                                                         *)
(* A text is a short sequence; a position is a row and a column, from 0.   *)
(* A plugin may name any: a column past the end of its row, which is taken *)
(* for a place in the rows after it or past the end of the text, and a row *)
(* the text does not have.                                                 *)
(* What a mark looks like is left out, but that one of a plugin is sorted  *)
(* before one of a search at the same place (its default priority is       *)
(* higher).  "of" is history: the text a mark's position is meant in, or   *)
(* Astray once it was moved by a window of another text.                   *)
(***************************************************************************)
EXTENDS Naturals, FiniteSets, FiniteSetsExt, SequencesExt

CONSTANTS Chars,      \* what a line is made of
          NL,         \* the end of a line
          MaxLen,     \* bound: length of a text
          MaxMarks,   \* bound: marks in the buffer
          MaxId,      \* bound: ids of marks made by plugins and searches
          Positions,  \* bound: the rows and columns plugins name
          Gravities,  \* right_gravity of the marks plugins set
          Hasty,      \* keys may come faster than frames
          Logs,       \* a compilation log may grow while it has marks
          None,       \* decoration_base while decoration_base_valid is false
          Astray      \* see above

ASSUME DecorationsAssumption ==
  /\ NL \notin Chars
  /\ MaxLen \in Nat /\ MaxMarks \in Nat /\ MaxId \in Nat
  /\ Positions \subseteq Nat \X Nat
  /\ Gravities \subseteq BOOLEAN /\ Hasty \in BOOLEAN /\ Logs \in BOOLEAN

Texts == UNION {[1..n -> Chars \cup {NL}] : n \in 0..MaxLen}

ASSUME NoneAssumption == None \notin Texts /\ Astray \notin Texts

VARIABLES
  text,        \* the buffer's text
  lazy,        \* is_lazy(): the buffer is paged in from its file
  marks,       \* decorations, in the order of the vector
  base,        \* decoration_base, or None
  dirty,       \* decoration_dirty
  nextPlugin,  \* next_decoration_id
  nextSearch,  \* isearch_decoration_id + 1
  highlight,   \* isearch_decoration: the mark of the search, or 0
  edited       \* history: the text changed since the last frame

vars == <<text, lazy, marks, base, dirty, nextPlugin, nextSearch, highlight, edited>>

Mark == [id: Nat, row: Nat, col: Nat, right: BOOLEAN,
         owner: {"plugin", "search", "log"}, of: Texts \cup {Astray}]

-----------------------------------------------------------------------------
(* Offsets and positions *)

\* line_starts(): the offsets at which lines start.
Starts(t) == {0} \cup {i \in DOMAIN t : t[i] = NL}

Rows(t) == Cardinality(Starts(t))

\* The start of a row: the one with that many starts before it.
StartOf(t, row) == CHOOSE s \in Starts(t) : Cardinality({r \in Starts(t) : r < s}) = row

\* offset_to_rowcol(): the last line that starts at or before the offset.
RowOf(t, offset) == Cardinality({s \in Starts(t) : s <= offset}) - 1
ColOf(t, offset) == offset - StartOf(t, RowOf(t, offset))

\* global_of(): a row that is past the last one is taken for the last one.
Offset(t, m) == StartOf(t, IF m.row < Rows(t) THEN m.row ELSE Rows(t) - 1) + m.col

Put(m, t, offset) == [m EXCEPT !.row = RowOf(t, offset), !.col = ColOf(t, offset)]

-----------------------------------------------------------------------------
(* decoration_anchor_transform() *)

Shorter(s, t) == Min({Len(s), Len(t)})

\* How many characters two texts start with alike.
Prefix(s, t) == Max({n \in 0..Shorter(s, t) : \A i \in 1..n : s[i] = t[i]})

AlikeAtTheEnd(s, t, n) == \A i \in 0..(n - 1) : s[Len(s) - i] = t[Len(t) - i]

\* The two ends are counted on their own and may overlap.
SuffixAlone(s, t) == Max({n \in 0..Shorter(s, t) : AlikeAtTheEnd(s, t, n)})

\* How many they end with alike, of those that are not of the prefix.
Suffix(s, t) ==
  Max({n \in 0..(Shorter(s, t) - Prefix(s, t)) : AlikeAtTheEnd(s, t, n)})

\* What is after the window is left where it was.
MovedNotAfter(offset, b, t, right) ==
  IF offset >= Len(b) - Suffix(b, t) THEN offset
  ELSE IF right THEN Len(t) - Suffix(b, t) ELSE Prefix(b, t)

\* What is after the window moves with the text, what is in it goes to its
\* end or its start.
Moved(offset, b, t, right) ==
  IF offset >= Len(b) - Suffix(b, t) THEN (offset + Len(t)) - Len(b)
  ELSE IF right THEN Len(t) - Suffix(b, t) ELSE Prefix(b, t)

\* What is before the window does not move.
Stays(m, b, t) ==
  \/ b = t
  \/ Offset(b, m) < Prefix(b, t)
  \/ Offset(b, m) = Prefix(b, t) /\ ~m.right

Anchored(m, b, t) ==
  [(IF Stays(m, b, t) THEN m ELSE Put(m, t, Moved(Offset(b, m), b, t, m.right)))
     EXCEPT !.of = IF m.of = b THEN t ELSE Astray]

-----------------------------------------------------------------------------
(* The vector, its base and its flag *)

State == [marks |-> marks, base |-> base, dirty |-> dirty]

Becomes(s) == marks' = s.marks /\ base' = s.base /\ dirty' = s.dirty

\* ensure_decorations_anchored()
Ensured(s) ==
  IF s.marks = <<>> \/ lazy
  THEN [marks |-> <<>>, base |-> None, dirty |-> FALSE]
  ELSE IF s.base = None THEN [s EXCEPT !.base = text, !.dirty = FALSE]
  ELSE IF ~s.dirty THEN s
  ELSE [marks |-> [i \in DOMAIN s.marks |-> Anchored(s.marks[i], s.base, text)],
        base |-> text, dirty |-> FALSE]

\* What every reader but the search does first.
Ready(s) == IF s.dirty THEN Ensured(s) ELSE s

\* The text is kept whatever window is still to be absorbed.
BegunAtOnce(s) ==
  IF s.marks = <<>> \/ lazy THEN s ELSE [s EXCEPT !.base = text, !.dirty = TRUE]

\* decoration_rebase_begin()
Begun(s) ==
  IF s.marks = <<>> \/ lazy THEN s
  ELSE [marks |-> Ensured(s).marks, base |-> text, dirty |-> TRUE]

\* decoration_less(): rows, columns, priorities, ids.
Rank(m) == IF m.owner = "plugin" THEN 0 ELSE 1
Less(m, n) ==
  \/ m.row < n.row
  \/ m.row = n.row /\ m.col < n.col
  \/ m.row = n.row /\ m.col = n.col /\ Rank(m) < Rank(n)
  \/ m.row = n.row /\ m.col = n.col /\ Rank(m) = Rank(n) /\ m.id < n.id

\* Where std::lower_bound may end: between a smaller mark and one that is not.
\* There is one such place while the vector is sorted.
Places(ms, m) ==
  {k \in 1..(Len(ms) + 1) : /\ k > 1 => Less(ms[k - 1], m)
                            /\ k <= Len(ms) => ~Less(ms[k], m)}

\* decoration_insert()
Inserted(s, m, k) == [s EXCEPT !.marks = InsertAt(@, k, m), !.dirty = TRUE]

\* decoration_erase(): the first mark of that id, whoever made it.
Erased(s, id) ==
  LET at == SelectInSeq(s.marks, LAMBDA m : m.id = id)
  IN IF at = 0 THEN s ELSE [s EXCEPT !.marks = RemoveAt(@, at), !.dirty = TRUE]

Room(s) == Len(s.marks) < MaxMarks
MoreIds == nextPlugin + nextSearch < MaxId + 2

\* A new mark on the text of now.
At(position, id, right, owner) ==
  [id |-> id, row |-> position[1], col |-> position[2],
   right |-> right, owner |-> owner, of |-> text]

-----------------------------------------------------------------------------
Init ==
  /\ text \in Texts
  /\ lazy \in BOOLEAN
  /\ marks = <<>> /\ base = None /\ dirty = FALSE
  /\ nextPlugin = 1 /\ nextSearch = 1 /\ highlight = 0
  /\ edited = FALSE

\* A frame came between the last change and whoever looks next.  Marks in a
\* file that is paged in live only until one does.
Painted == Hasty \/ (~edited /\ (lazy => marks = <<>>))

\* A command that calls save_state(), whatever it does to the text; an undo or a
\* redo.  save_state_for() runs before the file is read in.
Command ==
  /\ Hasty \/ ~lazy \/ marks = <<>>
  /\ Becomes(Begun(State))
  /\ text' \in Texts
  /\ lazy' = FALSE /\ edited' = TRUE
  /\ UNCHANGED <<nextPlugin, nextSearch, highlight>>

\* Text replaced without a command (the last buffer closed; a new compilation or a
\* chapter, whose rows come in later): all marks go.
Replace ==
  /\ text' = <<>> /\ lazy' = FALSE /\ edited' = TRUE
  /\ marks' = <<>> /\ base' = None /\ dirty' \in {FALSE, dirty}
  /\ UNCHANGED <<nextPlugin, nextSearch, highlight>>

\* jot.decoration.set() of a new mark.
PluginSets ==
  /\ MoreIds
  /\ LET s == Ready(State)
     IN /\ Room(s)
        /\ \E at \in Positions, right \in Gravities :
             LET m == At(at, nextPlugin, right, "plugin")
             IN \E k \in Places(s.marks, m) : Becomes(Inserted(s, m, k))
  /\ nextPlugin' = nextPlugin + 1
  /\ UNCHANGED <<text, lazy, nextSearch, highlight, edited>>

\* jot.decoration.set() with an id, of a mark that is there or not, of a plugin
\* or not: the first one that has it goes.
PluginMoves(id) ==
  /\ LET s == Erased(Ready(State), id)
     IN /\ Room(s)
        /\ \E at \in Positions, right \in Gravities :
             LET m == At(at, id, right, "plugin")
             IN \E k \in Places(s.marks, m) : Becomes(Inserted(s, m, k))
  /\ UNCHANGED <<text, lazy, nextPlugin, nextSearch, highlight, edited>>

PluginDeletes(id) ==
  /\ Becomes(Erased(State, id))
  /\ UNCHANGED <<text, lazy, nextPlugin, nextSearch, highlight, edited>>

PluginClears ==
  /\ Becomes([marks |-> <<>>, base |-> None, dirty |-> FALSE])
  /\ UNCHANGED <<text, lazy, nextPlugin, nextSearch, highlight, edited>>

\* jot.decoration.list(), and a jot.decoration.set() that is refused.
PluginLists ==
  /\ Becomes(Ready(State))
  /\ UNCHANGED <<text, lazy, nextPlugin, nextSearch, highlight, edited>>

WithoutHighlight == IF highlight = 0 THEN State ELSE Erased(State, highlight)

\* isearch_step() that finds something.
SearchFinds(offset) ==
  /\ Painted
  /\ MoreIds
  /\ text[offset + 1] # NL
  /\ LET s == WithoutHighlight
         m == At(<<RowOf(text, offset), ColOf(text, offset)>>, nextSearch, TRUE, "search")
     IN /\ Room(s)
        /\ \E k \in Places(s.marks, m) : Becomes(Inserted(s, m, k))
  /\ highlight' = nextSearch
  /\ nextSearch' = nextSearch + 1
  /\ UNCHANGED <<text, lazy, nextPlugin, edited>>

\* isearch_step() that finds nothing; a search cancelled or accepted.
SearchEnds ==
  /\ Becomes(WithoutHighlight)
  /\ highlight' = 0
  /\ UNCHANGED <<text, lazy, nextPlugin, nextSearch, edited>>

\* compile_append_rows(): a row at the end, and a colour in it, without a word
\* to decoration_rebase_begin().
LogAppends(row, col) ==
  /\ Logs \/ (marks = <<>> /\ ~dirty)
  /\ ~lazy
  /\ Len(text) + 1 + Len(row) <= MaxLen
  /\ text' = text \o <<NL>> \o row
  /\ edited' = TRUE
  /\ LET m == [id |-> 0, row |-> Rows(text), col |-> col, right |-> TRUE,
               owner |-> "log", of |-> text']
     IN /\ Room(State)
        /\ \E k \in Places(marks, m) : Becomes(Inserted(State, m, k))
  /\ UNCHANGED <<lazy, nextPlugin, nextSearch, highlight>>

\* The renderer, before it reads any row.
Frame ==
  /\ Becomes(Ready(State))
  /\ edited' = FALSE
  /\ UNCHANGED <<text, lazy, nextPlugin, nextSearch, highlight>>

PluginStep ==
  \/ PluginSets
  \/ \E id \in 0..MaxId : PluginMoves(id) \/ PluginDeletes(id)
  \/ PluginClears
  \/ PluginLists

SearchStep == SearchEnds \/ \E offset \in 0..(Len(text) - 1) : SearchFinds(offset)

LogStep ==
  \E row \in {t \in Texts : NL \notin Range(t)} :
    \E col \in 0..Len(row) : LogAppends(row, col)

Next ==
  \/ Command
  \/ Replace
  \/ PluginStep
  \/ SearchStep
  \/ LogStep
  \/ Frame

Spec == Init /\ [][Next]_vars

-----------------------------------------------------------------------------
(* Properties *)

\* Every variable has its type.
TypeOK ==
  /\ text \in Texts
  /\ lazy \in BOOLEAN
  /\ marks \in Seq(Mark)
  /\ base \in Texts \cup {None}
  /\ dirty \in BOOLEAN
  /\ nextPlugin \in 1..(MaxId + 1) /\ nextSearch \in 1..(MaxId + 1)
  /\ highlight \in 0..MaxId
  /\ edited \in BOOLEAN

\* A window is to be absorbed.
Window == dirty /\ base # None

\* Every mark's position is meant in the text that is kept while an edit is to be
\* absorbed, and in the buffer's text otherwise: no mark is ever moved by an edit
\* that was made before it was set, nor left behind by one made after, and what a
\* frame paints is where the text it was set on is
\* (src/core/decorations_rebase.cpp:215-267, src/lua/api/api_decorations.cpp:49-56).
InTheirText ==
  \A i \in DOMAIN marks : marks[i].of = IF Window THEN base ELSE text

\* The window does not reach the mark, or ends where the mark leans away from it.
Outside(m) ==
  LET end == Len(base) - Suffix(base, text)
  IN \/ Stays(m, base, text)
     \/ Offset(base, m) > end
     \/ Offset(base, m) = end /\ m.right

\* An edit takes a mark that is inside the text to one that is inside it, and one
\* that is past its end as far past its end; an edit and its undo leave every mark
\* that was not on what the edit replaced where it was, and say so by the same row
\* and column unless the column was past the end of the row
\* (decoration_anchor_transform, src/core/decorations_rebase.cpp:124-203).
\* Not so of a mark on a row the text does not have.
AnchorsComeBack ==
  Window => \A i \in DOMAIN marks : marks[i].row < Rows(base) =>
    LET m == marks[i]
        there == Anchored(m, base, text)
        back == Anchored(there, text, base)
        was == Offset(base, m)
        is == Offset(text, there)
    IN /\ there.row < Rows(text)
       /\ IF was <= Len(base) THEN is <= Len(text) ELSE is + Len(base) = was + Len(text)
       /\ Outside(m) => /\ Offset(base, back) = was
                        /\ m.row = RowOf(base, was) => back.row = m.row /\ back.col = m.col

\* Of two marks that lean the same way none overtakes the other when an edit is
\* absorbed, inside the text and past its end
\* (decoration_anchor_transform, src/core/decorations_rebase.cpp:177-202).
OrderIsKept ==
  Window => \A i, j \in DOMAIN marks :
    (/\ marks[i].row < Rows(base) /\ marks[j].row < Rows(base)
     /\ marks[i].right = marks[j].right
     /\ Offset(base, marks[i]) <= Offset(base, marks[j]))
      => Offset(text, Anchored(marks[i], base, text)) <= Offset(text, Anchored(marks[j], base, text))

\* The same of all marks.  Not so: one on a row the text does not have counts as
\* being on the last, until an edit brings the row it names.
OrderIsKeptBelowToo ==
  Window => \A i, j \in DOMAIN marks :
    (/\ marks[i].right = marks[j].right
     /\ Offset(base, marks[i]) <= Offset(base, marks[j]))
      => Offset(text, Anchored(marks[i], base, text)) <= Offset(text, Anchored(marks[j], base, text))

\* What a frame paints from is sorted by rows and columns, as the binary search of
\* the renderer needs it (src/core/buffer.h:197, src/render/buffer.cpp:773-792).
\* Not so once a mark that leans left and one that leans right are in one window.
SortedForTheRenderer ==
  ~dirty => \A i, j \in DOMAIN marks :
    i < j => \/ marks[i].row < marks[j].row
             \/ marks[i].row = marks[j].row /\ marks[i].col <= marks[j].col

\* A search takes no mark away but its own (src/input/modes/modeless.cpp:1098-1102).
\* Not so: both number their marks from 1.
OnlyOwnMarksGo ==
  [][SearchStep => \A m \in Range(marks) : m.owner = "plugin" => m \in Range(marks')]_vars
=============================================================================
