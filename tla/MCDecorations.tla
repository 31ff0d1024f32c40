--------------------------- MODULE MCDecorations ---------------------------
(* A text of up to two characters, on up to three rows. *)
EXTENDS Decorations

\* In the first row, past the end of any text, and on a row that
\* is there or not.
FewPlaces == {<<0, 0>>, <<0, 1>>, <<0, 3>>, <<1, 0>>}
=============================================================================
