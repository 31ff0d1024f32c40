----------------------------- MODULE MCDocument -----------------------------
(* One file with a formatter and one without.  Jobs are served in any order,  *)
(* so their order need not be told apart; of the texts a buffer can go back   *)
(* to no step reads any, and the properties only whether the last typed text  *)
(* is one of them.                                                            *)
EXTENDS Document

CONSTANTS source, notes

Essence(b) == [b EXCEPT !.past = {b.typed} \cap @]

Unordered ==
  <<disk, [i \in DOMAIN buffers |-> Essence(buffers[i])], closed,
    FoldSeq(LAMBDA j, bag : bag (+) SetToBag({j}), EmptyBag, jobs),
    due, edits, written, commands>>
=============================================================================
