--------------------------- MODULE MCSavedReader ---------------------------
(***************************************************************************)
(* Instances of SavedReader for TLC.                                       *)
(***************************************************************************)
EXTENDS SavedReader

CONSTANTS A, B, C, D

MCBodies    == {A, B, C, D}
\* One file whose versions all differ, one that returns to its first text.
Onward      == [v \in 0 .. MaxVer |-> CASE v = 0 -> A [] v = 1 -> B [] v = 2 -> C [] OTHER -> D]
Back        == [Onward EXCEPT ![2] = A]
MCHistories == {Onward, Back}
OnlyOnward  == {Onward}
\* This host stamps its responses and not its saved frames; others stamp otherwise.
AnyHost     == SUBSET {"frame", "body"}
ThisHost    == {{"body"}}
Faulty      == {"notice", "other", "fail", "refuse", "stop"}
Calm        == {}
=============================================================================
