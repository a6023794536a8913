----------------------------- MODULE MCDocStore -----------------------------
(***************************************************************************)
(* Instances of DocStore for TLC. Three documents: the bytes "b" and "a"   *)
(* without an htmlclayid, "am" the bytes of "a" with it, and the empty     *)
(* file.                                                                   *)
(***************************************************************************)
EXTENDS DocStore, TLC

CONSTANTS a, b, am, nil, r1, r2, i1

Plain     == {a, b, nil}
WithMark  == {a, am, nil}
MCContent == Plain \cup WithMark
MCMarked  == Content \cap {am}
MCBare    == [c \in Content |-> IF c = am THEN a ELSE c]
MCReq     == {r1, r2}
Handlers  == Permutations(MCReq)
MCSaveIds == {i1}

\* No earlier run, or one that left a version.
MCOldHistories == {{}, {a}}
Versioned      == {{a}}

FewStamps == {None, a}
Stamps    == {None, a, Star}
NoIds == {}
NoFaults == {}

DiskFaults == {"read", "backup", "write", "sync"}
UpdateFaults == {"resolve"}
=============================================================================
