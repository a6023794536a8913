---------------------------- MODULE MCSharedSync ----------------------------
(***************************************************************************)
(* Instances of SharedSync for TLC: pages a and b, on one document or two.  *)
(***************************************************************************)
EXTENDS SharedSync, TLC

CONSTANTS a, b, d1, d2, peer, disk, q1, q2, q3

MCPages    == {a, b}
MCDocs     == {d1, d2}
MCKinds    == {peer, disk}
MCPorts    == {q1, q2, q3}
Together   == [p \in MCPages |-> d1]
Apart      == [p \in MCPages |-> IF p = a THEN d1 ELSE d2]
Both       == {Together, Apart}
OnlyFirst  == {d1}
OneOrTwo   == {1, 2}
MCMaxSeq   == [c \in OneOrTwo |-> IF c = 1 THEN 3 ELSE 2]
Alike      == Permutations(Ports) \cup Permutations(Kinds)

Everything == {"break", "hide", "exit", "kill", "close", "late", "slow", "throttled", "refused", "resync"}
=============================================================================
