------------------------------ MODULE MCBroker ------------------------------
(***************************************************************************)
(* Instances of Broker for TLC: a folder proj with a folder sub in it, a    *)
(* link to sub beside them, and a folder the guard vetoes.                  *)
(***************************************************************************)
EXTENDS Broker, TLC

CONSTANTS home, proj, sub, link, lib, inProj, inSub, inLink, inLib, r1, r2, r3, c1, c2

MCNodes   == {home, proj, sub, link, lib, inProj, inSub, inLink, inLib}
MCAbove   == [n \in MCNodes |-> CASE n = home   -> {}
                                  [] n = sub    -> {proj, home}
                                  [] n = inProj -> {proj, home}
                                  [] n = inSub  -> {sub, proj, home}
                                  [] n = inLink -> {link, home}
                                  [] n = inLib  -> {lib, home}
                                  [] OTHER      -> {home}]
MCReal    == [n \in MCNodes |-> CASE n = link   -> sub
                                  [] n = inLink -> inSub
                                  [] OTHER      -> n]
MCBarred  == {lib}
Mixed     == {inProj, inLib}
Linked    == {inProj, inSub, inLink}
TwoReads  == {r1, r2}
ThreeReads == {r1, r2, r3}
OneCaller == {c1}
Leaving   == {"leave", "shutdown"}
Around    == {"open", "untrust", "leave", "shutdown"}
Alike     == Permutations(Readers) \cup Permutations(Callers)
=============================================================================
