----------------------------- MODULE MCLiveHub -----------------------------
(***************************************************************************)
(* Instances of LiveHub for TLC: tabs a and b, connections s1 to s3.       *)
(***************************************************************************)
EXTENDS LiveHub, TLC

CONSTANTS a, b, s1, s2, s3, f1, f2, f3

OneTab   == {a}
TwoTabs  == {a, b}
OnlyB    == {b}
NoTabs   == {}
Two      == {s1, s2}
Three    == {s1, s2, s3}
OneFile  == {f1}
MCFiles  == {f1, f2, f3}
Alike    == Permutations(Streams) \cup Permutations(Inos)

Scenario(happens, shared, maxSeq, maxDrops) ==
    [happens |-> happens, shared |-> shared, maxSeq |-> maxSeq, maxDrops |-> maxDrops]

Replays == {Scenario({"relay", "saved", "external", "big", "forget", "early"}, {}, 4, 1)}
Ends    == Scenario({"relay", "lease", "revoke", "replace", "absent"}, {}, 4, 1)
Closes  == Scenario({"relay", "lease", "revoke", "shutdown", "replace", "absent"}, {}, 3, 1)
Ages    == Scenario({"relay", "external", "big", "forget", "expire", "restart", "unreadable"},
                    {a}, 5, 1)
EndsOrAges == {Ends, Closes, Ages}
Serves  == {Scenario({"relay", "saved", "external", "revoke", "early"}, {}, 4, 1)}
Gaps    == {Scenario({"relay", "absent"}, {}, 5, 2)}
=============================================================================
