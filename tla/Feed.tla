-------------------------------- MODULE Feed --------------------------------
(***************************************************************************)
(* What live sync promises each tab of one document: it sees the events of *)
(* its lane in the order they were published and skips one only when it is *)
(* told so. LiveHub implements it with bounded replay, resume cursors and  *)
(* eviction; nothing of those shows here.                                  *)
(***************************************************************************)
EXTENDS Naturals

CONSTANTS Tabs, Lanes, LaneOf

VARIABLES
    now,    \* the sequence number of the newest event
    log,    \* log[l]: the events published on lane l
    seen    \* seen[t]: t holds every event of its lane up to here; 0 before t joined

vars == <<now, log, seen>>

\* The events t does not have yet.
Missed(t) == {n \in log[LaneOf[t]] : n > seen[t]}

Init == /\ now \in Nat
        /\ log = [l \in Lanes |-> {}]
        /\ seen = [t \in Tabs |-> 0]

\* One event, on one lane, or one on each: an external change is told twice.
Publish(ls) == /\ \E ahead \in [ls -> now + 1 .. now + 2] :
                     /\ \A l, m \in ls : ahead[l] = ahead[m] => l = m
                     /\ now' = now + (IF \E l \in ls : ahead[l] = now + 2 THEN 2 ELSE 1)
                     /\ log' = [l \in Lanes |->
                                  IF l \in ls THEN log[l] \cup {ahead[l]} ELSE log[l]]
               /\ UNCHANGED seen

\* A joining tab holds nothing of the past: it starts at some moment not after now.
Join(t, n) == /\ seen[t] = 0
              /\ n \in 1 .. now
              /\ seen' = [seen EXCEPT ![t] = n]
              /\ UNCHANGED <<now, log>>

\* The next event, never a later one.
Deliver(t, n) == /\ seen[t] > 0
                 /\ n \in Missed(t)
                 /\ \A m \in Missed(t) : n <= m
                 /\ seen' = [seen EXCEPT ![t] = n]
                 /\ UNCHANGED <<now, log>>

\* Told that events are gone, the tab fetches the page and holds all of it.
Refetch(t) == /\ seen' = [seen EXCEPT ![t] = now]
              /\ UNCHANGED <<now, log>>

Next == \/ \E ls \in SUBSET Lanes : Publish(ls)
        \/ \E t \in Tabs : \/ \E n \in 1 .. now : Join(t, n) \/ Deliver(t, n)
                           \/ Refetch(t)

Spec == Init /\ [][Next]_vars
=============================================================================
