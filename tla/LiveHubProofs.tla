---------------------------- MODULE LiveHubProofs ----------------------------
(***************************************************************************)
(* Theorems about LiveHub, for every set of tabs, connections and file     *)
(* identities, every queue and bucket size and every scenario.             *)
(***************************************************************************)
EXTENDS LiveHub, PickingProofs, FiniteSetTheorems

-----------------------------------------------------------------------------
(* What every step keeps of a connection.                                  *)

Fields == {"st", "tab", "sub", "stopped", "removed", "evicting", "cursor", "out", "queue"}

\* A connection's record and its flags. What it has to write comes further down.
Shaped(x) ==
    /\ x = [f \in Fields |-> x[f]]
    /\ x.sub \in BOOLEAN /\ x.stopped \in BOOLEAN
    /\ x.removed \in BOOLEAN /\ x.evicting \in BOOLEAN

\* A subscriber's connection is open; an open connection is subscribed or stopped;
\* a publisher's call is owed to a connection in use only; what the coordinator
\* removed is stopped.
Sound(x) ==
    /\ Shaped(x)
    /\ x.sub => x.st = "open"
    /\ x.st = "open" => x.sub \/ x.stopped
    /\ x.removed => ~x.sub /\ x.stopped
    /\ x.st = "free" => ~x.evicting /\ ~x.sub

StreamsInv ==
    /\ stream = [s \in Streams |-> stream[s]]
    /\ \A s \in Streams : Sound(stream[s])

\* y is x but for what is still to be written.
SameFlags(y, x) ==
    /\ y.st = x.st /\ y.sub = x.sub /\ y.stopped = x.stopped
    /\ y.removed = x.removed /\ y.evicting = x.evicting

\* What a publish may do to a connection.
Offered(y, x) ==
    \/ SameFlags(y, x)
    \/ /\ x.sub /\ ~y.sub /\ y.stopped /\ y.evicting
       /\ y.st = x.st /\ y.removed = x.removed

\* A connection slot that is free is sound.
LEMMA FreeSound == Sound(FreeStream) /\ Shaped(FreeStream)
  BY DEF FreeStream, Sound, Shaped, Fields

\* An offer keeps a connection sound, whether it queues or evicts.
LEMMA OfferSound ==
    ASSUME NEW x, Sound(x), x.sub, NEW n
    PROVE  Sound(Offer(x, n)) /\ Offered(Offer(x, n), x)
  BY DEF Offer, Offered, SameFlags, Sound, Shaped, Fields

\* So does a publish, for all of them.
LEMMA EnqueuedSound ==
    ASSUME NEW str, \A s \in Streams : Sound(str[s]), NEW l, NEW n
    PROVE  LET new == Enqueued(str, l, n)
           IN  /\ new = [s \in Streams |-> new[s]]
               /\ \A s \in Streams : Sound(new[s]) /\ Offered(new[s], str[s])
  <1> DEFINE new == Enqueued(str, l, n)
  <1>1. new = [s \in Streams |-> new[s]]
    BY DEF Enqueued
  <1>2. ASSUME NEW s \in Streams
        PROVE  Sound(new[s]) /\ Offered(new[s], str[s])
    BY OfferSound DEF Enqueued, Offered, SameFlags
  <1> QED BY <1>1, <1>2

\* Two offers in turn look like one.
LEMMA OfferedTwice ==
    ASSUME NEW x, NEW y, NEW z, Sound(y), Offered(y, x), Offered(z, y)
    PROVE  Offered(z, x)
  BY DEF Offered, SameFlags

\* A publish, whichever event it is of.
Published == \E l \in Lanes, big \in Sizes : Publish(l, big)

\* Every publish offers frames and does nothing else to a connection.
LEMMA PublishOffers ==
    ASSUME StreamsInv, Published \/ \E probe : PublishExternal(probe)
    PROVE  /\ StreamsInv'
           /\ \A s \in Streams : Offered(stream'[s], stream[s])
  <1>1. CASE Published
    <2>1. PICK l, n : stream' = Enqueued(stream, l, n)
      BY <1>1 DEF Published, Publish
    <2> QED BY <2>1, EnqueuedSound DEF StreamsInv
  <1>2. CASE \E probe : PublishExternal(probe)
    <2> DEFINE mid == Enqueued(stream, "live", seq + 1)
    <2>1. \A s \in Streams : Sound(mid[s]) /\ Offered(mid[s], stream[s])
      BY EnqueuedSound DEF StreamsInv
    <2>2. stream' = Enqueued(mid, "saved", seq + 2)
      BY <1>2 DEF PublishExternal
    <2> HIDE DEF mid
    <2>3. StreamsInv' /\ \A s \in Streams : Offered(stream'[s], mid[s])
      BY <2>1, <2>2, EnqueuedSound DEF StreamsInv
    <2> QED BY <2>1, <2>3, OfferedTwice
  <1> QED BY <1>1, <1>2

-----------------------------------------------------------------------------
(* What each step does to the books: connections, references, leases.      *)

\* The coordinator and the hub keep every connection they had.
Stays ==
    /\ UNCHANGED <<refs, leases, stage>>
    /\ \A s \in Streams : /\ stream'[s].st = stream[s].st
                          /\ stream'[s].removed = stream[s].removed
                          /\ stream'[s].sub => stream[s].sub

\* A connection comes, and a closed hub does not subscribe it.
Joins(s) ==
    /\ refs' = Watched /\ UNCHANGED <<leases, stage>>
    /\ stream[s].st = "free"
    /\ stream'[s].st = "open" /\ ~stream'[s].removed
    /\ stage # "open" => ~stream'[s].sub
    /\ \A q \in Streams \ {s} : stream'[q] = stream[q]

\* The coordinator drops a connection, or is asked to again.
Leaves(s) ==
    /\ refs' = (IF stream[s].removed THEN refs ELSE Unwatched(refs))
    /\ UNCHANGED <<leases, stage>>
    /\ stream[s].st # "free"
    /\ stream'[s].st = "free" \/ stream'[s].removed
    /\ ~stream'[s].sub
    /\ \A q \in Streams \ {s} : stream'[q] = stream[q]

Leased ==
    /\ UNCHANGED <<stream, stage>>
    /\ \/ leases = 0 /\ leases' = 1 /\ refs' = Watched
       \/ leases = 1 /\ leases' = 0 /\ refs' = Unwatched(refs)

Closes ==
    /\ stage' = "hub" /\ UNCHANGED <<refs, leases>> /\ stage = "open"
    /\ \A s \in Streams : /\ stream'[s].st = stream[s].st
                          /\ stream'[s].removed = stream[s].removed
                          /\ ~stream'[s].sub

StopsWatching == stage = "hub" /\ stage' = "all" /\ refs' = 0 /\ UNCHANGED <<leases, stream>>

StartsAnew ==
    /\ stage' = "open" /\ refs' = 0 /\ leases' = 0
    /\ stream' = [s \in Streams |-> FreeStream]

Books ==
    \/ Stays \/ Leased \/ Closes \/ StopsWatching \/ StartsAnew
    \/ \E s \in Streams : Joins(s) \/ Leaves(s)

\* One connection's record changes, soundly.
LEMMA OneStream ==
    ASSUME StreamsInv, NEW s \in Streams, NEW x, Sound(x), stream' = [stream EXCEPT ![s] = x]
    PROVE  StreamsInv' /\ stream'[s] = x /\ \A q \in Streams \ {s} : stream'[q] = stream[q]
  BY DEF StreamsInv

\* One connection changed, membership aside, leaves the books as they are.
LEMMA Replaced ==
    ASSUME StreamsInv, NEW s \in Streams, NEW x, Sound(x), SameFlags(x, stream[s]),
           stream' = [stream EXCEPT ![s] = x], UNCHANGED <<refs, leases, stage>>
    PROVE  StreamsInv' /\ Books
  <1>1. StreamsInv' /\ stream'[s] = x /\ \A q \in Streams \ {s} : stream'[q] = stream[q]
    BY OneStream
  <1>2. Stays
    BY <1>1 DEF Stays, SameFlags
  <1> QED BY <1>1, <1>2 DEF Books

\* A connection that arrives is one more held, and one more reference.
LEMMA Arrived ==
    ASSUME StreamsInv, NEW s \in Streams, NEW x, Sound(x),
           stream' = [stream EXCEPT ![s] = x], stream[s].st = "free",
           x.st = "open", ~x.removed, stage # "open" => ~x.sub,
           refs' = Watched, UNCHANGED <<leases, stage>>
    PROVE  StreamsInv' /\ Books
  <1>1. StreamsInv' /\ stream'[s] = x /\ \A q \in Streams \ {s} : stream'[q] = stream[q]
    BY OneStream
  <1>2. Joins(s)
    BY <1>1 DEF Joins
  <1> QED BY <1>1, <1>2 DEF Books

\* A connection that goes, or that the coordinator removes, is one less held and one reference less.
LEMMA Dropped ==
    ASSUME StreamsInv, NEW s \in Streams, NEW x, Sound(x),
           stream' = [stream EXCEPT ![s] = x], stream[s].st # "free",
           x.st = "free" \/ x.removed, ~x.sub,
           refs' = (IF stream[s].removed THEN refs ELSE Unwatched(refs)),
           UNCHANGED <<leases, stage>>
    PROVE  StreamsInv' /\ Books
  <1>1. StreamsInv' /\ stream'[s] = x /\ \A q \in Streams \ {s} : stream'[q] = stream[q]
    BY OneStream
  <1>2. Leaves(s)
    BY <1>1 DEF Leaves
  <1> QED BY <1>1, <1>2 DEF Books

\* Every step keeps the connections sound and the references in step with them.
LEMMA HubMoves ==
    ASSUME StreamsInv, [Next]_vars
    PROVE  StreamsInv' /\ Books
  <1> USE DEF hubVars, fileVars, tabVars
  <1>s. \A s \in Streams : Sound(stream[s])
    BY DEF StreamsInv
  <1>u. ASSUME UNCHANGED <<stream, refs, leases, stage>>
        PROVE  StreamsInv' /\ Books
    BY <1>u DEF StreamsInv, Books, Stays
  <1>1. ASSUME NEW t \in Tabs, NEW s \in Streams, NEW probe \in Probes, Connect(t, s, probe)
        PROVE  StreamsInv' /\ Books
    <2>1. PICK c, o : stream' = [stream EXCEPT ![s] = [Opened(t, c, o) EXCEPT !.sub = TRUE]]
      BY <1>1 DEF Connect
    <2> DEFINE x == [Opened(t, c, o) EXCEPT !.sub = TRUE]
    <2>2. Sound(x) /\ x.st = "open" /\ ~x.removed
      BY DEF Opened, FreeStream, Sound, Shaped, Fields
    <2>3. stream' = [stream EXCEPT ![s] = x]
      BY <2>1
    <2> HIDE DEF x
    <2>4. stage = "open" /\ stream[s].st = "free" /\ refs' = Watched /\ UNCHANGED <<leases, stage>>
      BY <1>1 DEF Connect
    <2> QED BY <2>2, <2>3, <2>4, Arrived
  <1>2. ASSUME NEW t \in Tabs, NEW s \in Streams, ConnectClosed(t, s)
        PROVE  StreamsInv' /\ Books
    <2>1. PICK c, o : stream' = [stream EXCEPT ![s] = [Opened(t, c, o) EXCEPT !.stopped = TRUE]]
      BY <1>2 DEF ConnectClosed, Refuse
    <2> DEFINE x == [Opened(t, c, o) EXCEPT !.stopped = TRUE]
    <2>2. Sound(x) /\ x.st = "open" /\ ~x.removed /\ ~x.sub
      BY DEF Opened, FreeStream, Sound, Shaped, Fields
    <2>3. stream' = [stream EXCEPT ![s] = x]
      BY <2>1
    <2> HIDE DEF x
    <2>4. stream[s].st = "free" /\ refs' = Watched /\ UNCHANGED <<leases, stage>>
      BY <1>2 DEF ConnectClosed, Refuse
    <2> QED BY <2>2, <2>3, <2>4, Arrived
  <1>3. ASSUME NEW s \in Streams, WriteCursor(s)
        PROVE  StreamsInv' /\ Books
    <2> DEFINE x == [stream[s] EXCEPT !.cursor = None]
    <2>1. Sound(x) /\ SameFlags(x, stream[s])
      BY <1>s DEF Sound, Shaped, Fields, SameFlags
    <2>2. stream' = [stream EXCEPT ![s] = x] /\ UNCHANGED <<refs, leases, stage>>
      BY <1>3 DEF WriteCursor
    <2> HIDE DEF x
    <2> QED BY <2>1, <2>2, Replaced
  <1>4. ASSUME NEW s \in Streams, WriteFrame(s)
        PROVE  StreamsInv' /\ Books
    <2>0. PICK from \in {"out", "queue"} :
              \E q : stream' = [stream EXCEPT ![s] = [stream[s] EXCEPT ![from] = q]]
      BY <1>4 DEF WriteFrame, NextOut
    <2>1. PICK q : stream' = [stream EXCEPT ![s] = [stream[s] EXCEPT ![from] = q]]
      BY <2>0
    <2> DEFINE x == [stream[s] EXCEPT ![from] = q]
    <2>2. Sound(x) /\ SameFlags(x, stream[s])
      BY <1>s DEF Sound, Shaped, Fields, SameFlags
    <2>3. stream' = [stream EXCEPT ![s] = x] /\ UNCHANGED <<refs, leases, stage>>
      BY <1>4, <2>1 DEF WriteFrame
    <2> HIDE DEF x
    <2> QED BY <2>2, <2>3, Replaced
  <1>5. ASSUME NEW s \in Streams, Finish(s)
        PROVE  StreamsInv' /\ Books
    <2> DEFINE x == IF stream[s].evicting THEN [Removed(stream[s]) EXCEPT !.st = "gone"] ELSE FreeStream
    <2>1. Sound(x) /\ (x.st = "free" \/ x.removed) /\ ~x.sub
      <3>1. Sound([Removed(stream[s]) EXCEPT !.st = "gone"])
            /\ [Removed(stream[s]) EXCEPT !.st = "gone"].removed
        BY <1>s DEF Removed, Sound, Shaped, Fields
      <3>2. FreeStream.st = "free"
        BY DEF FreeStream
      <3>3. Sound(x) /\ (x.st = "free" \/ x.removed)
        BY <3>1, <3>2, FreeSound
      <3> HIDE DEF x
      <3> QED BY <3>3 DEF Sound
    <2>2. stream' = [stream EXCEPT ![s] = x]
      BY <1>5 DEF Finish
    <2>3. /\ stream[s].st # "free" /\ UNCHANGED <<leases, stage>>
          /\ refs' = (IF stream[s].removed THEN refs ELSE Unwatched(refs))
      BY <1>5 DEF Finish, Remove
    <2> HIDE DEF x
    <2> QED BY <2>1, <2>2, <2>3, Dropped
  <1>6. ASSUME NEW s \in Streams, Evict(s)
        PROVE  StreamsInv' /\ Books
    <2> DEFINE x == IF stream[s].st = "gone" THEN FreeStream
                    ELSE [Removed(stream[s]) EXCEPT !.evicting = FALSE]
    <2>1. Sound(x) /\ (x.st = "free" \/ x.removed) /\ ~x.sub
      <3>1. Sound([Removed(stream[s]) EXCEPT !.evicting = FALSE])
            /\ [Removed(stream[s]) EXCEPT !.evicting = FALSE].removed
        BY <1>s DEF Removed, Sound, Shaped, Fields
      <3>2. FreeStream.st = "free"
        BY DEF FreeStream
      <3>3. Sound(x) /\ (x.st = "free" \/ x.removed)
        BY <3>1, <3>2, FreeSound
      <3> HIDE DEF x
      <3> QED BY <3>3 DEF Sound
    <2>2. stream' = [stream EXCEPT ![s] = x]
      BY <1>6 DEF Evict
    <2>3. /\ stream[s].st # "free" /\ UNCHANGED <<leases, stage>>
          /\ refs' = (IF stream[s].removed THEN refs ELSE Unwatched(refs))
      BY <1>6, <1>s DEF Evict, Remove, Sound
    <2> HIDE DEF x
    <2> QED BY <2>1, <2>2, <2>3, Dropped
  <1>7. CASE DropSubscribers
    <2>1. /\ stream' = [s \in Streams |-> [stream[s] EXCEPT !.stopped = @ \/ stream[s].sub]]
          /\ UNCHANGED <<refs, leases, stage>>
      BY <1>7 DEF DropSubscribers
    <2>2. ASSUME NEW s \in Streams
          PROVE  /\ Sound(stream'[s]) /\ stream'[s].st = stream[s].st
                 /\ stream'[s].removed = stream[s].removed /\ stream'[s].sub = stream[s].sub
      <3> DEFINE b == stream[s].stopped \/ stream[s].sub
      <3>1. b \in BOOLEAN /\ stream'[s] = [stream[s] EXCEPT !.stopped = b]
        BY <2>1
      <3> HIDE DEF b
      <3>2. b <=> (stream[s].stopped \/ stream[s].sub)
        BY DEF b
      <3> QED BY <1>s, <3>1, <3>2 DEF Sound, Shaped, Fields
    <2> QED BY <2>1, <2>2 DEF StreamsInv, Books, Stays
  <1>8. CASE HubShutdown
    <2>1. /\ stream' = [s \in Streams |-> [stream[s] EXCEPT !.stopped = @ \/ stream[s].sub, !.sub = FALSE]]
          /\ stage = "open" /\ stage' = "hub" /\ UNCHANGED <<refs, leases>>
      BY <1>8 DEF HubShutdown
    <2>2. ASSUME NEW s \in Streams
          PROVE  /\ Sound(stream'[s]) /\ stream'[s].st = stream[s].st
                 /\ stream'[s].removed = stream[s].removed /\ ~stream'[s].sub
      <3> DEFINE b == stream[s].stopped \/ stream[s].sub
      <3>1. b \in BOOLEAN /\ stream'[s] = [stream[s] EXCEPT !.stopped = b, !.sub = FALSE]
        BY <2>1
      <3> HIDE DEF b
      <3>2. b <=> (stream[s].stopped \/ stream[s].sub)
        BY DEF b
      <3> QED BY <1>s, <3>1, <3>2 DEF Sound, Shaped, Fields
    <2> QED BY <2>1, <2>2 DEF StreamsInv, Books, Closes
  <1>9. CASE Relay \/ BroadcastSaved \/ \E probe \in Probes : PublishExternal(probe)
    <2>1. UNCHANGED <<refs, leases, stage>>
      BY <1>9 DEF Relay, BroadcastSaved, Publish, PublishExternal
    <2>2. Published \/ \E probe : PublishExternal(probe)
      BY <1>9 DEF Relay, BroadcastSaved, Published, Lanes
    <2>3. Stays
      BY <2>1, <2>2, PublishOffers DEF Stays, Offered, SameFlags
    <2> QED BY <2>2, <2>3, PublishOffers DEF Books
  <1>10. CASE Lease \/ Unlease
    BY <1>10 DEF Lease, Unlease, StreamsInv, Books, Leased
  <1>11. CASE WatcherShutdown
    BY <1>11 DEF WatcherShutdown, StreamsInv, Books, StopsWatching
  <1>12. CASE Restart
    <2>1. StartsAnew
      BY <1>12 DEF Restart, StartsAnew
    <2>2. StreamsInv'
      BY <2>1, FreeSound DEF StartsAnew, StreamsInv
    <2> QED BY <2>1, <2>2 DEF Books
  <1>13. ASSUME \/ \E t \in Tabs : Drop(t)
                \/ \E i \in Inos : ExtReplace(i) \/ ExtCreate(i)
                \/ \E i \in Inos, probe \in Inos \cup {None} : ServerReplace(i, probe)
                \/ ExtDelete \/ MarkAbsent \/ Expire \/ DropInactive
                \/ \E l \in Lanes : Forget(l)
         PROVE  StreamsInv' /\ Books
    BY <1>u, <1>13 DEF Drop, ExtReplace, ExtCreate, ServerReplace, ExtDelete, MarkAbsent,
                       Expire, DropInactive, Forget
  <1>14. CASE UNCHANGED vars
    BY <1>u, <1>14 DEF vars
  <1> QED
    BY <1>1, <1>2, <1>3, <1>4, <1>5, <1>6, <1>7, <1>8, <1>9, <1>10, <1>11, <1>12,
       <1>13, <1>14 DEF Next

-----------------------------------------------------------------------------
(* A closed hub, and the watcher's reference count.                        *)

Closed == stage # "open" => \A s \in Streams : ~stream[s].sub

Balanced ==
    /\ refs \in Nat /\ leases \in {0, 1}
    /\ stage # "all" => refs = Cardinality(Held(stream)) + leases

BooksInv == StreamsInv /\ Closed /\ Balanced

\* A closed hub keeps nobody subscribed.
LEMMA NextClosed ==
    ASSUME StreamsInv, Closed, Books
    PROVE  Closed'
  <1>1. CASE Stays
    BY <1>1 DEF Stays, Closed
  <1>2. ASSUME NEW s \in Streams, Joins(s) \/ Leaves(s)
        PROVE  Closed'
    BY <1>2 DEF Joins, Leaves, Closed
  <1>3. CASE Leased \/ Closes \/ StopsWatching \/ StartsAnew
    BY <1>3 DEF Leased, Closes, StopsWatching, StartsAnew, Closed
  <1> QED BY <1>1, <1>2, <1>3 DEF Books

\* Every step keeps the references balanced.
LEMMA NextBalanced ==
    ASSUME HubAssumption, StreamsInv, Balanced, Books
    PROVE  Balanced'
  <1>h. IsFiniteSet(Held(stream)) /\ Cardinality(Held(stream)) \in Nat
    <2>1. Held(stream) \in SUBSET Streams
      BY DEF Held
    <2> QED BY <2>1, FS_Subset, FS_CardinalityType DEF HubAssumption
  <1>1. CASE Stays \/ Closes
    <2>1. Held(stream)' = Held(stream)
      BY <1>1 DEF Stays, Closes, Held
    <2>2. stage # "all" \/ stage' = "all"
      BY <1>1 DEF Stays, Closes
    <2>3. UNCHANGED <<refs, leases>>
      BY <1>1 DEF Stays, Closes
    <2> QED BY <2>1, <2>2, <2>3 DEF Balanced
  <1>2. ASSUME NEW s \in Streams, Joins(s)
        PROVE  Balanced'
    <2>1. Held(stream)' = Held(stream) \cup {s} /\ s \notin Held(stream)
      BY <1>2 DEF Joins, Held
    <2>2. Cardinality(Held(stream)') = Cardinality(Held(stream)) + 1
      BY <1>h, <2>1, FS_AddElement
    <2> QED BY <1>h, <1>2, <2>2 DEF Joins, Watched, Balanced
  <1>3. ASSUME NEW s \in Streams, Leaves(s)
        PROVE  Balanced'
    <2>1. Held(stream)' = Held(stream) \ {s}
      BY <1>3 DEF Leaves, Held
    <2>2. s \in Held(stream) <=> ~stream[s].removed
      BY <1>3 DEF Leaves, Held
    <2>3. CASE stream[s].removed
      <3>1. Held(stream)' = Held(stream)
        BY <2>1, <2>2, <2>3
      <3> QED BY <1>3, <2>3, <3>1 DEF Leaves, Balanced
    <2>4. CASE ~stream[s].removed
      <3>1. Cardinality(Held(stream)') = Cardinality(Held(stream)) - 1
        BY <1>h, <2>1, <2>2, <2>4, FS_RemoveElement, ZenonT(60)
      <3>2. Cardinality(Held(stream)) # 0
        BY <1>h, <2>2, <2>4, FS_EmptySet
      <3>3. refs' = Unwatched(refs) /\ UNCHANGED <<leases, stage>>
        BY <1>3, <2>4 DEF Leaves
      <3>4. CASE stage = "all"
        BY <3>3, <3>4 DEF Unwatched, Balanced
      <3>5. CASE stage # "all"
        <4>1. refs' = refs - 1 /\ refs # 0
          BY <1>h, <3>2, <3>3, <3>5 DEF Unwatched, Balanced
        <4> QED BY <1>h, <3>1, <3>2, <3>3, <3>5, <4>1 DEF Balanced
      <3> QED BY <3>4, <3>5
    <2> QED BY <2>3, <2>4
  <1>4. CASE Leased
    <2>1. Held(stream)' = Held(stream) /\ stage' = stage
      BY <1>4 DEF Leased, Held
    <2>2. CASE leases = 0 /\ leases' = 1 /\ refs' = Watched
      BY <1>h, <2>1, <2>2 DEF Watched, Balanced
    <2>3. CASE leases = 1 /\ leases' = 0 /\ refs' = Unwatched(refs)
      <3>1. stage # "all" => refs # 0 /\ refs = Cardinality(Held(stream)) + 1
        BY <1>h, <2>3 DEF Balanced
      <3> QED BY <1>h, <2>1, <2>3, <3>1 DEF Unwatched, Balanced
    <2> QED BY <1>4, <2>2, <2>3 DEF Leased
  <1>5. CASE StopsWatching
    BY <1>5 DEF StopsWatching, Balanced
  <1>6. CASE StartsAnew
    <2>1. Held(stream)' = {}
      BY <1>6 DEF StartsAnew, Held, FreeStream
    <2>2. Cardinality(Held(stream)') = 0
      BY <2>1, FS_EmptySet
    <2> QED BY <1>6, <2>2 DEF StartsAnew, Balanced
  <1> QED BY <1>1, <1>2, <1>3, <1>4, <1>5, <1>6 DEF Books

\* The books are balanced at the start.
LEMMA InitBooks == ASSUME HubAssumption, Init PROVE BooksInv
  <1>1. StreamsInv
    BY FreeSound DEF Init, StreamsInv
  <1>2. Held(stream) = {}
    BY DEF Init, Held, FreeStream
  <1>3. Cardinality(Held(stream)) = 0
    BY <1>2, FS_EmptySet
  <1> QED BY <1>1, <1>3 DEF Init, BooksInv, Closed, Balanced

\* The books stay balanced.
LEMMA BooksKept == ASSUME HubAssumption PROVE Spec => []BooksInv
  <1>1. Init => BooksInv
    BY InitBooks
  <1>2. BooksInv /\ [Next]_vars => BooksInv'
    BY HubMoves, NextClosed, NextBalanced DEF BooksInv
  <1> QED BY <1>1, <1>2, PTL DEF Spec

\* Until the watcher is shut down it holds one reference for each stream the
\* coordinator still holds and one for the lease, for any number of connections and
\* whatever the order of an eviction and the handler's own deferred remove
\* (streamCoordinator.remove, effective once).
THEOREM ReferencesBalanced == ASSUME HubAssumption PROVE Spec => []RefsBalanced
  <1>1. BooksInv => RefsBalanced
    BY DEF BooksInv, Balanced, RefsBalanced
  <1> QED BY <1>1, BooksKept, PTL

\* A closed hub delivers to nobody and every connection it still has is stopped,
\* those that register after the close included (hub.shutdown, hub.add's refusal).
THEOREM ClosedHubSilent ==
    ASSUME HubAssumption PROVE Spec => []ClosedHasNoSubs
  <1>1. BooksInv => ClosedHasNoSubs
    BY DEF BooksInv, StreamsInv, Sound, Closed, ClosedHasNoSubs, Subscribed
  <1> QED BY <1>1, BooksKept, PTL

-----------------------------------------------------------------------------
(* Replay buckets and the record that holds one for each lane.            *)

BucketShape(b) == b = [f \in {"frames", "dropped"} |-> b[f]]

GoodBucket(b, n) ==
    /\ BucketShape(b)
    /\ Line(b.frames, n) /\ Len(b.frames) <= BucketCap
    /\ b.dropped \in 0 .. n

GoodInc(i, n) ==
    /\ i = [f \in {"anchor", "live", "saved"} |-> i[f]]
    /\ i.anchor \in Inos \cup {None}
    /\ \A l \in Lanes : GoodBucket(i[l], n)

\* b can still tell that n was published: replay returns it, or the mark covers it.
Keeps(b, n) == n <= b.dropped \/ n \in Elems(b.frames)

\* The empty sequence is a line.
LEMMA EmptyLine == Line(<<>>, 1) /\ Elems(<<>>) = {} /\ Len(<<>>) = 0
  BY DEF Line, Elems

\* An empty bucket is well formed.
LEMMA EmptyGood ==
    ASSUME HubAssumption, NEW n \in Nat, n >= 1
    PROVE  GoodBucket(EmptyBucket, n) /\ GoodInc(FreshInc, n)
  <1>1. Line(<<>>, n) /\ Len(<<>>) = 0
    BY EmptyLine, LineGrows
  <1>2. GoodBucket(EmptyBucket, n)
    BY <1>1 DEF GoodBucket, EmptyBucket, HubAssumption, BucketShape
  <1> QED BY <1>2 DEF GoodInc, FreshInc, Lanes

\* A bucket stays well formed when the counter goes up.
LEMMA BucketGrows ==
    ASSUME NEW n \in Nat, NEW m \in Nat, n <= m, NEW b, GoodBucket(b, n)
    PROVE  GoodBucket(b, m)
  BY LineGrows DEF GoodBucket

\* So does a record of the path.
LEMMA IncGrows ==
    ASSUME NEW n \in Nat, NEW m \in Nat, n <= m, NEW i, GoodInc(i, n)
    PROVE  GoodInc(i, m)
  BY BucketGrows DEF GoodInc

\* Dropping the oldest frame leaves a well-formed bucket, shorter by one.
LEMMA DropOldestGood ==
    ASSUME NEW n \in Nat, NEW b, 
           BucketShape(b), Line(b.frames, n), b.dropped \in 0 .. n, b.frames # <<>>
    PROVE  LET r == DropOldest(b)
           IN  /\ BucketShape(r)
               /\ Line(r.frames, n) /\ r.dropped \in 0 .. n
               /\ Len(r.frames) = Len(b.frames) - 1
               /\ \A k \in Nat : Keeps(b, k) => Keeps(r, k)
               /\ b.dropped <= r.dropped
               /\ Elems(r.frames) \subseteq Elems(b.frames)
  <1> DEFINE h == Head(b.frames)
  <1>1. /\ Line(Tail(b.frames), n) /\ Len(Tail(b.frames)) = Len(b.frames) - 1
        /\ h \in 1 .. n
        /\ Elems(Tail(b.frames)) = Elems(b.frames) \ {h}
    BY LineTail
  <1> HIDE DEF h
  <1>2. DropOldest(b) = [frames |-> Tail(b.frames), dropped |-> IF b.dropped > h THEN b.dropped ELSE h]
    BY DEF DropOldest, Higher, h
  <1> DEFINE r == DropOldest(b)
  <1>3. /\ BucketShape(r) /\ r.frames = Tail(b.frames)
        /\ r.dropped = IF b.dropped > h THEN b.dropped ELSE h
    BY <1>2 DEF BucketShape
  <1> HIDE DEF r
  <1>4. b.dropped <= r.dropped /\ h <= r.dropped /\ r.dropped \in 0 .. n
    BY <1>1, <1>3
  <1>5. \A k \in Nat : Keeps(b, k) => Keeps(r, k)
    <2> SUFFICES ASSUME NEW k \in Nat, Keeps(b, k) PROVE Keeps(r, k)
      OBVIOUS
    <2>1. CASE k <= b.dropped \/ k = h
      <3>1. k <= r.dropped
        BY <1>1, <1>4, <2>1
      <3> QED BY <3>1 DEF Keeps
    <2>2. CASE k \in Elems(b.frames) /\ k # h
      BY <1>1, <1>3, <2>2 DEF Keeps
    <2> QED BY <2>1, <2>2 DEF Keeps
  <1>6. Elems(r.frames) \subseteq Elems(b.frames)
    BY <1>1, <1>3
  <1> QED BY <1>1, <1>3, <1>4, <1>5, <1>6 DEF r

\* Retaining a frame, whatever its size, keeps the bucket well formed and within its cap.
LEMMA RetainGood ==
    ASSUME HubAssumption, NEW n \in Nat, NEW m \in Nat, n < m, NEW big \in BOOLEAN, NEW b, GoodBucket(b, n)
    PROVE  LET r == Retain(b, m, big)
           IN  /\ GoodBucket(r, m)
               /\ \A k \in Nat : Keeps(b, k) \/ k = m => Keeps(r, k)
               /\ b.dropped <= r.dropped
               /\ Elems(r.frames) \subseteq Elems(b.frames) \cup {m}
               /\ ~big => r.frames # <<>>
  <1> DEFINE r == Retain(b, m, big)
             g == [b EXCEPT !.frames = Append(b.frames, m)]
  <1>0. /\ b.dropped \in 0 .. n /\ BucketCap \in Nat \ {0} /\ Line(b.frames, m) /\ Line(b.frames, n)
        /\ Len(b.frames) <= BucketCap /\ Len(b.frames) \in Nat
        /\ BucketShape(b)
    BY LineGrows, LineElems DEF GoodBucket, HubAssumption
  <1>1. CASE big
    <2>1. r.frames = b.frames /\ r.dropped = m /\ BucketShape(r)
      BY <1>0, <1>1 DEF Retain, Higher, BucketShape
    <2> HIDE DEF r
    <2>2. Elems(r.frames) = Elems(b.frames)
      BY <2>1
    <2>3. GoodBucket(r, m) /\ b.dropped <= r.dropped
      BY <1>0, <2>1 DEF GoodBucket
    <2>4. \A k \in Nat : Keeps(b, k) \/ k = m => Keeps(r, k)
      BY <1>0, <2>1 DEF Keeps
    <2> QED BY <1>1, <2>2, <2>3, <2>4 DEF r
  <1>2. CASE ~big
    <2>1. /\ Line(Append(b.frames, m), m) /\ Len(Append(b.frames, m)) = Len(b.frames) + 1
          /\ Elems(Append(b.frames, m)) = Elems(b.frames) \cup {m}
      BY <1>0, LineAppend
    <2>n. n \in 0 .. m /\ b.dropped \in 0 .. m
      BY <1>0
    <2>2. /\ BucketShape(g) /\ g.dropped = b.dropped
          /\ g.frames = Append(b.frames, m)
      BY <1>0 DEF BucketShape
    <2>3. r = IF Len(g.frames) > BucketCap THEN DropOldest(g) ELSE g
      BY <1>2 DEF Retain
    <2> HIDE DEF g, r
    <2>4. /\ Line(g.frames, m) /\ Len(g.frames) = Len(b.frames) + 1 /\ Elems(g.frames) = Elems(b.frames) \cup {m}
          /\ g.dropped \in 0 .. m
      BY <1>0, <2>1, <2>2
    <2>5. \A k \in Nat : Keeps(b, k) \/ k = m => Keeps(g, k)
      BY <2>2, <2>4 DEF Keeps
    <2>6. CASE Len(g.frames) > BucketCap
      <3>1. g.frames # <<>>
        BY <1>0, <2>4
      <3>2. /\ BucketShape(r)
            /\ Line(r.frames, m) /\ r.dropped \in 0 .. m
            /\ Len(r.frames) = Len(g.frames) - 1
            /\ \A k \in Nat : Keeps(g, k) => Keeps(r, k)
            /\ b.dropped <= r.dropped
            /\ Elems(r.frames) \subseteq Elems(g.frames)
        BY <2>2, <2>3, <2>4, <2>6, <3>1, DropOldestGood
      <3>3. GoodBucket(r, m)
        BY <1>0, <2>4, <3>2 DEF GoodBucket
      <3>4. Len(r.frames) >= 1
        BY <1>0, <2>4, <2>6, <3>2
      <3>5. r.frames # <<>>
        BY <3>4
      <3> QED BY <2>4, <2>5, <3>2, <3>3, <3>5 DEF r
    <2>7. CASE ~(Len(g.frames) > BucketCap)
      <3>1. r = g
        BY <2>3, <2>7
      <3>2. GoodBucket(r, m)
        <4>1. Len(g.frames) <= BucketCap
          BY <1>0, <2>4, <2>7
        <4>2. GoodBucket(g, m)
          BY <2>2, <2>4, <4>1 DEF GoodBucket
        <4> QED BY <3>1, <4>2
      <3>3. r.frames # <<>>
        <4>1. Len(r.frames) >= 1
          BY <1>0, <2>4, <3>1
        <4> QED BY <4>1
      <3>4. b.dropped <= r.dropped
        BY <1>0, <2>2, <3>1
      <3> QED BY <2>4, <2>5, <3>1, <3>2, <3>3, <3>4 DEF r
    <2> QED BY <2>6, <2>7
  <1> QED BY <1>1, <1>2

\* So does aging out its first k frames.
LEMMA AgedGood ==
    ASSUME HubAssumption, NEW n \in Nat, NEW b, GoodBucket(b, n), NEW k \in 0 .. Len(b.frames)
    PROVE  GoodBucket(Aged(b, k), n)
  <1> DEFINE r == SubSeq(b.frames, k + 1, Len(b.frames))
  <1>1. Line(b.frames, n) /\ Len(b.frames) <= BucketCap /\ b.dropped \in 0 .. n /\ Len(b.frames) \in Nat
    BY LineElems DEF GoodBucket
  <1>2. Line(r, n) /\ Len(r) = Len(b.frames) - k /\ (k > 0 => b.frames[k] \in 1 .. n)
    BY <1>1, LineFrom
  <1> HIDE DEF r
  <1>3. Aged(b, k) = [frames |-> r, dropped |-> IF k = 0 THEN b.dropped ELSE Higher(b.dropped, b.frames[k])]
    BY DEF Aged, r
  <1>4. BucketCap \in Nat
    BY DEF HubAssumption
  <1> QED BY <1>1, <1>2, <1>3, <1>4 DEF GoodBucket, Higher, BucketShape
-----------------------------------------------------------------------------
\* Observing the file leaves a well-formed record.
LEMMA ObservedGood ==
    ASSUME HubAssumption, NEW n \in Nat, n >= 1, NEW i, i = None \/ GoodInc(i, n), NEW probe \in Inos \cup {None}
    PROVE  GoodInc(Ensured(i), n) /\ GoodInc(Observed(i, probe), n)
  <1> DEFINE now == Ensured(i)
             kept == IF Rolls(now, probe) THEN Cleared(now) ELSE now
  <1>1. GoodInc(now, n)
    BY EmptyGood DEF Ensured
  <1>2. GoodInc(Cleared(now), n)
    <2> HIDE DEF now
    <2> QED BY <1>1, EmptyGood DEF GoodInc, Cleared, Lanes
  <1>3. GoodInc(kept, n)
    BY <1>1, <1>2
  <1>4. Observed(i, probe) = [kept EXCEPT !.anchor = probe]
    BY DEF Observed
  <1> HIDE DEF kept, now
  <1>5. GoodInc([kept EXCEPT !.anchor = probe], n)
    BY <1>3 DEF GoodInc, Lanes
  <1> QED BY <1>1, <1>4, <1>5 DEF now

CursorType(n) == [base : 1 .. n, away : BOOLEAN] \cup {None}

StreamTyped(x, n) ==
    /\ x.st \in {"free", "open", "gone"}
    /\ x.tab \in Tabs \cup {None} /\ (x.st = "open" => x.tab \in Tabs)
    /\ x.cursor \in [base : 1 .. n, resync : BOOLEAN] \cup {None}
    /\ Line(x.out, n) /\ Line(x.queue, n) /\ Len(x.queue) <= QueueSize

Ordered(x) ==
    /\ \A m \in Elems(x.out), k \in Elems(x.queue) : m < k
    /\ x.cursor # None => \A m \in Elems(x.out) \cup Elems(x.queue) : x.cursor.base < m

GoodStream(x, n) == StreamTyped(x, n) /\ Ordered(x)

\* A connection stays well formed when the counter goes up.
LEMMA StreamGrows ==
    ASSUME NEW n \in Nat, NEW m \in Nat, n <= m, NEW x, GoodStream(x, n)
    PROVE  GoodStream(x, m)
  BY LineGrows DEF GoodStream, StreamTyped

\* An offered frame is newer than all a connection has to write, and its queue keeps its limit.
LEMMA OfferGood ==
    ASSUME HubAssumption, NEW n \in Nat, NEW m \in Nat, n < m, NEW x, Sound(x), GoodStream(x, n)
    PROVE  /\ GoodStream(Offer(x, m), m)
           /\ Offer(x, m).cursor = x.cursor /\ Offer(x, m).out = x.out
           /\ Offer(x, m).tab = x.tab /\ Offer(x, m).st = x.st
           /\ \/ Offer(x, m).sub = x.sub /\ Elems(Offer(x, m).queue) = Elems(x.queue) \cup {m}
              \/ ~Offer(x, m).sub /\ Offer(x, m).queue = x.queue /\ Offer(x, m).stopped
  <1> USE DEF Shaped, Fields
  <1>1. QueueSize \in Nat /\ Line(x.queue, n) /\ Line(x.out, n) /\ x = [f \in Fields |-> x[f]] /\ GoodStream(x, m)
    BY StreamGrows DEF GoodStream, StreamTyped, Sound, HubAssumption
  <1>2. /\ Line(Append(x.queue, m), m) /\ Len(Append(x.queue, m)) = Len(x.queue) + 1
        /\ Elems(Append(x.queue, m)) = Elems(x.queue) \cup {m}
        /\ Elems(x.out) \subseteq 1 .. n
        /\ Len(x.queue) \in Nat
    BY <1>1, LineAppend, LineElems
  <1>3. CASE Len(x.queue) < QueueSize
    <2> DEFINE y == [x EXCEPT !.queue = Append(x.queue, m)]
    <2>1. Offer(x, m) = y
      BY <1>3 DEF Offer
    <2>2. /\ y.queue = Append(x.queue, m) /\ y.out = x.out /\ y.cursor = x.cursor /\ y.tab = x.tab
          /\ y.st = x.st /\ y.sub = x.sub
      BY <1>1
    <2> HIDE DEF y
    <2>3. StreamTyped(y, m)
      BY <1>1, <1>2, <1>3, <2>2 DEF GoodStream, StreamTyped
    <2>4. Ordered(y)
      <3>1. \A k \in Elems(x.out) : k < m
        BY <1>2
      <3>2. x.cursor # None => x.cursor.base < m
        BY <1>1 DEF GoodStream, StreamTyped
      <3> QED BY <1>1, <1>2, <2>2, <3>1, <3>2 DEF GoodStream, Ordered
    <2> QED BY <1>2, <2>1, <2>2, <2>3, <2>4 DEF GoodStream
  <1>4. CASE ~(Len(x.queue) < QueueSize)
    <2> DEFINE y == [x EXCEPT !.sub = FALSE, !.stopped = TRUE, !.evicting = TRUE]
    <2>1. Offer(x, m) = y
      BY <1>4 DEF Offer
    <2>2. /\ y.queue = x.queue /\ y.out = x.out /\ y.cursor = x.cursor /\ y.tab = x.tab
          /\ y.st = x.st /\ ~y.sub /\ y.stopped
      BY <1>1
    <2> HIDE DEF y
    <2> QED BY <1>1, <2>1, <2>2 DEF GoodStream, StreamTyped, Ordered
  <1> QED BY <1>3, <1>4

\* So for a publish to all of them.
LEMMA EnqueuedGood ==
    ASSUME HubAssumption, NEW n \in Nat, NEW m \in Nat, n < m, NEW l, NEW str,
           \A s \in Streams : Sound(str[s]) /\ GoodStream(str[s], n)
    PROVE  \A s \in Streams :
              LET x == str[s] 
                  y == Enqueued(str, l, m)[s]
              IN /\ GoodStream(y, m) /\ Sound(y)
                 /\ y.cursor = x.cursor /\ y.out = x.out /\ y.tab = x.tab /\ y.st = x.st
                 /\ \/ y = x /\ ~(x.sub /\ LaneOf[x.tab] = l)
                    \/ x.sub /\ y.sub /\ LaneOf[x.tab] = l /\ Elems(y.queue) = Elems(x.queue) \cup {m}
                    \/ x.sub /\ ~y.sub /\ LaneOf[x.tab] = l /\ y.queue = x.queue /\ y.stopped
  <1> SUFFICES ASSUME NEW s \in Streams
               PROVE  LET x == str[s] 
                          y == Enqueued(str, l, m)[s]
                      IN /\ GoodStream(y, m) /\ Sound(y)
                         /\ y.cursor = x.cursor /\ y.out = x.out /\ y.tab = x.tab /\ y.st = x.st
                         /\ \/ y = x /\ ~(x.sub /\ LaneOf[x.tab] = l)
                            \/ x.sub /\ y.sub /\ LaneOf[x.tab] = l /\ Elems(y.queue) = Elems(x.queue) \cup {m}
                            \/ x.sub /\ ~y.sub /\ LaneOf[x.tab] = l /\ y.queue = x.queue /\ y.stopped
    OBVIOUS
  <1>1. Enqueued(str, l, m)[s] = IF str[s].sub /\ LaneOf[str[s].tab] = l THEN Offer(str[s], m) ELSE str[s]
    BY DEF Enqueued
  <1>2. CASE str[s].sub /\ LaneOf[str[s].tab] = l
    <2> DEFINE z == Offer(str[s], m)
    <2>1. Enqueued(str, l, m)[s] = z
      BY <1>1, <1>2
    <2>2. /\ GoodStream(z, m) /\ Sound(z)
          /\ z.cursor = str[s].cursor /\ z.out = str[s].out /\ z.tab = str[s].tab /\ z.st = str[s].st
          /\ \/ z.sub /\ Elems(z.queue) = Elems(str[s].queue) \cup {m}
             \/ ~z.sub /\ z.queue = str[s].queue /\ z.stopped
      BY <1>2, OfferGood, OfferSound
    <2> HIDE DEF z
    <2> QED BY <1>2, <2>1, <2>2
  <1>3. CASE ~(str[s].sub /\ LaneOf[str[s].tab] = l)
    BY <1>1, <1>3, StreamGrows
  <1> QED BY <1>2, <1>3

-----------------------------------------------------------------------------
(* The shape of the whole state, kept by every action.                     *)

IncOK     == inc = None \/ GoodInc(inc, seq)
CursorsOK == cursors \in [Tabs -> CursorType(seq)]
LinesOK   == \A s \in Streams : GoodStream(stream[s], seq)
PlacesOK  == pos \in [Tabs -> 0 .. seq] /\ seen \in [Tabs -> 0 .. seq]
LogOK     == log \in [Lanes -> SUBSET (1 .. seq)]
FileOK    == ino \in Inos \cup {None} /\ replaced \in 0 .. seq
RestOK    == /\ seq \in 1 .. MaxSeq /\ plan \in Scenarios
             /\ stage \in {"open", "hub", "all"}
             /\ conn \in [Tabs -> Streams \cup {None}]
             /\ drops \in 0 .. MaxDrops

Tidy == BooksInv /\ IncOK /\ CursorsOK /\ LinesOK /\ PlacesOK /\ LogOK /\ FileOK /\ RestOK

\* All of Tidy but the books.
Tidied == IncOK /\ CursorsOK /\ LinesOK /\ PlacesOK /\ LogOK /\ FileOK /\ RestOK

\* The counter and the bounds are numbers.
LEMMA Bounds ==
    ASSUME HubAssumption, RestOK
    PROVE  seq \in Nat /\ seq >= 1 /\ MaxSeq \in Nat /\ seq <= MaxSeq /\ MaxDrops \in Nat
  BY DEF HubAssumption, RestOK, MaxSeq, MaxDrops

\* What a step leaves alone stays tidy.
LEMMA Stable ==
    ASSUME HubAssumption, Tidied, plan' = plan, seq' \in Nat, seq <= seq', seq' <= MaxSeq
    PROVE  /\ inc' = inc => IncOK'
           /\ cursors' = cursors => CursorsOK'
           /\ stream' = stream => LinesOK'
           /\ pos' = pos => pos' \in [Tabs -> 0 .. seq']
           /\ seen' = seen => seen' \in [Tabs -> 0 .. seq']
           /\ log' = log => LogOK'
           /\ ino' = ino /\ replaced' = replaced => FileOK'
           /\ UNCHANGED <<stage, conn, drops>> => RestOK'
           /\ MaxSeq' = MaxSeq /\ MaxDrops' = MaxDrops
           /\ seq \in Nat /\ seq >= 1 /\ seq' >= 1
  <1> USE DEF Tidied
  <1>1. seq \in Nat /\ seq >= 1 /\ seq' >= 1 /\ MaxSeq' = MaxSeq /\ MaxDrops' = MaxDrops
    BY Bounds DEF MaxSeq, MaxDrops
  <1>2. inc' = inc => IncOK'
    BY <1>1, IncGrows DEF IncOK
  <1>3. cursors' = cursors => CursorsOK'
    BY <1>1 DEF CursorsOK, CursorType
  <1>4. stream' = stream => LinesOK'
    BY <1>1, StreamGrows DEF LinesOK
  <1>5. pos' = pos => pos' \in [Tabs -> 0 .. seq']
    BY <1>1 DEF PlacesOK
  <1>6. seen' = seen => seen' \in [Tabs -> 0 .. seq']
    BY <1>1 DEF PlacesOK
  <1>7. log' = log => LogOK'
    <2>1. 1 .. seq \subseteq 1 .. seq'
      BY <1>1
    <2> QED BY <2>1 DEF LogOK
  <1>8. ino' = ino /\ replaced' = replaced => FileOK'
    BY <1>1 DEF FileOK
  <1>9. UNCHANGED <<stage, conn, drops>> => RestOK'
    BY <1>1 DEF RestOK
  <1> QED BY <1>1, <1>2, <1>3, <1>4, <1>5, <1>6, <1>7, <1>8, <1>9

\* Stable for a step that publishes nothing.
LEMMA Quiet ==
    ASSUME HubAssumption, Tidied, UNCHANGED <<plan, seq>>
    PROVE  /\ inc' = inc => IncOK'
           /\ cursors' = cursors => CursorsOK'
           /\ stream' = stream => LinesOK'
           /\ pos' = pos /\ seen' = seen => PlacesOK'
           /\ log' = log => LogOK'
           /\ ino' = ino /\ replaced' = replaced => FileOK'
           /\ UNCHANGED <<stage, conn, drops>> => RestOK'
           /\ MaxSeq' = MaxSeq /\ MaxDrops' = MaxDrops
           /\ seq \in Nat /\ seq >= 1
  <1>1. seq \in Nat /\ seq <= seq' /\ seq' \in Nat /\ seq' <= MaxSeq
    BY Bounds DEF Tidied
  <1> QED BY <1>1, Stable DEF PlacesOK

\* One connection changed to a well-formed one leaves all of them so.
LEMMA OneLine ==
    ASSUME Tidied, BooksInv, NEW s \in Streams, NEW x, GoodStream(x, seq), seq' = seq,
           stream' = [stream EXCEPT ![s] = x]
    PROVE  LinesOK'
  BY DEF Tidied, LinesOK, BooksInv, StreamsInv

\* A tab's place moves.
LEMMA PlaceSet ==
    ASSUME PlacesOK, seq' = seq, NEW t \in Tabs, NEW m \in 0 .. seq, NEW v \in 0 .. seq,
           \/ UNCHANGED <<pos, seen>>
           \/ pos' = [pos EXCEPT ![t] = m] /\ seen' = [seen EXCEPT ![t] = v]
    PROVE  PlacesOK'
  BY DEF PlacesOK

\* A connection starts tidy: its slice is a part of the bucket above its baseline.
LEMMA ConnectTidy ==
    ASSUME HubAssumption, Tidied, BooksInv,
           NEW t \in Tabs, NEW s \in Streams, NEW probe \in Probes, Connect(t, s, probe)
    PROVE  Tidied'
  <1> USE DEF fileVars
  <1> DEFINE held == Swept
             now  == Observed(held, probe)
             crs  == CursorsAfter(held, probe)
             at   == ResumePoint(t, crs)
             kept == now[LaneOf[t]]
             same == held # None /\ ~Rolls(held, probe)
             x    == [Opened(t, [base |-> at.from, resync |-> at.resumed /\ Behind(kept, at.from, same)],
                             Replay(kept, at.from)) EXCEPT !.sub = TRUE]
  <1>1. /\ stage = "open" /\ inc' = now /\ cursors' = Activated(t, crs, at.from)
        /\ stream' = [stream EXCEPT ![s] = x]
        /\ conn' = [conn EXCEPT ![t] = s]
        /\ seen' = [seen EXCEPT ![t] = IF @ = 0 /\ t \notin SharedTabs THEN at.from ELSE @]
        /\ UNCHANGED <<seq, stage, ino, replaced, pos, log, drops, plan>>
    BY DEF Connect
  <1>2. seq \in Nat /\ seq >= 1
    BY Bounds DEF Tidied
  <1>3. probe \in Inos \cup {None}
    BY DEF Probes, Tidied, FileOK
  <1>4. GoodInc(now, seq)
    <2>1. held = None \/ GoodInc(held, seq)
      BY DEF Swept, Tidied, IncOK
    <2> QED BY <1>2, <1>3, <2>1, ObservedGood
  <1>5. crs \in [Tabs -> CursorType(seq)]
    BY DEF CursorsAfter, NoCursors, Tidied, CursorsOK, CursorType
  <1>6. at.from \in 1 .. seq /\ at.resumed \in BOOLEAN
    <2>1. CASE pos[t] \in 1 .. seq
      BY <2>1 DEF ResumePoint
    <2>2. CASE pos[t] \notin 1 .. seq /\ t \notin SharedTabs /\ crs[t] # None
      <3>1. crs[t].base \in 1 .. seq
        BY <1>5, <2>2 DEF CursorType
      <3> QED BY <2>2, <3>1 DEF ResumePoint
    <2>3. CASE pos[t] \notin 1 .. seq /\ ~(t \notin SharedTabs /\ crs[t] # None)
      BY <1>2, <2>3 DEF ResumePoint
    <2> QED BY <2>1, <2>2, <2>3
  <1>7. LaneOf[t] \in Lanes
    BY DEF LaneOf, Lanes
  <1> HIDE DEF now, crs, at
  <1>8. Line(kept.frames, seq) /\ kept.dropped \in 0 .. seq
    BY <1>4, <1>7 DEF GoodInc, GoodBucket
  <1> HIDE DEF kept, same
  <1> DEFINE o == Replay(kept, at.from)
             c == [base |-> at.from, resync |-> at.resumed /\ Behind(kept, at.from, same)]
  <1>9. Line(o, seq) /\ \A m \in Elems(o) : m > at.from
    BY <1>2, <1>8, LinePick DEF Replay
  <1>10. c \in [base : 1 .. seq, resync : BOOLEAN] /\ c.base = at.from
    BY <1>6 DEF Behind
  <1> HIDE DEF o
  <1>11. GoodStream(x, seq)
    <2> HIDE DEF c
    <2>1. /\ x.st = "open" /\ x.tab = t /\ x.cursor = c /\ x.out = o /\ x.queue = <<>>
      BY DEF Opened, FreeStream, c, o
    <2> HIDE DEF x
    <2>2. Line(<<>>, seq) /\ Elems(<<>>) = {} /\ Len(<<>>) = 0
      BY <1>2, EmptyLine, LineGrows
    <2>3. StreamTyped(x, seq)
      BY <1>9, <1>10, <2>1, <2>2 DEF StreamTyped, HubAssumption
    <2>4. Ordered(x)
      BY <1>9, <1>10, <2>1, <2>2 DEF Ordered
    <2> QED BY <2>3, <2>4 DEF GoodStream
  <1> HIDE DEF x
  <1>12. LinesOK'
    BY <1>1, <1>11, OneLine
  <1>13. CursorsOK'
    BY <1>1, <1>5, <1>6 DEF Activated, CursorsOK, CursorType
  <1>14. PlacesOK'
    BY <1>1, <1>2, <1>6 DEF PlacesOK, Tidied
  <1>15. RestOK'
    BY <1>1, <1>2, Quiet DEF RestOK, Tidied
  <1> QED BY <1>1, <1>4, <1>12, <1>13, <1>14, <1>15, Quiet DEF IncOK, Tidied
\* A connection has the fields of one.
LEMMA StreamFields ==
    ASSUME BooksInv, NEW s \in Streams
    PROVE  Sound(stream[s]) /\ Shaped(stream[s])
  BY DEF BooksInv, StreamsInv, Sound

\* A free slot is well formed.
LEMMA FreeGood ==
    ASSUME HubAssumption, NEW n \in Nat, n >= 1
    PROVE  GoodStream(FreeStream, n)
  <1>1. Line(<<>>, n) /\ Elems(<<>>) = {} /\ Len(<<>>) = 0
    BY EmptyLine, LineGrows
  <1> QED BY <1>1 DEF FreeStream, GoodStream, StreamTyped, Ordered, HubAssumption

\* A connection refused by a closed hub is tidy.
LEMMA ClosedTidy ==
    ASSUME HubAssumption, Tidied, BooksInv, NEW t \in Tabs, NEW s \in Streams, ConnectClosed(t, s)
    PROVE  Tidied'
  <1> USE DEF fileVars
  <1> DEFINE x == [Opened(t, [base |-> seq, resync |-> FALSE], <<>>) EXCEPT !.stopped = TRUE]
  <1>1. /\ inc' = Swept /\ stream' = [stream EXCEPT ![s] = x]
        /\ conn' = [conn EXCEPT ![t] = s]
        /\ UNCHANGED <<seq, stage, cursors, ino, replaced, pos, seen, log, drops, plan>>
    BY DEF ConnectClosed, Refuse
  <1>2. seq \in Nat /\ seq >= 1
    BY Bounds DEF Tidied
  <1>3. GoodStream(x, seq)
    <2>1. /\ x.st = "open" /\ x.tab = t /\ x.cursor = [base |-> seq, resync |-> FALSE]
          /\ x.out = <<>> /\ x.queue = <<>>
      BY DEF Opened, FreeStream
    <2> HIDE DEF x
    <2>2. Line(<<>>, seq) /\ Elems(<<>>) = {} /\ Len(<<>>) = 0
      BY <1>2, EmptyLine, LineGrows
    <2>3. StreamTyped(x, seq)
      BY <1>2, <2>1, <2>2 DEF StreamTyped, HubAssumption
    <2>4. Ordered(x)
      BY <2>1, <2>2 DEF Ordered
    <2> QED BY <2>3, <2>4 DEF GoodStream
  <1> HIDE DEF x
  <1>4. LinesOK'
    BY <1>1, <1>3, OneLine
  <1>5. IncOK'
    BY <1>1, Quiet DEF Swept, IncOK, Tidied
  <1>6. RestOK'
    BY <1>1, <1>2, Quiet DEF RestOK, Tidied
  <1> QED BY <1>1, <1>4, <1>5, <1>6, Quiet DEF Tidied

\* A broken connection leaves the hub tidy.
LEMMA DropTidy ==
    ASSUME HubAssumption, Tidied, NEW t \in Tabs, Drop(t)
    PROVE  Tidied'
  <1> USE DEF fileVars, hubVars
  <1>1. /\ conn' = [conn EXCEPT ![t] = None] /\ drops < MaxDrops /\ drops' = drops + 1
        /\ UNCHANGED <<seq, stage, inc, cursors, stream, ino, replaced, pos, seen, log, plan>>
    BY DEF Drop
  <1>2. RestOK'
    BY <1>1, Bounds, Quiet DEF RestOK, Tidied
  <1> QED BY <1>1, <1>2, Quiet DEF Tidied

\* So does writing the cursor frame.
LEMMA CursorTidy ==
    ASSUME HubAssumption, Tidied, BooksInv, NEW s \in Streams, WriteCursor(s)
    PROVE  Tidied'
  <1> USE DEF fileVars, hubVars
  <1> DEFINE x == [stream[s] EXCEPT !.cursor = None]
             t == stream[s].tab
             c == stream[s].cursor
  <1>1. /\ stream' = [stream EXCEPT ![s] = x] /\ stream[s].st = "open" /\ c # None
        /\ \/ UNCHANGED <<pos, seen>>
           \/ /\ pos' = [pos EXCEPT ![t] = c.base]
              /\ seen' = [seen EXCEPT ![t] = IF c.resync THEN seq ELSE IF @ = 0 THEN c.base ELSE @]
        /\ UNCHANGED <<seq, stage, inc, cursors, ino, replaced, conn, log, drops, plan>>
    BY DEF WriteCursor
  <1>2. GoodStream(stream[s], seq) /\ Shaped(stream[s])
    BY StreamFields DEF Tidied, LinesOK
  <1>3. GoodStream(x, seq)
    <2>1. /\ x.st = stream[s].st /\ x.tab = stream[s].tab /\ x.cursor = None
          /\ x.out = stream[s].out /\ x.queue = stream[s].queue
      BY <1>2 DEF Shaped, Fields
    <2> HIDE DEF x
    <2> QED BY <1>2, <2>1 DEF GoodStream, StreamTyped, Ordered
  <1>4. t \in Tabs /\ c \in [base : 1 .. seq, resync : BOOLEAN] /\ seq \in Nat
    BY <1>1, <1>2, Bounds DEF GoodStream, StreamTyped, Tidied
  <1> HIDE DEF x, t, c
  <1>5. LinesOK'
    BY <1>1, <1>3, OneLine
  <1>6. PlacesOK'
    <2> DEFINE v == IF c.resync THEN seq ELSE IF seen[t] = 0 THEN c.base ELSE seen[t]
    <2>1. c.base \in 0 .. seq /\ seen[t] \in 0 .. seq /\ PlacesOK
      BY <1>4 DEF PlacesOK, Tidied
    <2>2. v \in 0 .. seq
      BY <1>4, <2>1
    <2>3. UNCHANGED <<pos, seen>> \/ (pos' = [pos EXCEPT ![t] = c.base] /\ seen' = [seen EXCEPT ![t] = v])
      BY <1>1
    <2> HIDE DEF v
    <2> QED BY <1>1, <1>4, <2>1, <2>2, <2>3, PlaceSet
  <1> QED BY <1>1, <1>5, <1>6, Quiet DEF Tidied

\* So does writing the next frame.
LEMMA FrameTidy ==
    ASSUME HubAssumption, Tidied, BooksInv, NEW s \in Streams, WriteFrame(s)
    PROVE  Tidied'
  <1> USE DEF fileVars, hubVars
  <1> DEFINE from == NextOut(stream[s])
             n == Head(stream[s][from])
             x == [stream[s] EXCEPT ![from] = Tail(stream[s][from])]
             t == stream[s].tab
  <1>1. /\ stream' = [stream EXCEPT ![s] = x] /\ stream[s].st = "open" /\ stream[s].cursor = None
        /\ stream[s][from] # <<>>
        /\ \/ UNCHANGED <<pos, seen>>
           \/ pos' = [pos EXCEPT ![t] = n] /\ seen' = [seen EXCEPT ![t] = Higher(@, n)]
        /\ UNCHANGED <<seq, stage, inc, cursors, ino, replaced, conn, log, drops, plan>>
    BY DEF WriteFrame, Receive
  <1>2. GoodStream(stream[s], seq) /\ Shaped(stream[s])
    BY StreamFields DEF Tidied, LinesOK
  <1>0. seq \in Nat /\ t \in Tabs
    BY <1>1, <1>2, Bounds DEF Tidied, GoodStream, StreamTyped
  <1>3. GoodStream(x, seq) /\ n \in 1 .. seq
    <2>1. CASE stream[s].out # <<>>
      <3>1. from = "out"
        BY <2>1 DEF NextOut
      <3>2. Line(stream[s].out, seq) /\ Line(stream[s].queue, seq) /\ Len(stream[s].queue) <= QueueSize
        BY <1>2 DEF GoodStream, StreamTyped
      <3>3. /\ Line(Tail(stream[s].out), seq) /\ n \in 1 .. seq
            /\ Elems(Tail(stream[s].out)) \subseteq Elems(stream[s].out)
        BY <1>0, <2>1, <3>1, <3>2, LineTail
      <3>4. /\ x.out = Tail(stream[s].out) /\ x.queue = stream[s].queue /\ x.cursor = None
            /\ x.st = stream[s].st /\ x.tab = stream[s].tab
        BY <1>1, <1>2, <3>1 DEF Shaped, Fields
      <3> HIDE DEF x
      <3> QED BY <1>1, <1>2, <3>2, <3>3, <3>4 DEF GoodStream, StreamTyped, Ordered
    <2>2. CASE stream[s].out = <<>>
      <3>1. from = "queue"
        BY <2>2 DEF NextOut
      <3>2. Line(stream[s].queue, seq) /\ Len(stream[s].queue) <= QueueSize
        BY <1>2 DEF GoodStream, StreamTyped
      <3>3. /\ Line(Tail(stream[s].queue), seq) /\ n \in 1 .. seq
            /\ Elems(Tail(stream[s].queue)) \subseteq Elems(stream[s].queue)
            /\ Len(Tail(stream[s].queue)) = Len(stream[s].queue) - 1
            /\ Len(stream[s].queue) \in Nat
        BY <1>0, <1>1, <3>1, <3>2, LineTail, LineElems
      <3>4. /\ x.queue = Tail(stream[s].queue) /\ x.out = stream[s].out /\ x.cursor = None
            /\ x.st = stream[s].st /\ x.tab = stream[s].tab
        BY <1>1, <1>2, <3>1 DEF Shaped, Fields
      <3>5. Len(x.queue) <= QueueSize
        BY <3>2, <3>3, <3>4 DEF HubAssumption
      <3> HIDE DEF x
      <3> QED BY <1>1, <1>2, <3>2, <3>3, <3>4, <3>5 DEF GoodStream, StreamTyped, Ordered
    <2> QED BY <2>1, <2>2
  <1> HIDE DEF x, t, n, from
  <1>4. LinesOK'
    BY <1>1, <1>3, OneLine
  <1>5. PlacesOK'
    <2> DEFINE v == Higher(seen[t], n)
    <2>1. n \in 0 .. seq /\ seen[t] \in 0 .. seq /\ PlacesOK
      BY <1>0, <1>3 DEF PlacesOK, Tidied
    <2>2. v \in 0 .. seq
      BY <2>1 DEF Higher
    <2>3. UNCHANGED <<pos, seen>> \/ (pos' = [pos EXCEPT ![t] = n] /\ seen' = [seen EXCEPT ![t] = v])
      BY <1>1
    <2> HIDE DEF v
    <2> QED BY <1>0, <1>1, <2>1, <2>2, <2>3, PlaceSet
  <1> QED BY <1>1, <1>4, <1>5, Quiet DEF Tidied

\* Removal leaves resume cursors of the right kind.
LEMMA RemoveCursors ==
    ASSUME Tidied, NEW s \in Streams, Remove(s), seq' = seq
    PROVE  CursorsOK'
  <1>1. CASE cursors' = cursors
    BY <1>1 DEF Tidied, CursorsOK
  <1>2. CASE cursors' # cursors
    <2> DEFINE t == stream[s].tab
    <2>1. cursors[t] # None /\ cursors' = [cursors EXCEPT ![t].away = TRUE]
      BY <1>2 DEF Remove, HubRemoved
    <2> HIDE DEF t
    <2>2. t \in Tabs => [cursors[t] EXCEPT !.away = TRUE] \in CursorType(seq)
      BY <2>1 DEF Tidied, CursorsOK, CursorType
    <2> QED BY <2>1, <2>2 DEF Tidied, CursorsOK
  <1> QED BY <1>1, <1>2

\* The end of a handler leaves the hub tidy.
LEMMA FinishTidy ==
    ASSUME HubAssumption, Tidied, BooksInv, NEW s \in Streams, Finish(s)
    PROVE  Tidied'
  <1> USE DEF fileVars
  <1> DEFINE x == IF stream[s].evicting THEN [Removed(stream[s]) EXCEPT !.st = "gone"] ELSE FreeStream
  <1>1. /\ stream' = [stream EXCEPT ![s] = x] /\ Remove(s)
        /\ conn' = [conn EXCEPT ![stream[s].tab] = IF @ = s THEN None ELSE @]
        /\ UNCHANGED <<seq, stage, inc, ino, replaced, pos, seen, log, drops, plan>>
    BY DEF Finish
  <1>2. GoodStream(stream[s], seq) /\ Shaped(stream[s])
    BY StreamFields DEF Tidied, LinesOK
  <1>3. GoodStream(x, seq)
    <2> DEFINE y == [Removed(stream[s]) EXCEPT !.st = "gone"]
    <2>1. /\ y.st = "gone" /\ y.tab = stream[s].tab /\ y.cursor = stream[s].cursor
          /\ y.out = stream[s].out /\ y.queue = stream[s].queue
      BY <1>2 DEF Removed, Shaped, Fields
    <2> HIDE DEF y
    <2>2. GoodStream(y, seq)
      BY <1>2, <2>1 DEF GoodStream, StreamTyped, Ordered
    <2>3. GoodStream(FreeStream, seq)
      BY Bounds, FreeGood DEF Tidied
    <2> QED BY <2>2, <2>3 DEF y
  <1> HIDE DEF x
  <1>4. LinesOK'
    BY <1>1, <1>3, OneLine
  <1>5. RestOK'
    BY <1>1, Quiet DEF RestOK, Tidied
  <1> QED BY <1>1, <1>4, <1>5, RemoveCursors, Quiet DEF Tidied

\* So does an eviction.
LEMMA EvictTidy ==
    ASSUME HubAssumption, Tidied, BooksInv, NEW s \in Streams, Evict(s)
    PROVE  Tidied'
  <1> USE DEF fileVars, tabVars
  <1> DEFINE x == IF stream[s].st = "gone" THEN FreeStream
                  ELSE [Removed(stream[s]) EXCEPT !.evicting = FALSE]
  <1>1. /\ stream' = [stream EXCEPT ![s] = x] /\ Remove(s)
        /\ UNCHANGED <<seq, stage, inc, ino, replaced, conn, pos, seen, log, drops, plan>>
    BY DEF Evict
  <1>2. GoodStream(stream[s], seq) /\ Shaped(stream[s])
    BY StreamFields DEF Tidied, LinesOK
  <1>3. GoodStream(x, seq)
    <2> DEFINE y == [Removed(stream[s]) EXCEPT !.evicting = FALSE]
    <2>1. /\ y.st = stream[s].st /\ y.tab = stream[s].tab /\ y.cursor = stream[s].cursor
          /\ y.out = stream[s].out /\ y.queue = stream[s].queue
      BY <1>2 DEF Removed, Shaped, Fields
    <2> HIDE DEF y
    <2>2. GoodStream(y, seq)
      BY <1>2, <2>1 DEF GoodStream, StreamTyped, Ordered
    <2>3. GoodStream(FreeStream, seq)
      BY Bounds, FreeGood DEF Tidied
    <2> QED BY <2>2, <2>3 DEF y
  <1> HIDE DEF x
  <1>4. LinesOK'
    BY <1>1, <1>3, OneLine
  <1> QED BY <1>1, <1>4, RemoveCursors, Quiet DEF Tidied

\* Only the flags of the connections change.
LEMMA FlagsTidy ==
    ASSUME HubAssumption, Tidied, BooksInv, DropSubscribers \/ HubShutdown
    PROVE  Tidied'
  <1> USE DEF fileVars, tabVars, hubVars
  <1>1. /\ UNCHANGED <<seq, ino, replaced, conn, pos, seen, log, drops, plan>>
        /\ stage' \in {"hub", stage}
        /\ inc' \in {None, inc} /\ cursors' \in {NoCursors, cursors}
    BY DEF DropSubscribers, HubShutdown
  <1>2. ASSUME NEW s \in Streams
        PROVE  GoodStream(stream'[s], seq)
    <2>1. GoodStream(stream[s], seq) /\ Shaped(stream[s])
      BY StreamFields DEF Tidied, LinesOK
    <2> DEFINE x == stream[s]
               y == stream'[s]
    <2>2. y.st = x.st /\ y.tab = x.tab /\ y.cursor = x.cursor /\ y.out = x.out /\ y.queue = x.queue
      <3>1. \/ \E p : y = [x EXCEPT !.stopped = p]
            \/ \E p : y = [x EXCEPT !.stopped = p, !.sub = FALSE]
        <4>1. CASE DropSubscribers
          BY <4>1 DEF DropSubscribers
        <4>2. CASE HubShutdown
          BY <4>2 DEF HubShutdown
        <4> QED BY <4>1, <4>2
      <3> HIDE DEF y
      <3> QED BY <2>1, <3>1 DEF Shaped, Fields
    <2> HIDE DEF x, y
    <2>3. GoodStream(y, seq)
      BY <2>1, <2>2 DEF GoodStream, StreamTyped, Ordered, x
    <2> QED BY <2>3 DEF y
  <1>3. LinesOK'
    BY <1>1, <1>2 DEF LinesOK
  <1>4. IncOK' /\ CursorsOK'
    BY <1>1, Quiet DEF IncOK, CursorsOK, CursorType, NoCursors, Tidied
  <1>5. RestOK'
    BY <1>1, Quiet DEF RestOK, Tidied
  <1> QED BY <1>1, <1>3, <1>4, <1>5, Quiet DEF Tidied
\* A publish on one lane leaves the hub tidy.
LEMMA PublishTidy ==
    ASSUME HubAssumption, Tidied, BooksInv, NEW l \in Lanes, NEW big \in Sizes, Publish(l, big)
    PROVE  Tidied'
  <1> USE DEF fileVars, tabVars
  <1>1. /\ seq < MaxSeq /\ seq' = seq + 1
        /\ inc' = [Ensured(inc) EXCEPT ![l] = Retain(Ensured(inc)[l], seq + 1, big)]
        /\ stream' = Enqueued(stream, l, seq + 1)
        /\ log' = [log EXCEPT ![l] = log[l] \cup {seq + 1}]
        /\ UNCHANGED <<stage, cursors, ino, replaced, conn, pos, seen, drops, plan>>
    BY DEF Publish
  <1>2. seq \in Nat /\ seq >= 1 /\ MaxSeq \in Nat
    BY Bounds DEF Tidied
  <1>n. seq' \in Nat /\ seq <= seq' /\ seq' <= MaxSeq /\ seq < seq + 1 /\ seq + 1 \in Nat
    BY <1>1, <1>2
  <1>b. big \in BOOLEAN
    BY DEF Sizes
  <1>3. IncOK'
    <2> DEFINE i == Ensured(inc)
               r == Retain(i[l], seq + 1, big)
    <2>1. GoodInc(i, seq)
      <3>1. (inc = None \/ GoodInc(inc, seq)) /\ GoodInc(FreshInc, seq)
        BY <1>2, EmptyGood DEF Tidied, IncOK
      <3> QED BY <3>1, Zenon DEF Ensured
    <2> HIDE DEF i
    <2>g. GoodInc(i, seq + 1)
      BY <1>2, <1>n, <1>1, <2>1, IncGrows
    <2>2. GoodBucket(i[l], seq) /\ GoodInc(i, seq + 1)
      BY <2>1, <2>g DEF GoodInc
    <2>3. GoodBucket(r, seq + 1)
      BY <1>2, <1>n, <1>b, <2>2, RetainGood
    <2>4. inc' = [i EXCEPT ![l] = r]
      BY <1>1 DEF i
    <2> HIDE DEF r
    <2>5. GoodInc([i EXCEPT ![l] = r], seq + 1)
      BY <2>2, <2>3 DEF GoodInc, Lanes
    <2> QED BY <1>1, <2>4, <2>5 DEF IncOK
  <1>4. LinesOK'
    <2>1. \A s \in Streams : Sound(stream[s]) /\ GoodStream(stream[s], seq)
      BY DEF Tidied, LinesOK, BooksInv, StreamsInv
    <2>2. \A s \in Streams : GoodStream(Enqueued(stream, l, seq + 1)[s], seq + 1)
      BY <1>2, <1>n, <2>1, EnqueuedGood
    <2> QED BY <1>1, <2>2 DEF LinesOK
  <1>5. LogOK'
    BY <1>1, <1>2 DEF LogOK, Tidied
  <1>6. PlacesOK'
    BY <1>1, <1>n, Stable DEF PlacesOK
  <1> QED BY <1>1, <1>n, <1>3, <1>4, <1>5, <1>6, Stable DEF Tidied

\* So does an external change, which publishes on both.
LEMMA ExternalTidy ==
    ASSUME HubAssumption, Tidied, BooksInv, NEW probe \in Probes, PublishExternal(probe)
    PROVE  Tidied'
  <1> USE DEF fileVars, tabVars
  <1> DEFINE i == Observed(inc, probe)
  <1>1. PICK big \in Sizes :
           inc' = [i EXCEPT !.live = Retain(i.live, seq + 1, big), !.saved = Retain(i.saved, seq + 2, big)]
    BY DEF PublishExternal
  <1>2. /\ seq + 2 <= MaxSeq /\ seq' = seq + 2
        /\ cursors' = CursorsAfter(inc, probe)
        /\ stream' = Enqueued(Enqueued(stream, "live", seq + 1), "saved", seq + 2)
        /\ log' = [live |-> log.live \cup {seq + 1}, saved |-> log.saved \cup {seq + 2}]
        /\ UNCHANGED <<stage, ino, replaced, conn, pos, seen, drops, plan>>
    BY DEF PublishExternal
  <1>3. seq \in Nat /\ seq >= 1 /\ MaxSeq \in Nat
    BY Bounds DEF Tidied
  <1>n. /\ seq' \in Nat /\ seq <= seq' /\ seq' <= MaxSeq /\ seq < seq + 1 /\ seq + 1 < seq + 2
        /\ seq + 1 \in Nat /\ seq + 2 \in Nat /\ seq < seq + 2
    BY <1>2, <1>3
  <1>b. big \in BOOLEAN
    BY DEF Sizes
  <1>4. IncOK'
    <2> DEFINE p == Retain(i.live, seq + 1, big)
               q == Retain(i.saved, seq + 2, big)
    <2>1. probe \in Inos \cup {None}
      BY DEF Probes, Tidied, FileOK
    <2>2. GoodInc(i, seq)
      BY <1>3, <2>1, ObservedGood DEF Tidied, IncOK
    <2> HIDE DEF i
    <2>3. GoodBucket(i.live, seq) /\ GoodBucket(i.saved, seq)
      BY <2>2 DEF GoodInc, Lanes
    <2>4. GoodBucket(p, seq + 1) /\ GoodBucket(q, seq + 2)
      BY <1>3, <1>n, <1>b, <2>3, RetainGood
    <2>5. GoodBucket(p, seq + 2) /\ GoodInc(i, seq + 2)
      BY <1>3, <1>n, <2>2, <2>4, BucketGrows, IncGrows
    <2>6. inc' = [i EXCEPT !.live = p, !.saved = q]
      BY <1>1
    <2> HIDE DEF p, q
    <2>7. GoodInc([i EXCEPT !.live = p, !.saved = q], seq + 2)
      BY <2>4, <2>5 DEF GoodInc, Lanes
    <2> QED BY <1>2, <2>6, <2>7 DEF IncOK
  <1> HIDE DEF i
  <1>5. LinesOK'
    <2> DEFINE mid == Enqueued(stream, "live", seq + 1)
    <2>1. \A s \in Streams : Sound(stream[s]) /\ GoodStream(stream[s], seq)
      BY DEF Tidied, LinesOK, BooksInv, StreamsInv
    <2>2. \A s \in Streams : Sound(mid[s]) /\ GoodStream(mid[s], seq + 1)
      BY <1>3, <1>n, <2>1, EnqueuedGood
    <2>3. stream' = Enqueued(mid, "saved", seq + 2)
      BY <1>2
    <2> HIDE DEF mid
    <2>4. \A s \in Streams : GoodStream(Enqueued(mid, "saved", seq + 2)[s], seq + 2)
      BY <1>n, <2>2, EnqueuedGood
    <2> QED BY <1>2, <2>3, <2>4 DEF LinesOK
  <1>6. LogOK'
    <2>1. log.live \subseteq 1 .. seq /\ log.saved \subseteq 1 .. seq
      BY DEF LogOK, Tidied, Lanes
    <2>2. log.live \cup {seq + 1} \subseteq 1 .. seq + 2 /\ log.saved \cup {seq + 2} \subseteq 1 .. seq + 2
      BY <1>3, <2>1
    <2> QED BY <1>2, <2>2 DEF LogOK, Lanes
  <1>7. PlacesOK'
    BY <1>2, <1>n, Stable DEF PlacesOK
  <1>8. CursorsOK'
    BY <1>2, <1>n, Stable DEF CursorsAfter, NoCursors, CursorsOK, CursorType, Tidied
  <1> QED BY <1>2, <1>n, <1>4, <1>5, <1>6, <1>7, <1>8, Stable DEF Tidied

\* So does what happens to the file behind the path.
LEMMA FileTidy ==
    ASSUME HubAssumption, Tidied,
           \/ \E i \in Inos : ExtReplace(i) \/ ExtCreate(i)
           \/ \E i \in Inos, probe \in Inos \cup {None} : ServerReplace(i, probe)
           \/ ExtDelete
    PROVE  Tidied'
  <1> USE DEF fileVars, tabVars, hubVars
  <1>1. /\ UNCHANGED <<seq, stage, cursors, stream, conn, pos, seen, log, drops, plan>>
        /\ ino' \in Inos \cup {None} /\ replaced' \in {0, seq, replaced}
        /\ inc' = inc \/ (inc # None /\ \E probe \in Inos \cup {None} : inc' = [inc EXCEPT !.anchor = probe])
    <2>1. CASE ExtDelete \/ \E i \in Inos : ExtReplace(i) \/ ExtCreate(i)
      BY <2>1 DEF ExtReplace, ExtCreate, ExtDelete
    <2>2. ASSUME NEW i \in Inos, NEW probe \in Inos \cup {None}, ServerReplace(i, probe)
          PROVE  <1>1
      BY <2>2 DEF ServerReplace
    <2> QED BY <2>1, <2>2
  <1>2. seq \in Nat
    BY Bounds DEF Tidied
  <1>3. FileOK'
    BY <1>1, <1>2 DEF FileOK, Tidied
  <1>4. IncOK'
    <2>1. ASSUME NEW probe \in Inos \cup {None}, inc # None, inc' = [inc EXCEPT !.anchor = probe]
          PROVE  GoodInc(inc', seq)
      <3>1. GoodInc(inc, seq)
        BY <2>1 DEF Tidied, IncOK
      <3>2. GoodInc([inc EXCEPT !.anchor = probe], seq)
        BY <3>1 DEF GoodInc, Lanes
      <3> QED BY <2>1, <3>2
    <2> QED BY <1>1, <2>1 DEF Tidied, IncOK
  <1> QED BY <1>1, <1>3, <1>4, Quiet DEF Tidied

\* The bounds on what the hub keeps, and an absence: the record and the cursors shrink.
LEMMA ShrinkTidy ==
    ASSUME HubAssumption, Tidied,
           (\E l \in Lanes : Forget(l)) \/ Expire \/ DropInactive \/ MarkAbsent
    PROVE  Tidied'
  <1> USE DEF fileVars, tabVars, hubVars
  <1>1. UNCHANGED <<seq, stage, stream, ino, replaced, conn, pos, seen, log, drops, plan>>
    BY DEF Forget, Expire, DropInactive, MarkAbsent
  <1>2. seq \in Nat /\ seq >= 1
    BY Bounds DEF Tidied
  <1>0. inc # None => GoodInc(inc, seq)
    BY DEF IncOK, Tidied
  <1>3. IncOK' /\ CursorsOK'
    <2>1. ASSUME NEW l \in Lanes, Forget(l)
          PROVE  IncOK' /\ CursorsOK'
      <3> DEFINE r == DropOldest(inc[l])
      <3>1. inc # None /\ inc[l].frames # <<>> /\ inc' = [inc EXCEPT ![l] = r] /\ cursors' = cursors
        BY <2>1 DEF Forget
      <3>2. GoodBucket(inc[l], seq) /\ GoodInc(inc, seq)
        BY <1>0, <3>1 DEF GoodInc
      <3>3. /\ BucketShape(r) /\ Line(r.frames, seq) /\ r.dropped \in 0 .. seq
            /\ Len(r.frames) = Len(inc[l].frames) - 1 /\ Len(inc[l].frames) \in Nat
        BY <1>2, <3>1, <3>2, DropOldestGood, LineElems DEF GoodBucket
      <3>4. GoodBucket(r, seq)
        BY <3>2, <3>3 DEF GoodBucket, HubAssumption
      <3> HIDE DEF r
      <3>5. GoodInc([inc EXCEPT ![l] = r], seq)
        BY <3>2, <3>4 DEF GoodInc, Lanes
      <3> QED BY <1>1, <3>1, <3>5, Quiet DEF IncOK
    <2>2. CASE Expire
      <3>1. PICK k \in [Lanes -> 0 .. BucketCap], out \in SUBSET {t \in Tabs : cursors[t] # None /\ cursors[t].away} :
              /\ \A l \in Lanes : k[l] <= Len(inc[l].frames)
              /\ cursors' = [t \in Tabs |-> IF t \in out THEN None ELSE cursors[t]]
              /\ \/ inc' = None
                 \/ inc' = [anchor |-> inc.anchor, live |-> Aged(inc.live, k["live"]),
                            saved |-> Aged(inc.saved, k["saved"])]
        BY <2>2 DEF Expire
      <3>2. inc # None /\ GoodInc(inc, seq)
        BY <1>0, <2>2 DEF Expire
      <3> DEFINE p == Aged(inc.live, k["live"])
                 q == Aged(inc.saved, k["saved"])
      <3>3. GoodBucket(inc.live, seq) /\ GoodBucket(inc.saved, seq) /\ inc.anchor \in Inos \cup {None}
        BY <3>2 DEF GoodInc, Lanes
      <3>4. k["live"] \in 0 .. Len(inc.live.frames) /\ k["saved"] \in 0 .. Len(inc.saved.frames)
        <4>1. Len(inc.live.frames) \in Nat /\ Len(inc.saved.frames) \in Nat
          BY <1>2, <3>3, LineElems DEF GoodBucket
        <4>2. k["live"] \in Nat /\ k["saved"] \in Nat /\ BucketCap \in Nat
          BY DEF Lanes, HubAssumption
        <4> QED BY <3>1, <4>1, <4>2 DEF Lanes
      <3>5. GoodBucket(p, seq) /\ GoodBucket(q, seq)
        BY <1>2, <3>3, <3>4, AgedGood
      <3> HIDE DEF p, q
      <3>6. GoodInc([anchor |-> inc.anchor, live |-> p, saved |-> q], seq)
        BY <3>3, <3>5 DEF GoodInc, Lanes
      <3>7. IncOK'
        BY <1>1, <3>1, <3>6 DEF IncOK, p, q
      <3>8. CursorsOK'
        BY <1>1, <3>1 DEF CursorsOK, CursorType, Tidied
      <3> QED BY <3>7, <3>8
    <2>3. CASE DropInactive
      BY <1>1, <2>3 DEF DropInactive, NoCursors, IncOK, CursorsOK, CursorType
    <2>4. CASE MarkAbsent
      <3>1. inc # None /\ inc' = Cleared(inc) /\ cursors' \in {NoCursors, cursors}
        BY <2>4 DEF MarkAbsent
      <3>2. GoodInc(inc, seq)
        BY <1>0, <3>1
      <3>3. GoodInc(Cleared(inc), seq)
        BY <1>2, <3>2, EmptyGood DEF GoodInc, Cleared, Lanes
      <3> QED BY <1>1, <3>1, <3>3 DEF NoCursors, IncOK, CursorsOK, CursorType, Tidied
    <2> QED BY <2>1, <2>2, <2>3, <2>4
  <1> QED BY <1>1, <1>3, Quiet DEF Tidied

\* So do leases and the watcher's shutdown.
LEMMA RestTidy ==
    ASSUME HubAssumption, Tidied, Lease \/ Unlease \/ WatcherShutdown \/ UNCHANGED vars
    PROVE  Tidied'
  <1>1. /\ UNCHANGED <<seq, inc, cursors, stream, ino, replaced, conn, pos, seen, log, drops, plan>>
        /\ stage' \in {"all", stage}
    BY DEF Lease, Unlease, WatcherShutdown, vars, fileVars, tabVars, hubVars
  <1>2. RestOK'
    BY <1>1, Quiet DEF RestOK, Tidied
  <1> QED BY <1>1, <1>2, Quiet DEF Tidied

\* A new process starts tidy.
LEMMA RestartTidy ==
    ASSUME HubAssumption, Tidied, Restart
    PROVE  Tidied'
  <1>1. /\ seq < MaxSeq /\ seq' = seq + 1 /\ stage' = "open" /\ inc' = None /\ cursors' = NoCursors
        /\ stream' = [s \in Streams |-> FreeStream] /\ conn' = [t \in Tabs |-> None]
        /\ UNCHANGED <<ino, replaced, pos, seen, log, drops, plan>>
    BY DEF Restart, fileVars
  <1>2. seq \in Nat /\ seq >= 1 /\ MaxSeq \in Nat
    BY Bounds DEF Tidied
  <1>3. seq' \in Nat /\ seq <= seq' /\ seq' <= MaxSeq
    BY <1>1, <1>2
  <1>4. LinesOK'
    BY <1>1, <1>2, FreeGood DEF LinesOK
  <1>5. IncOK' /\ CursorsOK'
    BY <1>1 DEF IncOK, CursorsOK, CursorType, NoCursors
  <1>6. RestOK'
    BY <1>1, <1>2, <1>3, Stable DEF RestOK, Tidied
  <1> QED BY <1>1, <1>3, <1>4, <1>5, <1>6, Stable DEF PlacesOK, Tidied

\* The system starts tidy.
LEMMA InitTidy == ASSUME HubAssumption, Init PROVE Tidy
  <1>1. BooksInv
    BY InitBooks
  <1>2. seq = 1 /\ MaxSeq \in Nat /\ MaxSeq >= 1 /\ MaxDrops \in Nat
    BY DEF Init, HubAssumption, MaxSeq, MaxDrops
  <1>3. LinesOK
    BY <1>2, FreeGood DEF Init, LinesOK
  <1>4. RestOK
    BY <1>2 DEF Init, RestOK
  <1>5. IncOK /\ CursorsOK /\ FileOK
    BY <1>2 DEF Init, IncOK, CursorsOK, CursorType, NoCursors, FileOK
  <1>6. PlacesOK /\ LogOK
    BY <1>2 DEF Init, PlacesOK, LogOK
  <1> QED BY <1>1, <1>3, <1>4, <1>5, <1>6 DEF Tidy

\* Every step leaves it tidy.
LEMMA NextTidy == ASSUME HubAssumption, Tidy, [Next]_vars PROVE Tidy'
  <1>0. Tidied /\ BooksInv
    BY DEF Tidy, Tidied
  <1>b. BooksInv'
    BY <1>0, HubMoves, NextClosed, NextBalanced DEF BooksInv
  <1> SUFFICES Tidied'
    BY <1>b DEF Tidy, Tidied
  <1>1. CASE \E t \in Tabs, s \in Streams, probe \in Probes : Connect(t, s, probe)
    BY <1>0, <1>1, ConnectTidy
  <1>2. CASE \E t \in Tabs, s \in Streams : ConnectClosed(t, s)
    BY <1>0, <1>2, ClosedTidy
  <1>3. CASE \E t \in Tabs : Drop(t)
    BY <1>0, <1>3, DropTidy
  <1>4. CASE \E s \in Streams : WriteCursor(s) \/ WriteFrame(s)
    BY <1>0, <1>4, CursorTidy, FrameTidy
  <1>5. CASE \E s \in Streams : Finish(s) \/ Evict(s)
    BY <1>0, <1>5, FinishTidy, EvictTidy
  <1>6. CASE DropSubscribers \/ HubShutdown
    BY <1>0, <1>6, FlagsTidy
  <1>7. CASE Relay \/ BroadcastSaved
    BY <1>0, <1>7, PublishTidy DEF Relay, BroadcastSaved, Lanes
  <1>8. CASE \E probe \in Probes : PublishExternal(probe)
    BY <1>0, <1>8, ExternalTidy
  <1>9. CASE \/ \E i \in Inos : ExtReplace(i) \/ ExtCreate(i)
             \/ \E i \in Inos, probe \in Inos \cup {None} : ServerReplace(i, probe)
             \/ ExtDelete
    BY <1>0, <1>9, FileTidy
  <1>10. CASE (\E l \in Lanes : Forget(l)) \/ Expire \/ DropInactive \/ MarkAbsent
    BY <1>0, <1>10, ShrinkTidy
  <1>11. CASE Lease \/ Unlease \/ WatcherShutdown \/ UNCHANGED vars
    BY <1>0, <1>11, RestTidy
  <1>12. CASE Restart
    BY <1>0, <1>12, RestartTidy
  <1> QED
    BY <1>1, <1>2, <1>3, <1>4, <1>5, <1>6, <1>7, <1>8, <1>9, <1>10, <1>11, <1>12 DEF Next

\* It stays tidy.
LEMMA TidyKept == ASSUME HubAssumption PROVE Spec => []Tidy
  BY InitTidy, NextTidy, PTL DEF Spec

\* A sequence over a set is one over any larger set.
LEMMA SeqWidens ==
    ASSUME NEW S, NEW T, S \subseteq T, NEW q \in Seq(S)
    PROVE  q \in Seq(T)
  OBVIOUS

\* A tidy state is well typed.
LEMMA TidyTyped == ASSUME HubAssumption, Tidy PROVE TypeOK
  <1>1. seq \in Nat /\ MaxSeq \in Nat /\ seq <= MaxSeq /\ seq >= 1
    BY Bounds DEF Tidy
  <1>2. 1 .. seq \subseteq Numbers /\ 0 .. seq \subseteq Numbers
    BY <1>1 DEF Numbers
  <1>3. inc # None => inc \in IncType /\ \A l \in Lanes : Len(inc[l].frames) <= BucketCap
    <2> SUFFICES ASSUME inc # None
                 PROVE  inc \in IncType /\ \A l \in Lanes : Len(inc[l].frames) <= BucketCap
      OBVIOUS
    <2>1. GoodInc(inc, seq)
      BY DEF Tidy, IncOK
    <2>2. ASSUME NEW l \in Lanes
          PROVE  inc[l] \in BucketType /\ Len(inc[l].frames) <= BucketCap
      <3>1. GoodBucket(inc[l], seq)
        BY <2>1 DEF GoodInc
      <3>2. inc[l].frames \in Seq(Numbers) /\ inc[l].dropped \in Numbers
        BY <1>2, <3>1, SeqWidens DEF GoodBucket, Line
      <3> QED BY <3>1, <3>2 DEF GoodBucket, BucketShape, BucketType
    <2>3. inc \in IncType
      BY <2>1, <2>2 DEF GoodInc, IncType, Lanes
    <2> QED BY <2>2, <2>3
  <1>4. ASSUME NEW s \in Streams
        PROVE  /\ stream[s] \in StreamType /\ Len(stream[s].queue) <= QueueSize
               /\ stream[s].sub => stream[s].st = "open"
    <2> DEFINE x == stream[s]
    <2>1. Sound(x) /\ StreamTyped(x, seq)
      BY DEF Tidy, BooksInv, StreamsInv, LinesOK, GoodStream
    <2> HIDE DEF x
    <2>2. x.out \in Seq(Numbers) /\ x.queue \in Seq(Numbers)
      BY <1>2, <2>1, SeqWidens DEF StreamTyped, Line
    <2>3. x.cursor \in [base : Numbers, resync : BOOLEAN] \cup {None}
      BY <1>2, <2>1 DEF StreamTyped
    <2>4. x \in StreamType
      BY <2>1, <2>2, <2>3 DEF StreamTyped, Sound, Shaped, Fields, StreamType
    <2> QED BY <2>1, <2>4 DEF Sound, StreamTyped, x
  <1>5. stream \in [Streams -> StreamType]
    BY <1>4 DEF Tidy, BooksInv, StreamsInv
  <1>6. cursors \in [Tabs -> [base : Numbers, away : BOOLEAN] \cup {None}]
    BY <1>2 DEF Tidy, CursorsOK, CursorType
  <1>7. pos \in [Tabs -> Numbers] /\ seen \in [Tabs -> Numbers] /\ log \in [Lanes -> SUBSET Numbers]
    BY <1>2 DEF Tidy, PlacesOK, LogOK
  <1>8. seq \in Numbers /\ replaced \in Numbers /\ ino \in Inos \cup {None} 
    BY <1>1, <1>2 DEF Tidy, FileOK, Numbers
  <1> QED BY <1>3, <1>4, <1>5, <1>6, <1>7, <1>8 DEF Tidy, TypeOK, RestOK, BooksInv, Balanced

\* A tidy state has every connection in order.
LEMMA TidyInOrder == ASSUME HubAssumption, Tidy PROVE StreamInOrder
  <1> SUFFICES ASSUME NEW s \in Streams
               PROVE  LET line == stream[s].out \o stream[s].queue
                      IN /\ \A i, j \in DOMAIN line : i < j => line[i] < line[j]
                         /\ stream[s].cursor # None => \A i \in DOMAIN line : line[i] > stream[s].cursor.base
    BY DEF StreamInOrder
  <1> DEFINE x == stream[s]
             o == x.out
             q == x.queue
             line == o \o q
  <1>1. GoodStream(x, seq) /\ seq \in Nat
    BY Bounds DEF Tidy, LinesOK
  <1>2. Line(o, seq) /\ Line(q, seq) /\ Ordered(x)
    BY <1>1 DEF GoodStream, StreamTyped
  <1> HIDE DEF x
  <1>3. /\ o \in Seq(1 .. seq) /\ q \in Seq(1 .. seq)
        /\ \A i, j \in 1 .. Len(o) : i < j => o[i] < o[j]
        /\ \A i, j \in 1 .. Len(q) : i < j => q[i] < q[j]
    BY <1>2 DEF Line
  <1>4. (\A i \in 1 .. Len(o) : o[i] \in Elems(o)) /\ (\A i \in 1 .. Len(q) : q[i] \in Elems(q))
    BY <1>1, <1>2, LineElems
  <1>5. \A i \in 1 .. Len(o), j \in 1 .. Len(q) : o[i] < q[j]
    BY <1>2, <1>4 DEF Ordered
  <1> HIDE DEF o, q
  <1>6. /\ DOMAIN line = 1 .. Len(o) + Len(q) /\ Len(o) \in Nat /\ Len(q) \in Nat
        /\ \A i \in 1 .. Len(o) : line[i] = o[i]
        /\ \A i \in Len(o) + 1 .. Len(o) + Len(q) : line[i] = q[i - Len(o)]
    BY <1>3
  <1> HIDE DEF line
  <1>7. ASSUME NEW i \in DOMAIN line
        PROVE  \/ i \in 1 .. Len(o) /\ line[i] = o[i]
               \/ i - Len(o) \in 1 .. Len(q) /\ i > Len(o) /\ line[i] = q[i - Len(o)]
    BY <1>6
  <1>8. ASSUME NEW i \in DOMAIN line, NEW j \in DOMAIN line, i < j
        PROVE  line[i] < line[j]
    <2>1. CASE i \in 1 .. Len(o) /\ j \in 1 .. Len(o)
      BY <1>3, <1>6, <1>8, <2>1
    <2>2. CASE i \in 1 .. Len(o) /\ j \notin 1 .. Len(o)
      BY <1>5, <1>6, <1>7, <2>2
    <2>3. CASE i \notin 1 .. Len(o)
      <3>1. j \notin 1 .. Len(o) /\ i \in Nat /\ j \in Nat
        BY <1>6, <1>8, <2>3
      <3>2. /\ i - Len(o) \in 1 .. Len(q) /\ line[i] = q[i - Len(o)]
            /\ j - Len(o) \in 1 .. Len(q) /\ line[j] = q[j - Len(o)]
            /\ i - Len(o) < j - Len(o)
        BY <1>6, <1>7, <1>8, <2>3, <3>1
      <3> QED BY <1>3, <3>2
    <2> QED BY <2>1, <2>2, <2>3
  <1>9. ASSUME x.cursor # None, NEW i \in DOMAIN line
        PROVE  line[i] > x.cursor.base
    <2>1. line[i] \in Elems(o) \cup Elems(q)
      BY <1>4, <1>7
    <2>2. x.cursor.base < line[i]
      BY <1>2, <1>9, <2>1 DEF Ordered, o, q
    <2>3. x.cursor.base \in Nat
      BY <1>1, <1>9 DEF GoodStream, StreamTyped
    <2>4. line[i] \in Nat
      BY <1>2, <2>1, LineElems, <1>1
    <2> QED BY <2>2, <2>3, <2>4
  <1> QED BY <1>8, <1>9 DEF line, o, q, x

\* The hub hangs together in every scenario: types and caps hold, and what a
\* connection still has to write only goes up from the baseline of its cursor frame,
\* however publishes, evictions, expiry and reconnects interleave (enqueue, add,
\* retainLocked, expireLocked).
THEOREM HubWellFormed == ASSUME HubAssumption PROVE Spec => []WellFormed
  BY TidyKept, TidyTyped, TidyInOrder, PTL DEF WellFormed

-----------------------------------------------------------------------------
(* What LiveHub replays: nothing of a file that is gone, and, while the    *)
(* path keeps its file and the hub its record of it, all that a page       *)
(* lacks; with those, that the hub implements Feed.                        *)

\* A step of one connection leaves the others alone.
LEMMA OthersStay ==
    ASSUME Tidy, NEW s, NEW x, stream' = [stream EXCEPT ![s] = x]
    PROVE  \A q \in Streams : q # s => stream'[q] = stream[q]
  BY DEF Tidy, BooksInv, StreamsInv

\* A well-formed record is not the absence of one.
LEMMA IncIsRecord ==
    ASSUME HubAssumption, NEW n \in Nat, NEW i, GoodInc(i, n)
    PROVE  i # None
  <1> DEFINE Bucket == [frames : Seq(Nat), dropped : Nat]
  <1>1. ASSUME NEW l \in Lanes
        PROVE  i[l] \in Bucket
    <2>1. GoodBucket(i[l], n)
      BY DEF GoodInc
    <2>2. 1 .. n \subseteq Nat
      OBVIOUS
    <2>3. i[l].frames \in Seq(Nat) /\ i[l].dropped \in Nat
      BY <2>1, <2>2, SeqWidens DEF GoodBucket, Line
    <2> QED BY <2>1, <2>3 DEF GoodBucket, BucketShape
  <1> HIDE DEF Bucket
  <1>2. i \in [anchor : Inos \cup {None}, live : Bucket, saved : Bucket]
    BY <1>1 DEF GoodInc, Lanes
  <1> QED BY <1>2 DEF HubAssumption, Bucket

\* A record observed with the file it is for keeps its buckets; any other starts empty.
LEMMA ObservedRecord ==
    ASSUME HubAssumption, NEW n \in Nat, n >= 1, NEW i, i = None \/ GoodInc(i, n),
           NEW probe \in Inos \cup {None}
    PROVE  LET o == Observed(i, probe)
           IN  /\ o.anchor = probe
               /\ \A l \in Lanes : o[l] = IF i = None \/ Rolls(i, probe) THEN EmptyBucket ELSE i[l]
  <1> DEFINE now == Ensured(i)
             kept == IF Rolls(now, probe) THEN Cleared(now) ELSE now
  <1>1. GoodInc(now, n)
    BY ObservedGood
  <1>2. Observed(i, probe) = [kept EXCEPT !.anchor = probe]
    BY DEF Observed
  <1>3. \A l \in Lanes : FreshInc[l] = EmptyBucket
    BY DEF FreshInc, Lanes
  <1>4. FreshInc.anchor = None
    BY DEF FreshInc
  <1>5. \A l \in Lanes : kept[l] = IF Rolls(now, probe) THEN EmptyBucket ELSE now[l]
    <2> HIDE DEF now
    <2> QED BY <1>1 DEF GoodInc, Cleared, Lanes
  <1>6. GoodInc(kept, n)
    <2> HIDE DEF now
    <2>1. GoodInc(Cleared(now), n)
      BY <1>1, EmptyGood DEF GoodInc, Cleared, Lanes
    <2> QED BY <1>1, <2>1
  <1>7. now = IF i = None THEN FreshInc ELSE i
    BY DEF Ensured
  <1> HIDE DEF now, kept
  <1>8. [kept EXCEPT !.anchor = probe].anchor = probe /\ \A l \in Lanes : [kept EXCEPT !.anchor = probe][l] = kept[l]
    BY <1>6 DEF GoodInc, Lanes
  <1>9. i = None => ~Rolls(now, probe) /\ now = FreshInc
    BY <1>4, <1>7 DEF Rolls
  <1>10. i # None => now = i
    BY <1>7
  <1> QED BY <1>2, <1>3, <1>5, <1>8, <1>9, <1>10

\* What a connection is given: where it resumes, its cursor frame and its slice.
ConnectedAt(t, s, from, resumed, crs, kept, same) ==
    /\ from \in 1 .. seq
    /\ \/ pos[t] > 0 /\ from = pos[t] /\ resumed
       \/ pos[t] = 0 /\ t \notin SharedTabs /\ crs[t] # None /\ from = crs[t].base /\ resumed
       \/ pos[t] = 0 /\ (t \in SharedTabs \/ crs[t] = None) /\ from = seq /\ ~resumed
    /\ cursors' = Activated(t, crs, from)
    /\ seen' = [seen EXCEPT ![t] = IF @ = 0 /\ t \notin SharedTabs THEN from ELSE @]
    /\ stream' = [stream EXCEPT ![s] = stream'[s]]
    /\ stream'[s].st = "open" /\ stream'[s].tab = t /\ stream'[s].sub
    /\ stream'[s].cursor # None /\ stream'[s].cursor.base = from
    /\ stream'[s].cursor.resync = (resumed /\ Behind(kept, from, same))
    /\ stream'[s].queue = <<>>
    /\ Elems(stream'[s].out) = {n \in Elems(kept.frames) : n > from}

\* Connect in the terms of ConnectedAt.
LEMMA ConnectFacts ==
    ASSUME HubAssumption, Tidy, NEW t \in Tabs, NEW s \in Streams, NEW probe \in Probes,
           Connect(t, s, probe)
    PROVE  /\ stage = "open" /\ conn[t] = None /\ stream[s].st = "free" /\ ino # None
           /\ inc' = Observed(Swept, probe) /\ conn' = [conn EXCEPT ![t] = s]
           /\ UNCHANGED <<plan, seq, stage, ino, replaced, pos, log>>
           /\ \E from, resumed :
                ConnectedAt(t, s, from, resumed, CursorsAfter(Swept, probe), inc'[LaneOf[t]],
                            Swept # None /\ ~Rolls(Swept, probe))
  <1> DEFINE held == Swept
             now  == Observed(held, probe)
             crs  == CursorsAfter(held, probe)
             at   == ResumePoint(t, crs)
             kept == now[LaneOf[t]]
             same == held # None /\ ~Rolls(held, probe)
             c    == [base |-> at.from, resync |-> at.resumed /\ Behind(kept, at.from, same)]
             o    == Replay(kept, at.from)
             x    == [Opened(t, c, o) EXCEPT !.sub = TRUE]
  <1>1. /\ stage = "open" /\ conn[t] = None /\ stream[s].st = "free" /\ ino # None
        /\ inc' = now /\ conn' = [conn EXCEPT ![t] = s]
        /\ UNCHANGED <<plan, seq, stage, ino, replaced, pos, log>>
        /\ cursors' = Activated(t, crs, at.from)
        /\ stream' = [stream EXCEPT ![s] = x]
        /\ seen' = [seen EXCEPT ![t] = IF @ = 0 /\ t \notin SharedTabs THEN at.from ELSE @]
    BY DEF Connect, fileVars
  <1>2. seq \in Nat /\ seq >= 1 /\ pos[t] \in 0 .. seq
    BY Bounds DEF Tidy, PlacesOK
  <1>3. GoodInc(now, seq)
    <2>1. held = None \/ GoodInc(held, seq)
      BY DEF Swept, Tidy, IncOK
    <2>2. probe \in Inos \cup {None}
      BY DEF Probes, Tidy, FileOK
    <2> QED BY <1>2, <2>1, <2>2, ObservedGood
  <1>4. crs \in [Tabs -> CursorType(seq)]
    BY DEF CursorsAfter, NoCursors, Tidy, CursorsOK, CursorType
  <1>5. at.from \in 1 .. seq /\ at.resumed \in BOOLEAN
        /\ \/ pos[t] > 0 /\ at.from = pos[t] /\ at.resumed
           \/ pos[t] = 0 /\ t \notin SharedTabs /\ crs[t] # None /\ at.from = crs[t].base /\ at.resumed
           \/ pos[t] = 0 /\ (t \in SharedTabs \/ crs[t] = None) /\ at.from = seq /\ ~at.resumed
    <2> HIDE DEF crs
    <2>1. CASE pos[t] \in 1 .. seq
      BY <1>2, <2>1 DEF ResumePoint
    <2>2. CASE pos[t] \notin 1 .. seq /\ t \notin SharedTabs /\ crs[t] # None
      <3>1. crs[t].base \in 1 .. seq
        BY <1>4, <2>2 DEF CursorType
      <3> QED BY <1>2, <2>2, <3>1 DEF ResumePoint
    <2>3. CASE pos[t] \notin 1 .. seq /\ ~(t \notin SharedTabs /\ crs[t] # None)
      BY <1>2, <2>3 DEF ResumePoint
    <2> QED BY <2>1, <2>2, <2>3
  <1>6. stream' = [stream EXCEPT ![s] = stream'[s]] /\ stream'[s] = x
    BY <1>1 DEF Tidy, BooksInv, StreamsInv
  <1>7. LaneOf[t] \in Lanes
    BY DEF LaneOf, Lanes
  <1> HIDE DEF held, now, crs, at
  <1>8. Line(kept.frames, seq) /\ kept.dropped \in 0 .. seq
    BY <1>3, <1>7 DEF GoodInc, GoodBucket
  <1> HIDE DEF kept, same
  <1>9. Elems(o) = {n \in Elems(kept.frames) : n > at.from}
    <2> DEFINE q == kept.frames
               I == {i \in DOMAIN q : q[i] > at.from}
    <2>1. Elems(Pick(q, I)) = {q[i] : i \in I \cap (DOMAIN q)}
      BY <1>2, <1>8, LinePick
    <2>2. {q[i] : i \in I \cap (DOMAIN q)} = {n \in Elems(q) : n > at.from}
      BY DEF Elems
    <2> QED BY <2>1, <2>2 DEF Replay
  <1>10. c \in [base : Nat, resync : BOOLEAN] /\ c.base = at.from
         /\ c.resync = (at.resumed /\ Behind(kept, at.from, same))
    BY <1>5 DEF Behind
  <1>11. c # None
    BY <1>10 DEF HubAssumption
  <1> HIDE DEF c, o
  <1>12. x.st = "open" /\ x.tab = t /\ x.sub /\ x.cursor = c /\ x.out = o /\ x.queue = <<>>
    BY DEF Opened, FreeStream
  <1> HIDE DEF x
  <1>13. ConnectedAt(t, s, at.from, at.resumed, crs, kept, same)
    BY <1>1, <1>5, <1>6, <1>9, <1>10, <1>11, <1>12 DEF ConnectedAt
  <1>14. kept = inc'[LaneOf[t]]
    BY <1>1 DEF kept
  <1> QED BY <1>1, <1>13, <1>14 DEF now, held, crs, same
\* The handler's step that writes the cursor frame.
LEMMA CursorFacts ==
    ASSUME HubAssumption, Tidy, NEW s \in Streams, WriteCursor(s)
    PROVE  LET t == stream[s].tab
               c == stream[s].cursor
               x == stream'[s]
           IN  /\ t \in Tabs /\ c # None /\ c \in [base : 1 .. seq, resync : BOOLEAN]
               /\ stream' = [stream EXCEPT ![s] = x] /\ SameFlags(x, stream[s])
               /\ stream[s].st = "open" /\ x.tab = t /\ x.cursor = None
               /\ Coming(s)' = Coming(s)
               /\ IF conn[t] = s
                  THEN /\ pos' = [pos EXCEPT ![t] = c.base]
                       /\ seen' = [seen EXCEPT ![t] = IF c.resync THEN seq
                                                      ELSE IF @ = 0 THEN c.base ELSE @]
                  ELSE UNCHANGED <<pos, seen>>
               /\ UNCHANGED <<plan, seq, stage, inc, cursors, ino, replaced, conn, log>>
  <1> DEFINE y == [stream[s] EXCEPT !.cursor = None]
  <1>1. /\ stream' = [stream EXCEPT ![s] = y] /\ stream[s].st = "open" /\ stream[s].cursor # None
        /\ IF conn[stream[s].tab] = s
           THEN /\ pos' = [pos EXCEPT ![stream[s].tab] = stream[s].cursor.base]
                /\ seen' = [seen EXCEPT ![stream[s].tab] = IF stream[s].cursor.resync THEN seq
                                               ELSE IF @ = 0 THEN stream[s].cursor.base ELSE @]
           ELSE UNCHANGED <<pos, seen>>
        /\ UNCHANGED <<plan, seq, stage, inc, cursors, ino, replaced, conn, log>>
    BY DEF WriteCursor, Reaches, hubVars, fileVars
  <1>2. StreamTyped(stream[s], seq) /\ Shaped(stream[s])
    BY StreamFields DEF Tidy, LinesOK, GoodStream
  <1>3. stream'[s] = y
    BY <1>1 DEF Tidy, BooksInv, StreamsInv
  <1>4. /\ y.cursor = None /\ y.tab = stream[s].tab /\ y.out = stream[s].out /\ y.queue = stream[s].queue
        /\ SameFlags(y, stream[s])
    BY <1>2 DEF Shaped, Fields, SameFlags
  <1> HIDE DEF y
  <1>5. Coming(s)' = Coming(s)
    BY <1>3, <1>4 DEF Coming
  <1> QED BY <1>1, <1>2, <1>3, <1>4, <1>5 DEF StreamTyped

\* The handler's step that writes the next frame: the lowest of those still to come.
LEMMA FrameFacts ==
    ASSUME HubAssumption, Tidy, NEW s \in Streams, WriteFrame(s)
    PROVE  LET t == stream[s].tab
               x == stream'[s]
           IN  /\ t \in Tabs /\ stream[s].st = "open" /\ stream[s].cursor = None
               /\ stream' = [stream EXCEPT ![s] = x] /\ SameFlags(x, stream[s])
               /\ x.tab = t /\ x.cursor = None
               /\ \E n \in Coming(s) :
                     /\ n \in 1 .. seq
                     /\ \A m \in Coming(s) : n <= m
                     /\ Coming(s)' = Coming(s) \ {n}
                     /\ IF conn[t] = s
                        THEN pos' = [pos EXCEPT ![t] = n] /\ seen' = [seen EXCEPT ![t] = Higher(@, n)]
                        ELSE UNCHANGED <<pos, seen>>
               /\ UNCHANGED <<plan, seq, stage, inc, cursors, ino, replaced, conn, log>>
  <1> DEFINE from == NextOut(stream[s])
             n == Head(stream[s][from])
             y == [stream[s] EXCEPT ![from] = Tail(stream[s][from])]
             t == stream[s].tab
  <1>1. /\ stream' = [stream EXCEPT ![s] = y] /\ stream[s].st = "open" /\ stream[s].cursor = None
        /\ stream[s][from] # <<>>
        /\ IF conn[t] = s
           THEN pos' = [pos EXCEPT ![t] = n] /\ seen' = [seen EXCEPT ![t] = Higher(@, n)]
           ELSE UNCHANGED <<pos, seen>>
        /\ UNCHANGED <<plan, seq, stage, inc, cursors, ino, replaced, conn, log>>
    BY DEF WriteFrame, Receive, Reaches, hubVars, fileVars
  <1>2. StreamTyped(stream[s], seq) /\ Ordered(stream[s]) /\ Shaped(stream[s]) /\ seq \in Nat
    BY StreamFields, Bounds DEF Tidy, LinesOK, GoodStream
  <1>3. stream'[s] = y /\ t \in Tabs
    BY <1>1, <1>2 DEF Tidy, BooksInv, StreamsInv, StreamTyped
  <1>4. Line(stream[s].out, seq) /\ Line(stream[s].queue, seq)
    BY <1>2 DEF StreamTyped
  <1>5. from \in {"out", "queue"}
    BY DEF NextOut
  <1>6. y.cursor = None /\ y.tab = t /\ SameFlags(y, stream[s])
    BY <1>1, <1>2, <1>5 DEF Shaped, Fields, SameFlags
  <1>7. /\ n \in Coming(s) /\ n \in 1 .. seq
        /\ \A m \in Coming(s) : n <= m
        /\ Elems(y.out) \cup Elems(y.queue) = Coming(s) \ {n}
    <2>1. CASE stream[s].out # <<>>
      <3>1. from = "out"
        BY <2>1 DEF NextOut
      <3>2. y.out = Tail(stream[s].out) /\ y.queue = stream[s].queue /\ n = Head(stream[s].out)
        BY <1>2, <3>1 DEF Shaped, Fields
      <3>3. /\ n \in Elems(stream[s].out) /\ n \in 1 .. seq
            /\ Elems(y.out) = Elems(stream[s].out) \ {n}
            /\ \A m \in Elems(stream[s].out) : n <= m
        BY <1>2, <1>4, <2>1, <3>2, LineTail
      <3>4. Elems(stream[s].queue) \subseteq 1 .. seq /\ \A m \in Elems(stream[s].queue) : n < m
        BY <1>2, <1>4, <3>3, LineElems DEF Ordered
      <3> HIDE DEF y, n
      <3>5. n \notin Elems(stream[s].queue) /\ \A m \in Elems(stream[s].queue) : n <= m
        BY <3>3, <3>4
      <3> QED BY <3>2, <3>3, <3>5 DEF Coming
    <2>2. CASE stream[s].out = <<>>
      <3>1. from = "queue"
        BY <2>2 DEF NextOut
      <3>2. y.queue = Tail(stream[s].queue) /\ y.out = stream[s].out /\ n = Head(stream[s].queue)
            /\ stream[s].queue # <<>>
        BY <1>1, <1>2, <3>1 DEF Shaped, Fields
      <3>3. /\ n \in Elems(stream[s].queue) /\ n \in 1 .. seq
            /\ Elems(y.queue) = Elems(stream[s].queue) \ {n}
            /\ \A m \in Elems(stream[s].queue) : n <= m
        BY <1>2, <1>4, <3>2, LineTail
      <3>4. Elems(stream[s].out) = {}
        BY <1>2, <1>4, <2>2, LineElems
      <3> HIDE DEF y, n
      <3> QED BY <3>2, <3>3, <3>4 DEF Coming
    <2> QED BY <2>1, <2>2
  <1> HIDE DEF y, n, from
  <1>8. Coming(s)' = Coming(s) \ {n}
    BY <1>3, <1>7 DEF Coming
  <1> QED BY <1>1, <1>3, <1>6, <1>7, <1>8

\* Leaving touches no baseline.
LEMMA RemoveFacts ==
    ASSUME HubAssumption, Tidy, NEW s \in Streams, Remove(s)
    PROVE  \A t \in Tabs : /\ cursors'[t] = None <=> cursors[t] = None
                           /\ cursors[t] # None => cursors'[t].base = cursors[t].base
  <1>1. CASE cursors' = cursors
    BY <1>1
  <1>2. CASE cursors' # cursors
    <2> DEFINE u == stream[s].tab
               c == [cursors[u] EXCEPT !.away = TRUE]
    <2>1. cursors[u] # None /\ cursors' = [cursors EXCEPT ![u] = c]
      BY <1>2 DEF Remove, HubRemoved
    <2> HIDE DEF u
    <2>2. ASSUME u \in Tabs
          PROVE  c \in [base : Nat, away : BOOLEAN] /\ c.base = cursors[u].base
      <3> DEFINE old == cursors[u]
      <3>1. old \in [base : 1 .. seq, away : BOOLEAN]
        BY <2>1, <2>2 DEF Tidy, CursorsOK, CursorType
      <3> HIDE DEF old
      <3>2. [old EXCEPT !.away = TRUE] \in [base : 1 .. seq, away : BOOLEAN]
            /\ [old EXCEPT !.away = TRUE].base = old.base
        BY <3>1
      <3> QED BY <3>2 DEF old
    <2>3. u \in Tabs => c # None
      BY <2>2 DEF HubAssumption
    <2> HIDE DEF c
    <2> QED BY <2>1, <2>2, <2>3 DEF Tidy, CursorsOK
  <1> QED BY <1>1, <1>2

\* What ends a connection, or stops it, adds nothing to what it has to write.
LEMMA EndFacts ==
    ASSUME HubAssumption, Tidy,
           \/ \E s \in Streams : Finish(s) \/ Evict(s)
           \/ DropSubscribers \/ HubShutdown
    PROVE  \A s \in Streams :
              \/ stream'[s].st = "free" /\ (stream[s].st = "open" => Over(s))
              \/ /\ stream'[s].st = stream[s].st \/ (stream'[s].st = "gone" /\ Over(s))
                 /\ stream'[s].tab = stream[s].tab
                 /\ stream'[s].cursor = stream[s].cursor /\ Coming(s)' = Coming(s)
                 /\ stream'[s].sub => stream[s].sub
  <1>0. \A s \in Streams : Sound(stream[s]) /\ Shaped(stream[s])
    BY StreamFields DEF Tidy
  <1>1. ASSUME NEW s \in Streams, NEW q \in Streams, Finish(q)
        PROVE  \/ stream'[s].st = "free" /\ (stream[s].st = "open" => Over(s))
               \/ /\ stream'[s].st = stream[s].st \/ (stream'[s].st = "gone" /\ Over(s))
                  /\ stream'[s].tab = stream[s].tab
                  /\ stream'[s].cursor = stream[s].cursor /\ Coming(s)' = Coming(s)
                  /\ stream'[s].sub => stream[s].sub
    <2>1. CASE s # q
      <3>1. stream'[s] = stream[s]
        BY <1>1, <2>1 DEF Finish, Tidy, BooksInv, StreamsInv
      <3> QED BY <3>1 DEF Coming
    <2>2. CASE s = q
      <3> DEFINE y == [Removed(stream[s]) EXCEPT !.st = "gone"]
      <3>1. /\ stream'[s] = (IF stream[s].evicting THEN y ELSE FreeStream)
            /\ Over(s)
        BY <1>1, <2>2 DEF Finish, Tidy, BooksInv, StreamsInv
      <3>2. /\ y.st = "gone" /\ y.tab = stream[s].tab /\ y.cursor = stream[s].cursor
            /\ y.out = stream[s].out /\ y.queue = stream[s].queue /\ ~y.sub
        BY <1>0 DEF Removed, Shaped, Fields
      <3>3. FreeStream.st = "free"
        BY DEF FreeStream
      <3> HIDE DEF y
      <3> QED BY <3>1, <3>2, <3>3 DEF Coming
    <2> QED BY <2>1, <2>2
  <1>2. ASSUME NEW s \in Streams, NEW q \in Streams, Evict(q)
        PROVE  \/ stream'[s].st = "free" /\ stream[s].st # "open"
               \/ /\ stream'[s].st = stream[s].st /\ stream'[s].tab = stream[s].tab
                  /\ stream'[s].cursor = stream[s].cursor /\ Coming(s)' = Coming(s)
                  /\ stream'[s].sub => stream[s].sub
    <2>1. CASE s # q
      <3>1. stream'[s] = stream[s]
        BY <1>2, <2>1 DEF Evict, Tidy, BooksInv, StreamsInv
      <3> QED BY <3>1 DEF Coming
    <2>2. CASE s = q
      <3> DEFINE y == [Removed(stream[s]) EXCEPT !.evicting = FALSE]
      <3>1. stream'[s] = (IF stream[s].st = "gone" THEN FreeStream ELSE y)
        BY <1>2, <2>2 DEF Evict, Tidy, BooksInv, StreamsInv
      <3>2. /\ y.st = stream[s].st /\ y.tab = stream[s].tab /\ y.cursor = stream[s].cursor
            /\ y.out = stream[s].out /\ y.queue = stream[s].queue /\ ~y.sub
        BY <1>0 DEF Removed, Shaped, Fields
      <3>3. FreeStream.st = "free"
        BY DEF FreeStream
      <3> HIDE DEF y
      <3> QED BY <3>1, <3>2, <3>3 DEF Coming
    <2> QED BY <2>1, <2>2
  <1>3. ASSUME NEW s \in Streams, DropSubscribers \/ HubShutdown
        PROVE  /\ stream'[s].st = stream[s].st /\ stream'[s].tab = stream[s].tab
               /\ stream'[s].cursor = stream[s].cursor /\ Coming(s)' = Coming(s)
               /\ stream'[s].sub => stream[s].sub
    <2> DEFINE x == stream[s]
               y == stream'[s]
    <2>1. \/ \E p : y = [x EXCEPT !.stopped = p]
          \/ \E p : y = [x EXCEPT !.stopped = p, !.sub = FALSE]
      <3>1. CASE DropSubscribers
        BY <3>1 DEF DropSubscribers
      <3>2. CASE HubShutdown
        BY <3>2 DEF HubShutdown
      <3> QED BY <1>3, <3>1, <3>2
    <2>2. Shaped(x)
      BY <1>0
    <2> HIDE DEF x, y
    <2>3. /\ y.st = x.st /\ y.tab = x.tab /\ y.cursor = x.cursor /\ y.out = x.out /\ y.queue = x.queue
          /\ y.sub => x.sub
      <3>1. ASSUME NEW p, y = [x EXCEPT !.stopped = p]
            PROVE  /\ y.st = x.st /\ y.tab = x.tab /\ y.cursor = x.cursor /\ y.out = x.out
                   /\ y.queue = x.queue /\ y.sub = x.sub
        BY <2>2, <3>1 DEF Shaped, Fields
      <3>2. ASSUME NEW p, y = [x EXCEPT !.stopped = p, !.sub = FALSE]
            PROVE  /\ y.st = x.st /\ y.tab = x.tab /\ y.cursor = x.cursor /\ y.out = x.out
                   /\ y.queue = x.queue /\ ~y.sub
        BY <2>2, <3>2 DEF Shaped, Fields
      <3> QED BY <2>1, <3>1, <3>2
    <2> QED BY <2>3 DEF Coming, x, y
  <1> QED BY <1>1, <1>2, <1>3
\* What a publish does. new[l] is the number of the frame on lane l, 0 when there is
\* none, and base the record it is added to.
PublishedAs(new, base) ==
    /\ seq' \in Nat /\ seq < seq' /\ new \in [Lanes -> {0} \cup (seq + 1 .. seq')]
    /\ \E l \in Lanes : new[l] # 0
    /\ UNCHANGED <<plan, stage, conn, pos, seen, ino, replaced>>
    /\ \A l \in Lanes : log'[l] = log[l] \cup ({new[l]} \ {0})
    /\ GoodInc(base, seq) /\ inc' # None /\ inc'.anchor = base.anchor
    /\ \A l \in Lanes :
          /\ \A k \in 1 .. seq' : Keeps(base[l], k) \/ k = new[l] => Keeps(inc'[l], k)
          /\ Elems(inc'[l].frames) \subseteq Elems(base[l].frames) \cup ({new[l]} \ {0})
          /\ \/ inc'[l] = base[l]
             \/ "big" \notin Happens => inc'[l].frames # <<>>
    /\ \A s \in Streams :
          LET x == stream[s]
              y == stream'[s]
              n == new[LaneOf[x.tab]]
          IN  /\ y.cursor = x.cursor /\ y.out = x.out /\ y.tab = x.tab /\ y.st = x.st
              /\ \/ ~x.sub /\ y = x
                 \/ x.sub /\ x.tab \in Tabs /\ n = 0 /\ y = x
                 \/ x.sub /\ x.tab \in Tabs /\ n # 0 /\ y.sub /\ Coming(s)' = Coming(s) \cup {n}
                 \/ x.sub /\ x.tab \in Tabs /\ n # 0 /\ ~y.sub /\ y.stopped /\ Coming(s)' = Coming(s)

\* A publish on one lane in the terms of PublishedAs.
LEMMA PublishFacts ==
    ASSUME HubAssumption, Tidy, NEW l \in Lanes, NEW big \in Sizes, Publish(l, big)
    PROVE  /\ cursors' = cursors
           /\ \E new : PublishedAs(new, Ensured(inc))
  <1> DEFINE n == seq + 1
             base == Ensured(inc)
             new == [k \in Lanes |-> IF k = l THEN n ELSE 0]
  <1>1. /\ seq' = n /\ inc' = [base EXCEPT ![l] = Retain(base[l], n, big)]
        /\ stream' = Enqueued(stream, l, n)
        /\ log' = [log EXCEPT ![l] = log[l] \cup {n}]
        /\ UNCHANGED <<plan, stage, cursors, conn, pos, seen, ino, replaced>>
    BY DEF Publish, fileVars, tabVars
  <1>2. seq \in Nat /\ seq >= 1 /\ n \in Nat /\ seq < n /\ n # 0
    BY Bounds DEF Tidy
  <1>3. GoodInc(base, seq) /\ None \in Inos \cup {None}
    BY <1>2, ObservedGood DEF Tidy, IncOK
  <1>4. big \in BOOLEAN /\ (big => "big" \in Happens)
    BY DEF Sizes
  <1>5. \A k \in Lanes : new[k] = IF k = l THEN n ELSE 0
    OBVIOUS
  <1>6. \A k \in Lanes : log'[k] = log[k] \cup ({new[k]} \ {0})
    BY <1>1, <1>2, <1>5 DEF Tidy, LogOK
  <1>7. /\ inc'.anchor = base.anchor
        /\ \A k \in Lanes : inc'[k] = IF k = l THEN Retain(base[k], n, big) ELSE base[k]
    <2> HIDE DEF n, base
    <2> QED BY <1>1, <1>3 DEF GoodInc, Lanes
  <1>8. \A k \in Lanes : GoodBucket(base[k], seq) /\ GoodBucket(base[k], n) /\ GoodBucket(inc'[k], n)
    <2> SUFFICES ASSUME NEW k \in Lanes
                 PROVE  GoodBucket(base[k], seq) /\ GoodBucket(base[k], n) /\ GoodBucket(inc'[k], n)
      OBVIOUS
    <2>1. GoodBucket(base[k], seq)
      BY <1>3 DEF GoodInc
    <2>2. GoodBucket(base[k], n) /\ GoodBucket(Retain(base[k], n, big), n)
      BY <1>2, <1>4, <2>1, BucketGrows, RetainGood
    <2> QED BY <1>7, <2>1, <2>2
  <1>9. GoodInc(inc', n)
    <2>1. GoodInc(base, n)
      BY <1>2, <1>3, IncGrows
    <2> HIDE DEF n, base
    <2>2. inc' = [f \in {"anchor", "live", "saved"} |-> inc'[f]]
      BY <1>1, <2>1 DEF GoodInc
    <2> QED BY <1>7, <1>8, <2>1, <2>2 DEF GoodInc
  <1>10. inc' # None
    BY <1>2, <1>9, IncIsRecord
  <1>11. ASSUME NEW k \in Lanes
         PROVE  /\ \A m \in 1 .. n : Keeps(base[k], m) \/ m = new[k] => Keeps(inc'[k], m)
                /\ Elems(inc'[k].frames) \subseteq Elems(base[k].frames) \cup ({new[k]} \ {0})
                /\ \/ inc'[k] = base[k]
                   \/ "big" \notin Happens => inc'[k].frames # <<>>
    <2>1. CASE k # l
      <3>1. inc'[k] = base[k] /\ new[k] = 0
        BY <1>5, <1>7, <2>1
      <3> QED BY <3>1
    <2>2. CASE k = l
      <3>1. inc'[k] = Retain(base[k], n, big) /\ new[k] = n
        BY <1>5, <1>7, <2>2
      <3>2. /\ \A m \in Nat : Keeps(base[k], m) \/ m = n => Keeps(inc'[k], m)
            /\ Elems(inc'[k].frames) \subseteq Elems(base[k].frames) \cup {n}
            /\ ~big => inc'[k].frames # <<>>
        <4> DEFINE b == base[k]
        <4>1. GoodBucket(b, seq) /\ inc'[k] = Retain(b, n, big)
          BY <1>8, <3>1
        <4> HIDE DEF n, b
        <4>2. /\ \A m \in Nat : Keeps(b, m) \/ m = n => Keeps(inc'[k], m)
              /\ Elems(inc'[k].frames) \subseteq Elems(b.frames) \cup {n}
              /\ ~big => inc'[k].frames # <<>>
          BY <1>2, <1>4, <4>1, RetainGood
        <4> QED BY <4>2 DEF b
      <3> HIDE DEF n, base, new
      <3> QED BY <1>2, <1>4, <3>1, <3>2
    <2> QED BY <2>1, <2>2
  <1>12. ASSUME NEW s \in Streams
         PROVE  LET x == stream[s]
                    y == stream'[s]
                IN  /\ y.cursor = x.cursor /\ y.out = x.out /\ y.tab = x.tab /\ y.st = x.st
                    /\ \/ ~x.sub /\ y = x
                       \/ x.sub /\ x.tab \in Tabs /\ LaneOf[x.tab] # l /\ y = x
                       \/ /\ x.sub /\ x.tab \in Tabs /\ LaneOf[x.tab] = l /\ y.sub
                          /\ Coming(s)' = Coming(s) \cup {n}
                       \/ /\ x.sub /\ x.tab \in Tabs /\ LaneOf[x.tab] = l /\ ~y.sub /\ y.stopped
                          /\ Coming(s)' = Coming(s)
    <2>1. \A q \in Streams : Sound(stream[q]) /\ GoodStream(stream[q], seq)
      BY DEF Tidy, LinesOK, BooksInv, StreamsInv
    <2>2. stream[s].sub => stream[s].tab \in Tabs
      BY <2>1 DEF Sound, GoodStream, StreamTyped
    <2>4. stream'[s] = Enqueued(stream, l, n)[s]
      BY <1>1
    <2> HIDE DEF n
    <2>3. LET x == stream[s]
              y == Enqueued(stream, l, n)[s]
          IN  /\ y.cursor = x.cursor /\ y.out = x.out /\ y.tab = x.tab /\ y.st = x.st
              /\ \/ y = x /\ ~(x.sub /\ LaneOf[x.tab] = l)
                 \/ x.sub /\ y.sub /\ LaneOf[x.tab] = l /\ Elems(y.queue) = Elems(x.queue) \cup {n}
                 \/ x.sub /\ ~y.sub /\ LaneOf[x.tab] = l /\ y.queue = x.queue /\ y.stopped
      BY <1>2, <2>1, EnqueuedGood
    <2>5. LET x == stream[s]
              y == stream'[s]
          IN  /\ y.cursor = x.cursor /\ y.out = x.out /\ y.tab = x.tab /\ y.st = x.st
              /\ \/ y = x /\ ~(x.sub /\ LaneOf[x.tab] = l)
                 \/ x.sub /\ y.sub /\ LaneOf[x.tab] = l /\ Elems(y.queue) = Elems(x.queue) \cup {n}
                 \/ x.sub /\ ~y.sub /\ LaneOf[x.tab] = l /\ y.queue = x.queue /\ y.stopped
      BY <2>3, <2>4
    <2>6. /\ Coming(s) = Elems(stream[s].out) \cup Elems(stream[s].queue)
          /\ Coming(s)' = Elems(stream'[s].out) \cup Elems(stream'[s].queue)
      BY DEF Coming
    <2>7. stream[s].sub \in BOOLEAN
      BY <2>1 DEF Sound, Shaped
    <2> QED BY <2>2, <2>5, <2>6, <2>7
  <1>13. new \in [Lanes -> {0} \cup (seq + 1 .. seq')] /\ new[l] # 0
    BY <1>1, <1>2
  <1>14. \A t \in Tabs : new[LaneOf[t]] = IF LaneOf[t] = l THEN n ELSE 0
    BY <1>5 DEF LaneOf, Lanes
  <1> HIDE DEF base, new
  <1>15. \A s \in Streams :
            LET x == stream[s]
                y == stream'[s]
                m == new[LaneOf[x.tab]]
            IN  /\ y.cursor = x.cursor /\ y.out = x.out /\ y.tab = x.tab /\ y.st = x.st
                /\ \/ ~x.sub /\ y = x
                   \/ x.sub /\ x.tab \in Tabs /\ m = 0 /\ y = x
                   \/ x.sub /\ x.tab \in Tabs /\ m # 0 /\ y.sub /\ Coming(s)' = Coming(s) \cup {m}
                   \/ x.sub /\ x.tab \in Tabs /\ m # 0 /\ ~y.sub /\ y.stopped /\ Coming(s)' = Coming(s)
    <2> HIDE DEF n
    <2> QED BY <1>2, <1>12, <1>14
  <1>16. seq' \in Nat /\ seq < seq' /\ seq' = n
    BY <1>1, <1>2
  <1>17. \A k \in Lanes : \A m \in 1 .. seq' : Keeps(base[k], m) \/ m = new[k] => Keeps(inc'[k], m)
    BY <1>11, <1>16
  <1> HIDE DEF n
  <1>18. PublishedAs(new, base)
    BY <1>1, <1>3, <1>6, <1>7, <1>10, <1>11, <1>13, <1>15, <1>16, <1>17 DEF PublishedAs
  <1> QED BY <1>1, <1>18 DEF base

\* What an external change, number n on the live lane and m on the saved one, does
\* to a connection.
TwiceOffered(x, y, n, m) ==
    /\ y.cursor = x.cursor /\ y.out = x.out /\ y.tab = x.tab /\ y.st = x.st
    /\ \/ ~x.sub /\ y = x
       \/ /\ x.sub /\ x.tab \in Tabs /\ LaneOf[x.tab] = "live"
          /\ \/ y.sub /\ Elems(y.queue) = Elems(x.queue) \cup {n}
             \/ ~y.sub /\ y.stopped /\ y.queue = x.queue
       \/ /\ x.sub /\ x.tab \in Tabs /\ LaneOf[x.tab] = "saved"
          /\ \/ y.sub /\ Elems(y.queue) = Elems(x.queue) \cup {m}
             \/ ~y.sub /\ y.stopped /\ y.queue = x.queue

\* What two offers in turn, one on each lane, do to every connection.
LEMMA EnqueuedTwice ==
    ASSUME HubAssumption, NEW k \in Nat, NEW n \in Nat, NEW m \in Nat, k < n, n < m, NEW str,
           \A s \in Streams : Sound(str[s]) /\ GoodStream(str[s], k)
    PROVE  \A s \in Streams :
              TwiceOffered(str[s], Enqueued(Enqueued(str, "live", n), "saved", m)[s], n, m)
  <1> DEFINE mid == Enqueued(str, "live", n)
             new == Enqueued(mid, "saved", m)
  <1>1. \A s \in Streams :
           LET x == str[s]
               z == mid[s]
           IN /\ GoodStream(z, n) /\ Sound(z)
              /\ z.cursor = x.cursor /\ z.out = x.out /\ z.tab = x.tab /\ z.st = x.st
              /\ \/ z = x /\ ~(x.sub /\ LaneOf[x.tab] = "live")
                 \/ x.sub /\ z.sub /\ LaneOf[x.tab] = "live" /\ Elems(z.queue) = Elems(x.queue) \cup {n}
                 \/ x.sub /\ ~z.sub /\ LaneOf[x.tab] = "live" /\ z.queue = x.queue /\ z.stopped
    BY EnqueuedGood
  <1> HIDE DEF mid
  <1>2. \A s \in Streams : Sound(mid[s]) /\ GoodStream(mid[s], n)
    BY <1>1
  <1>3. \A s \in Streams :
           LET z == mid[s]
               y == new[s]
           IN /\ GoodStream(y, m) /\ Sound(y)
              /\ y.cursor = z.cursor /\ y.out = z.out /\ y.tab = z.tab /\ y.st = z.st
              /\ \/ y = z /\ ~(z.sub /\ LaneOf[z.tab] = "saved")
                 \/ z.sub /\ y.sub /\ LaneOf[z.tab] = "saved" /\ Elems(y.queue) = Elems(z.queue) \cup {m}
                 \/ z.sub /\ ~y.sub /\ LaneOf[z.tab] = "saved" /\ y.queue = z.queue /\ y.stopped
    BY <1>2, EnqueuedGood
  <1> SUFFICES ASSUME NEW s \in Streams
               PROVE  TwiceOffered(str[s], new[s], n, m)
    BY DEF mid
  <1> HIDE DEF new
  <1>4. str[s].sub => str[s].tab \in Tabs /\ LaneOf[str[s].tab] \in {"live", "saved"}
    BY DEF Sound, GoodStream, StreamTyped, LaneOf
  <1>5. str[s].sub \in BOOLEAN /\ mid[s].sub \in BOOLEAN
    BY <1>2 DEF Sound, Shaped
  <1>6. "live" # "saved"
    OBVIOUS
  <1> USE DEF TwiceOffered
  <1>7. CASE ~str[s].sub
    BY <1>1, <1>3, <1>7
  <1>8. CASE str[s].sub /\ LaneOf[str[s].tab] = "live"
    BY <1>1, <1>3, <1>4, <1>6, <1>8
  <1>9. CASE str[s].sub /\ LaneOf[str[s].tab] = "saved"
    BY <1>1, <1>3, <1>4, <1>6, <1>9
  <1> QED BY <1>4, <1>5, <1>7, <1>8, <1>9

\* An external change in the terms of PublishedAs: one frame on each lane.
LEMMA ExternalFacts ==
    ASSUME HubAssumption, Tidy, NEW probe \in Probes, PublishExternal(probe)
    PROVE  /\ stage = "open" /\ ino # None /\ cursors' = CursorsAfter(inc, probe)
           /\ \E new : PublishedAs(new, Observed(inc, probe))
  <1> DEFINE n == seq + 1
             m == seq + 2
             base == Observed(inc, probe)
             mid == Enqueued(stream, "live", n)
             new == [k \in Lanes |-> IF k = "live" THEN n ELSE m]
  <1>1. /\ stage = "open" /\ ino # None /\ seq' = m
        /\ cursors' = CursorsAfter(inc, probe)
        /\ stream' = Enqueued(mid, "saved", m)
        /\ log' = [live |-> log["live"] \cup {n}, saved |-> log["saved"] \cup {m}]
        /\ UNCHANGED <<plan, stage, conn, pos, seen, ino, replaced>>
    BY DEF PublishExternal, fileVars, tabVars
  <1>2. PICK big \in Sizes :
          inc' = [base EXCEPT !.live = Retain(base["live"], n, big),
                              !.saved = Retain(base["saved"], m, big)]
    BY DEF PublishExternal
  <1>3. seq \in Nat /\ seq >= 1 /\ n \in Nat /\ m \in Nat /\ seq < n /\ n < m /\ seq < m /\ n # 0 /\ m # 0
    BY Bounds DEF Tidy
  <1>4. GoodInc(base, seq)
    <2>1. probe \in Inos \cup {None}
      BY DEF Probes, Tidy, FileOK
    <2> QED BY <1>3, <2>1, ObservedGood DEF Tidy, IncOK
  <1>5. big \in BOOLEAN /\ (big => "big" \in Happens)
    BY DEF Sizes
  <1>6. new["live"] = n /\ new["saved"] = m /\ Lanes = {"live", "saved"}
    BY DEF Lanes
  <1>7. \A k \in Lanes : log'[k] = log[k] \cup ({new[k]} \ {0})
    <2> HIDE DEF n, m, new
    <2> QED BY <1>1, <1>3, <1>6
  <1>8. /\ inc'.anchor = base.anchor /\ inc' = [f \in {"anchor", "live", "saved"} |-> inc'[f]]
        /\ \A k \in Lanes : inc'[k] = Retain(base[k], new[k], big)
    <2> HIDE DEF n, m, base, new
    <2> QED BY <1>2, <1>4, <1>6 DEF GoodInc
  <1> HIDE DEF base
  <1>9. ASSUME NEW k \in Lanes
        PROVE  /\ GoodBucket(inc'[k], m)
               /\ \A j \in Nat : Keeps(base[k], j) \/ j = new[k] => Keeps(inc'[k], j)
               /\ Elems(inc'[k].frames) \subseteq Elems(base[k].frames) \cup {new[k]}
               /\ ~big => inc'[k].frames # <<>>
    <2> DEFINE b == base[k]
               p == new[k]
               r == Retain(b, p, big)
    <2>1. p \in Nat /\ seq < p /\ p <= m /\ GoodBucket(b, seq) /\ inc'[k] = r
      BY <1>3, <1>4, <1>6, <1>8 DEF GoodInc
    <2> HIDE DEF b, p, n, m, new
    <2>2. /\ GoodBucket(r, p)
          /\ \A j \in Nat : Keeps(b, j) \/ j = p => Keeps(r, j)
          /\ Elems(r.frames) \subseteq Elems(b.frames) \cup {p}
          /\ ~big => r.frames # <<>>
      BY <1>3, <1>5, <2>1, RetainGood
    <2> HIDE DEF r
    <2>3. GoodBucket(r, m)
      BY <1>3, <2>1, <2>2, BucketGrows
    <2> QED BY <2>1, <2>2, <2>3 DEF b, p
  <1>10. inc' # None
    <2>1. GoodInc(inc', m)
      BY <1>4, <1>8, <1>9 DEF GoodInc
    <2> QED BY <1>3, <2>1, IncIsRecord
  <1>11. ASSUME NEW s \in Streams
         PROVE  LET x == stream[s]
                    y == stream'[s]
                IN  /\ y.cursor = x.cursor /\ y.out = x.out /\ y.tab = x.tab /\ y.st = x.st
                    /\ \/ ~x.sub /\ y = x
                       \/ x.sub /\ x.tab \in Tabs /\ y.sub /\ Coming(s)' = Coming(s) \cup {new[LaneOf[x.tab]]}
                       \/ x.sub /\ x.tab \in Tabs /\ ~y.sub /\ y.stopped /\ Coming(s)' = Coming(s)
    <2> DEFINE x == stream[s]
               y == stream'[s]
    <2>1. \A q \in Streams : Sound(stream[q]) /\ GoodStream(stream[q], seq)
      BY DEF Tidy, LinesOK, BooksInv, StreamsInv
    <2>2. stream' = Enqueued(Enqueued(stream, "live", n), "saved", m)
      BY <1>1
    <2> HIDE DEF mid, n, m, new
    <2>3. TwiceOffered(x, y, n, m)
      <3>1. \A q \in Streams :
               TwiceOffered(stream[q], Enqueued(Enqueued(stream, "live", n), "saved", m)[q], n, m)
        BY <1>3, <2>1, EnqueuedTwice
      <3> QED BY <2>2, <3>1
    <2>4. /\ Coming(s) = Elems(x.out) \cup Elems(x.queue)
          /\ Coming(s)' = Elems(y.out) \cup Elems(y.queue)
      BY DEF Coming
    <2> HIDE DEF x, y
    <2>5. \/ ~x.sub /\ y = x
          \/ x.sub /\ x.tab \in Tabs /\ y.sub /\ Coming(s)' = Coming(s) \cup {new[LaneOf[x.tab]]}
          \/ x.sub /\ x.tab \in Tabs /\ ~y.sub /\ y.stopped /\ Coming(s)' = Coming(s)
      BY <1>6, <2>3, <2>4 DEF TwiceOffered
    <2> QED BY <2>3, <2>5 DEF x, y, TwiceOffered
  <1>12. new \in [Lanes -> {0} \cup (seq + 1 .. seq')] /\ new["live"] # 0 /\ "live" \in Lanes
    BY <1>1, <1>3, <1>6
  <1>13. \A k \in Lanes : new[k] \in 1 .. seq' /\ new[k] # 0
    BY <1>1, <1>3, <1>6
  <1>14. \A t \in Tabs : new[LaneOf[t]] # 0
    BY <1>13 DEF LaneOf, Lanes
  <1>15. seq' \in Nat /\ seq < seq' /\ seq' = m
    BY <1>1, <1>3
  <1> HIDE DEF n, m, mid, new
  <1>16. \A k \in Lanes :
            /\ \A j \in 1 .. seq' : Keeps(base[k], j) \/ j = new[k] => Keeps(inc'[k], j)
            /\ Elems(inc'[k].frames) \subseteq Elems(base[k].frames) \cup ({new[k]} \ {0})
            /\ "big" \notin Happens => inc'[k].frames # <<>>
    BY <1>5, <1>9, <1>13
  <1>17. \A s \in Streams :
            LET x == stream[s]
                y == stream'[s]
                p == new[LaneOf[x.tab]]
            IN  /\ y.cursor = x.cursor /\ y.out = x.out /\ y.tab = x.tab /\ y.st = x.st
                /\ \/ ~x.sub /\ y = x
                   \/ x.sub /\ x.tab \in Tabs /\ p = 0 /\ y = x
                   \/ x.sub /\ x.tab \in Tabs /\ p # 0 /\ y.sub /\ Coming(s)' = Coming(s) \cup {p}
                   \/ x.sub /\ x.tab \in Tabs /\ p # 0 /\ ~y.sub /\ y.stopped /\ Coming(s)' = Coming(s)
    BY <1>11, <1>14
  <1>18. PublishedAs(new, base)
    BY <1>1, <1>4, <1>7, <1>8, <1>10, <1>12, <1>15, <1>16, <1>17 DEF PublishedAs
  <1> QED BY <1>1, <1>18 DEF base

-----------------------------------------------------------------------------
(* No replay of a file that was replaced.                                  *)

\* The hub's record goes at a shutdown only, and a probe of a file there is answered.
Remembers == Happens \cap {"expire", "restart", "unreadable"} = {}

\* No tab has been here.
Unvisited ==
    /\ \A t \in Tabs : pos[t] = 0 /\ cursors[t] = None /\ conn[t] = None
    /\ \A s \in Streams : stream[s].st = "free"

\* No tab resumes below n.
Past(n) ==
    /\ \A t \in Tabs : /\ pos[t] > 0 => n <= pos[t]
                       /\ cursors[t] # None => n <= cursors[t].base
    /\ \A s \in Streams :
          stream[s].st # "free" =>
              /\ stream[s].cursor # None => n <= stream[s].cursor.base
              /\ \A m \in Coming(s) : n <= m

\* A record without an anchor was made by a publish, before any tab came.
Unanchored == inc = None \/ inc.anchor = None => Unvisited

\* Frames older than the file that the record is for are replayed to nobody.
OldIsPast ==
    inc # None /\ ino # None /\ inc.anchor = ino =>
        \A l \in Lanes : \A n \in Elems(inc[l].frames) : n > replaced \/ Past(n)

ForeignInv == stage = "open" => Unanchored /\ OldIsPast

\* What a step may do to the tabs and connections and still leave what is past, past.
LEMMA PastStays ==
    ASSUME NEW n, Past(n),
           \A t \in Tabs : pos'[t] = pos[t] \/ n <= pos'[t],
           \A t \in Tabs : cursors'[t] # None =>
              \/ cursors[t] # None /\ cursors'[t].base = cursors[t].base
              \/ n <= cursors'[t].base,
           \A s \in Streams : stream'[s].st # "free" =>
              \/ /\ stream[s].st # "free"
                 /\ stream'[s].cursor \in {None, stream[s].cursor}
                 /\ \A m \in Coming(s)' : m \in Coming(s) \/ n <= m
              \/ /\ stream'[s].cursor # None => n <= stream'[s].cursor.base
                 /\ \A m \in Coming(s)' : n <= m
    PROVE  Past(n)'
  BY DEF Past

\* The frames of a bucket have been published.
LEMMA BucketFrames ==
    ASSUME HubAssumption, Tidy, inc # None, NEW l \in Lanes
    PROVE  GoodBucket(inc[l], seq) /\ Elems(inc[l].frames) \subseteq 1 .. seq
  BY Bounds, LineElems DEF Tidy, IncOK, GoodInc, GoodBucket

\* The frames stay or go, and the tabs with them.
LEMMA ForeignStays ==
    ASSUME HubAssumption, Tidy, ForeignInv, stage = "open",
           UNCHANGED <<ino, replaced>>,
           inc' # None => inc # None /\ inc'.anchor = inc.anchor,
           inc' # None => \A l \in Lanes : Elems(inc'[l].frames) \subseteq Elems(inc[l].frames),
           inc' = None => inc = None,
           inc = None \/ inc.anchor = None => Unvisited',
           \A n \in 1 .. seq : Past(n) => Past(n)'
    PROVE  ForeignInv'
  <1>1. Unanchored'
    BY DEF Unanchored
  <1>2. OldIsPast'
    <2> SUFFICES ASSUME inc' # None, ino' # None, inc'.anchor = ino', NEW l \in Lanes,
                        NEW n \in Elems(inc'[l].frames)
                 PROVE  n > replaced' \/ Past(n)'
      BY DEF OldIsPast
    <2>1. inc # None /\ n \in Elems(inc[l].frames) /\ inc.anchor = ino /\ ino # None
      OBVIOUS
    <2>2. n > replaced \/ Past(n)
      BY <2>1 DEF ForeignInv, OldIsPast
    <2> QED BY <2>1, <2>2, BucketFrames
  <1> QED BY <1>1, <1>2 DEF ForeignInv

\* The cursor frame keeps ForeignInv: its baseline was already the server's.
LEMMA CursorForeign ==
    ASSUME HubAssumption, Tidy, ForeignInv, NEW s \in Streams, WriteCursor(s)
    PROVE  ForeignInv'
  <1> SUFFICES ASSUME stage = "open" PROVE ForeignInv'
    BY CursorFacts DEF ForeignInv
  <1> DEFINE t == stream[s].tab
             c == stream[s].cursor
  <1>1. /\ t \in Tabs /\ c # None /\ stream[s].st = "open"
        /\ stream'[s].cursor = None /\ Coming(s)' = Coming(s) /\ stream'[s].st = "open"
        /\ pos' = pos \/ pos' = [pos EXCEPT ![t] = c.base]
        /\ stream' = [stream EXCEPT ![s] = stream'[s]]
        /\ UNCHANGED <<cursors, inc, ino, replaced>>
    BY CursorFacts DEF SameFlags
  <1>2. \A q \in Streams : q # s => stream'[q] = stream[q]
    BY <1>1, OthersStay
  <1>3. ASSUME NEW n \in 1 .. seq, Past(n)
        PROVE  Past(n)'
    <2>1. n <= c.base
      BY <1>1, <1>3 DEF Past
    <2>2. \A u \in Tabs : pos'[u] = pos[u] \/ n <= pos'[u]
      BY <1>1, <2>1 DEF Tidy, PlacesOK
    <2>3. \A q \in Streams : /\ stream'[q].st = stream[q].st
                             /\ stream'[q].cursor \in {None, stream[q].cursor}
                             /\ Coming(q)' = Coming(q)
      BY <1>1, <1>2 DEF Coming
    <2> QED BY <1>1, <1>3, <2>2, <2>3, PastStays
  <1>4. ~Unvisited
    BY <1>1 DEF Unvisited
  <1>5. inc # None /\ inc.anchor # None
    BY <1>4 DEF ForeignInv, Unanchored
  <1> QED BY <1>1, <1>3, <1>5, ForeignStays

\* So does the next frame.
LEMMA FrameForeign ==
    ASSUME HubAssumption, Tidy, ForeignInv, NEW s \in Streams, WriteFrame(s)
    PROVE  ForeignInv'
  <1> SUFFICES ASSUME stage = "open" PROVE ForeignInv'
    BY FrameFacts DEF ForeignInv
  <1> DEFINE t == stream[s].tab
  <1>1. /\ t \in Tabs /\ stream[s].st = "open" /\ stream'[s].st = "open"
        /\ stream'[s].cursor = None
        /\ UNCHANGED <<cursors, inc, ino, replaced>>
    BY FrameFacts DEF SameFlags
  <1>2. PICK m \in Coming(s) : /\ Coming(s)' = Coming(s) \ {m}
                               /\ pos' = pos \/ pos' = [pos EXCEPT ![t] = m]
    BY FrameFacts
  <1>3. \A q \in Streams : q # s => stream'[q] = stream[q]
    BY FrameFacts, OthersStay
  <1>4. ASSUME NEW n \in 1 .. seq, Past(n)
        PROVE  Past(n)'
    <2>1. n <= m
      BY <1>1, <1>2, <1>4 DEF Past
    <2>2. \A u \in Tabs : pos'[u] = pos[u] \/ n <= pos'[u]
      BY <1>2, <2>1 DEF Tidy, PlacesOK
    <2>3. \A q \in Streams : /\ stream'[q].st = stream[q].st
                             /\ stream'[q].cursor \in {None, stream[q].cursor}
                             /\ Coming(q)' \subseteq Coming(q)
      BY <1>1, <1>2, <1>3 DEF Coming
    <2> QED BY <1>1, <1>4, <2>2, <2>3, PastStays
  <1>5. ~Unvisited
    BY <1>1 DEF Unvisited
  <1>6. inc # None /\ inc.anchor # None
    BY <1>5 DEF ForeignInv, Unanchored
  <1> QED BY <1>1, <1>4, <1>6, ForeignStays

\* So does the end of a connection, and revocation.
LEMMA EndForeign ==
    ASSUME HubAssumption, Tidy, ForeignInv, stage' = "open",
           \/ \E s \in Streams : Finish(s) \/ Evict(s)
           \/ DropSubscribers
    PROVE  ForeignInv'
  <1>1. /\ UNCHANGED <<stage, seq, inc, ino, replaced, pos>>
        /\ \A t \in Tabs : conn'[t] = conn[t] \/ conn'[t] = None
    BY DEF Finish, Evict, DropSubscribers, fileVars, hubVars, tabVars, Tidy, RestOK
  <1>2. \A t \in Tabs : /\ cursors'[t] = None <=> cursors[t] = None
                        /\ cursors[t] # None => cursors'[t].base = cursors[t].base
    BY RemoveFacts DEF Finish, Evict, DropSubscribers, hubVars
  <1>3. \A s \in Streams :
          \/ stream'[s].st = "free"
          \/ /\ stream[s].st # "free"
             /\ stream'[s].cursor = stream[s].cursor /\ Coming(s)' = Coming(s)
    <2>1. ASSUME NEW s \in Streams, NEW q \in Streams, Finish(q), stream[s].st = "free"
          PROVE  stream'[s].st = "free"
      BY <2>1 DEF Finish, Tidy, BooksInv, StreamsInv
    <2>2. ASSUME NEW s \in Streams, NEW q \in Streams, Evict(q), stream[s].st = "free"
          PROVE  stream'[s].st = "free"
      BY <2>2 DEF Evict, Tidy, BooksInv, StreamsInv, Sound
    <2>3. ASSUME NEW s \in Streams, DropSubscribers
          PROVE  stream'[s].st = stream[s].st
      <3>1. stream'[s] = [stream[s] EXCEPT !.stopped = stream[s].stopped \/ stream[s].sub]
        BY <2>3 DEF DropSubscribers
      <3>2. Shaped(stream[s])
        BY StreamFields DEF Tidy
      <3> QED BY <3>1, <3>2 DEF Shaped, Fields
    <2> QED BY <2>1, <2>2, <2>3, EndFacts
  <1>4. ASSUME NEW n \in 1 .. seq, Past(n)
        PROVE  Past(n)'
    BY <1>1, <1>2, <1>3, <1>4, PastStays
  <1>5. Unvisited => Unvisited'
    BY <1>1, <1>2, <1>3 DEF Unvisited
  <1> QED BY <1>1, <1>4, <1>5, ForeignStays DEF ForeignInv, Unanchored


\* Nobody holds anything of a path nobody has visited.
LEMMA UnvisitedPast == ASSUME Unvisited, NEW n PROVE Past(n)
  BY DEF Unvisited, Past

\* What a record observed by a publish or a connection takes over from the hub's.
LEMMA TakenOver ==
    ASSUME HubAssumption, Tidy, ino # None, NEW i, i \in {inc, None}
    PROVE  /\ Observed(i, ino).anchor = ino
           /\ \A l \in Lanes : \A n \in Elems(Observed(i, ino)[l].frames) :
                 inc # None /\ i = inc /\ inc.anchor \in {None, ino} /\ n \in Elems(inc[l].frames)
  <1>1. seq \in Nat /\ seq >= 1 /\ (i = None \/ GoodInc(i, seq)) /\ ino \in Inos \cup {None}
    BY Bounds DEF Tidy, IncOK, FileOK
  <1>2. /\ Observed(i, ino).anchor = ino
        /\ \A l \in Lanes : Observed(i, ino)[l] = IF i = None \/ Rolls(i, ino) THEN EmptyBucket ELSE i[l]
    BY <1>1, ObservedRecord
  <1>3. Elems(EmptyBucket.frames) = {}
    BY EmptyLine DEF EmptyBucket
  <1> QED BY <1>2, <1>3 DEF Rolls

\* So does a publish: its numbers are above replaced.
LEMMA PublishForeign ==
    ASSUME HubAssumption, Tidy, ForeignInv, Remembers,
           \/ \E l \in Lanes, big \in Sizes : Publish(l, big)
           \/ \E probe \in Probes : PublishExternal(probe)
    PROVE  ForeignInv'
  <1>0. Probes = {ino} /\ seq \in Nat /\ replaced \in 0 .. seq
    BY Bounds DEF Probes, Remembers, Tidy, FileOK
  <1>1. PICK new, base :
          /\ PublishedAs(new, base)
          /\ \/ base = Ensured(inc) /\ cursors' = cursors
             \/ ino # None /\ base = Observed(inc, ino) /\ cursors' = CursorsAfter(inc, ino)
    BY <1>0, PublishFacts, ExternalFacts
  <1> SUFFICES ASSUME stage = "open" PROVE ForeignInv'
    BY <1>1 DEF PublishedAs, ForeignInv
  <1>2. cursors' = cursors \/ \A t \in Tabs : cursors'[t] = None
    BY <1>1 DEF CursorsAfter, NoCursors
  <1>3. \A s \in Streams : /\ stream'[s].st = stream[s].st /\ stream'[s].cursor = stream[s].cursor
                           /\ \A m \in Coming(s)' : m \in Coming(s) \/ (m \in Nat /\ seq < m)
    <2> SUFFICES ASSUME NEW s \in Streams
                 PROVE  /\ stream'[s].st = stream[s].st /\ stream'[s].cursor = stream[s].cursor
                        /\ \A m \in Coming(s)' : m \in Coming(s) \/ (m \in Nat /\ seq < m)
      OBVIOUS
    <2> DEFINE p == new[LaneOf[stream[s].tab]]
    <2>1. /\ stream'[s].st = stream[s].st /\ stream'[s].cursor = stream[s].cursor
          /\ \/ stream'[s] = stream[s]
             \/ stream[s].tab \in Tabs /\ p # 0 /\ Coming(s)' \subseteq Coming(s) \cup {p}
      BY <1>1 DEF PublishedAs
    <2>2. stream[s].tab \in Tabs => p = 0 \/ (p \in Nat /\ seq < p)
      BY <1>0, <1>1 DEF PublishedAs, LaneOf, Lanes
    <2> HIDE DEF p
    <2> QED BY <2>1, <2>2 DEF Coming
  <1>4. ASSUME NEW n \in 1 .. seq, Past(n)
        PROVE  Past(n)'
    <2>1. UNCHANGED pos
      BY <1>1 DEF PublishedAs
    <2>2. \A s \in Streams : stream'[s].st # "free" =>
              /\ stream[s].st # "free" /\ stream'[s].cursor \in {None, stream[s].cursor}
              /\ \A m \in Coming(s)' : m \in Coming(s) \/ n <= m
      <3> SUFFICES ASSUME NEW s \in Streams, NEW m \in Coming(s)', m \notin Coming(s) PROVE n <= m
        BY <1>3
      <3>1. m \in Nat /\ seq < m
        BY <1>3
      <3> QED BY <1>0, <3>1
    <2> QED BY <1>2, <1>4, <2>1, <2>2, PastStays
  <1>5. Unvisited => Unvisited'
    BY <1>1, <1>2, <1>3 DEF PublishedAs, Unvisited
  <1>6. /\ base.anchor = None => inc = None \/ inc.anchor = None
        /\ \A l \in Lanes : \A n \in Elems(base[l].frames) :
              /\ inc # None /\ n \in Elems(inc[l].frames)
              /\ base.anchor = ino => inc.anchor \in {None, ino}
    <2>1. CASE base = Ensured(inc)
      <3>1. \A l \in Lanes : Elems(FreshInc[l].frames) = {}
        BY EmptyLine DEF FreshInc, EmptyBucket, Lanes
      <3> QED BY <2>1, <3>1 DEF Ensured
    <2>2. CASE ino # None /\ base = Observed(inc, ino)
      BY <2>2, TakenOver
    <2> QED BY <1>1, <2>1, <2>2
  <1>7. Unanchored'
    BY <1>1, <1>5, <1>6 DEF PublishedAs, Unanchored, ForeignInv
  <1>8. OldIsPast'
    <2> SUFFICES ASSUME ino' # None, inc'.anchor = ino', NEW l \in Lanes, NEW n \in Elems(inc'[l].frames)
                 PROVE  n > replaced' \/ Past(n)'
      BY DEF OldIsPast
    <2>1. /\ ino' = ino /\ replaced' = replaced /\ base.anchor = ino
          /\ n \in Elems(base[l].frames) \/ (n = new[l] /\ n # 0)
          /\ new[l] \in {0} \cup (seq + 1 .. seq') /\ seq' \in Nat
      BY <1>1 DEF PublishedAs
    <2>2. CASE n \in Elems(base[l].frames)
      <3>1. inc # None /\ n \in Elems(inc[l].frames) /\ inc.anchor \in {None, ino}
        BY <1>6, <2>1, <2>2
      <3>2. n \in 1 .. seq
        BY <3>1, BucketFrames
      <3>3. n > replaced \/ Past(n)
        BY <2>1, <3>1, UnvisitedPast DEF ForeignInv, Unanchored, OldIsPast
      <3> QED BY <1>4, <2>1, <3>2, <3>3
    <2>3. CASE n = new[l] /\ n # 0
      BY <1>0, <2>1, <2>3
    <2> QED BY <2>1, <2>2, <2>3
  <1> QED BY <1>7, <1>8 DEF ForeignInv

\* A connection resumes above every frame of an earlier file.
LEMMA ConnectForeign ==
    ASSUME HubAssumption, Tidy, ForeignInv, Remembers, NEW t \in Tabs, NEW s \in Streams,
           NEW probe \in Probes, Connect(t, s, probe)
    PROVE  /\ ForeignInv'
           /\ \A n \in Elems(stream'[s].out) : n > replaced
           /\ \A q \in Streams : q # s => stream'[q] = stream[q]
  <1>0. probe = ino /\ seq \in Nat /\ replaced \in 0 .. seq /\ pos[t] \in 0 .. seq
    BY Bounds DEF Probes, Remembers, Tidy, FileOK, PlacesOK
  <1> DEFINE crs == CursorsAfter(Swept, probe)
  <1>1. /\ stage = "open" /\ conn[t] = None /\ ino # None /\ stream[s].st = "free"
        /\ inc' = Observed(Swept, ino)
        /\ UNCHANGED <<plan, seq, stage, ino, replaced, pos>>
    BY <1>0, ConnectFacts
  <1>2. PICK from, resumed :
          ConnectedAt(t, s, from, resumed, crs, inc'[LaneOf[t]], Swept # None /\ ~Rolls(Swept, probe))
    BY ConnectFacts
  <1> DEFINE x == stream'[s]
  <1>3. /\ from \in 1 .. seq
        /\ \/ pos[t] > 0 /\ from = pos[t]
           \/ pos[t] = 0 /\ crs[t] # None /\ from = crs[t].base
           \/ pos[t] = 0 /\ from = seq
        /\ cursors' = Activated(t, crs, from)
        /\ stream' = [stream EXCEPT ![s] = x]
        /\ x.st = "open" /\ x.cursor.base = from /\ x.queue = <<>>
        /\ Elems(x.out) = {n \in Elems(inc'[LaneOf[t]].frames) : n > from}
    BY <1>2 DEF ConnectedAt
  <1> HIDE DEF x
  <1>4. \A q \in Streams : q # s => stream'[q] = stream[q]
    BY <1>3, OthersStay
  <1>5. /\ inc'.anchor = ino
        /\ \A l \in Lanes : \A n \in Elems(inc'[l].frames) :
              inc # None /\ Swept = inc /\ inc.anchor \in {None, ino} /\ n \in Elems(inc[l].frames)
    BY <1>1, TakenOver DEF Swept
  <1>6. ASSUME NEW l \in Lanes, NEW n \in Elems(inc'[l].frames)
        PROVE  n \in 1 .. seq /\ (n > replaced \/ (n <= from /\ Past(n)'))
    <2>1. inc # None /\ Swept = inc /\ inc.anchor \in {None, ino} /\ n \in 1 .. seq /\ n \in Elems(inc[l].frames)
      BY <1>5, <1>6, BucketFrames
    <2>2. crs = cursors
      BY <1>0, <2>1 DEF CursorsAfter, Rolls, Ensured
    <2>3. n > replaced \/ Past(n)
      BY <1>1, <2>1, UnvisitedPast DEF ForeignInv, Unanchored, OldIsPast
    <2>4. ASSUME Past(n)
          PROVE  n <= from /\ Past(n)'
      <3>1. n <= from
        BY <1>0, <1>3, <2>1, <2>2, <2>4 DEF Past
      <3>2. \A u \in Tabs : cursors'[u] # None =>
               \/ cursors[u] # None /\ cursors'[u].base = cursors[u].base
               \/ n <= cursors'[u].base
        BY <1>3, <2>2, <3>1 DEF Activated, Tidy, CursorsOK
      <3>3. \A m \in Coming(s)' : n <= m
        <4>1. Coming(s)' = Elems(x.out) \cup Elems(<<>>)
          BY <1>3 DEF Coming, x
        <4>2. \A m \in Elems(x.out) : m \in Elems(inc'[LaneOf[t]].frames) /\ m > from
          BY <1>3
        <4>3. LaneOf[t] \in Lanes
          BY DEF LaneOf, Lanes
        <4>4. \A m \in Elems(x.out) : m \in 1 .. seq /\ m > from
          BY <1>5, <4>2, <4>3, BucketFrames
        <4> QED BY <1>3, <2>1, <3>1, <4>1, <4>4, EmptyLine
      <3>4. \A q \in Streams : stream'[q].st # "free" =>
              \/ /\ stream[q].st # "free"
                 /\ stream'[q].cursor \in {None, stream[q].cursor}
                 /\ \A m \in Coming(q)' : m \in Coming(q) \/ n <= m
              \/ /\ stream'[q].cursor # None => n <= stream'[q].cursor.base
                 /\ \A m \in Coming(q)' : n <= m
        BY <1>3, <1>4, <3>1, <3>3 DEF Coming, x
      <3> QED BY <1>1, <2>4, <3>1, <3>2, <3>4, PastStays
    <2> QED BY <2>1, <2>3, <2>4
  <1>7. ForeignInv'
    <2>1. Unanchored'
      <3>1. inc' # None
        <4>1. Swept = None \/ GoodInc(Swept, seq)
          BY DEF Swept, Tidy, IncOK
        <4>2. GoodInc(inc', seq) /\ seq >= 1
          BY <1>0, <1>1, <4>1, Bounds, ObservedGood DEF Tidy, FileOK
        <4> QED BY <1>0, <4>2, IncIsRecord
      <3> QED BY <1>1, <1>5, <3>1 DEF Unanchored
    <2>2. OldIsPast'
      BY <1>1, <1>6 DEF OldIsPast
    <2> QED BY <2>1, <2>2 DEF ForeignInv
  <1>8. \A n \in Elems(x.out) : n > replaced
    <2> SUFFICES ASSUME NEW n \in Elems(x.out) PROVE n > replaced
      OBVIOUS
    <2>1. n \in Elems(inc'[LaneOf[t]].frames) /\ n > from /\ LaneOf[t] \in Lanes
      BY <1>3 DEF LaneOf, Lanes
    <2>2. n \in 1 .. seq /\ (n > replaced \/ n <= from)
      BY <1>6, <2>1
    <2> QED BY <1>3, <2>1, <2>2
  <1> QED BY <1>4, <1>7, <1>8 DEF x


\* The record with one bucket changed.
LEMMA BucketChanged ==
    ASSUME HubAssumption, NEW n \in Nat, NEW i, GoodInc(i, n), NEW l \in Lanes, NEW b, GoodBucket(b, n)
    PROVE  /\ GoodInc([i EXCEPT ![l] = b], n) /\ [i EXCEPT ![l] = b] # None
           /\ [i EXCEPT ![l] = b].anchor = i.anchor
           /\ \A k \in Lanes : [i EXCEPT ![l] = b][k] = IF k = l THEN b ELSE i[k]
  <1> DEFINE j == [i EXCEPT ![l] = b]
  <1>1. /\ j = [f \in {"anchor", "live", "saved"} |-> j[f]]
        /\ j.anchor = i.anchor
        /\ \A k \in Lanes : j[k] = IF k = l THEN b ELSE i[k]
    BY DEF GoodInc, Lanes
  <1> HIDE DEF j
  <1>2. GoodInc(j, n)
    BY <1>1 DEF GoodInc
  <1>3. j # None
    BY <1>2, IncIsRecord
  <1> QED BY <1>1, <1>2, <1>3 DEF j

\* The record with its anchor changed.
LEMMA AnchorChanged ==
    ASSUME HubAssumption, NEW n \in Nat, NEW i, GoodInc(i, n), NEW p \in Inos \cup {None}
    PROVE  /\ GoodInc([i EXCEPT !.anchor = p], n) /\ [i EXCEPT !.anchor = p] # None
           /\ [i EXCEPT !.anchor = p].anchor = p
           /\ \A k \in Lanes : [i EXCEPT !.anchor = p][k] = i[k]
  <1> DEFINE j == [i EXCEPT !.anchor = p]
  <1>1. /\ j = [f \in {"anchor", "live", "saved"} |-> j[f]]
        /\ j.anchor = p
        /\ \A k \in Lanes : j[k] = i[k]
    BY DEF GoodInc, Lanes
  <1> HIDE DEF j
  <1>2. GoodInc(j, n)
    BY <1>1 DEF GoodInc
  <1>3. j # None
    BY <1>2, IncIsRecord
  <1> QED BY <1>1, <1>2, <1>3 DEF j

\* The record with both buckets cleared.
LEMMA ClearedRecord ==
    ASSUME HubAssumption, NEW n \in Nat, n >= 1, NEW i, GoodInc(i, n)
    PROVE  /\ GoodInc(Cleared(i), n) /\ Cleared(i) # None /\ Cleared(i).anchor = i.anchor
           /\ \A k \in Lanes : Cleared(i)[k] = EmptyBucket
  <1> DEFINE j == Cleared(i)
  <1>1. /\ j = [f \in {"anchor", "live", "saved"} |-> j[f]]
        /\ j.anchor = i.anchor
        /\ \A k \in Lanes : j[k] = EmptyBucket
    BY DEF GoodInc, Lanes, Cleared
  <1> HIDE DEF j
  <1>2. GoodInc(j, n)
    BY <1>1, EmptyGood DEF GoodInc
  <1>3. j # None
    BY <1>2, IncIsRecord
  <1> QED BY <1>1, <1>2, <1>3 DEF j

\* The hub forgets its oldest frame of a lane.
LEMMA ForgetFacts ==
    ASSUME HubAssumption, Tidy, NEW l \in Lanes, Forget(l)
    PROVE  /\ inc # None /\ inc' # None /\ inc'.anchor = inc.anchor
           /\ \A k \in Lanes : /\ Elems(inc'[k].frames) \subseteq Elems(inc[k].frames)
                               /\ \A n \in Nat : Keeps(inc[k], n) => Keeps(inc'[k], n)
           /\ "forget" \in Happens
           /\ UNCHANGED <<plan, seq, stage, cursors, stream, ino, replaced, conn, pos, seen, log>>
  <1> DEFINE b == DropOldest(inc[l])
  <1>1. /\ inc # None /\ inc[l].frames # <<>> /\ inc' = [inc EXCEPT ![l] = b]
        /\ "forget" \in Happens
        /\ UNCHANGED <<plan, seq, stage, cursors, stream, ino, replaced, conn, pos, seen, log>>
    BY DEF Forget, fileVars, tabVars
  <1>2. seq \in Nat /\ GoodInc(inc, seq) /\ GoodBucket(inc[l], seq)
    BY <1>1, Bounds DEF Tidy, IncOK, GoodInc
  <1>3. GoodBucket(b, seq) /\ Elems(b.frames) \subseteq Elems(inc[l].frames)
        /\ \A n \in Nat : Keeps(inc[l], n) => Keeps(b, n)
    <2> DEFINE o == inc[l]
    <2>1. BucketShape(o) /\ Line(o.frames, seq) /\ o.dropped \in 0 .. seq /\ o.frames # <<>>
          /\ Len(o.frames) \in Nat /\ Len(o.frames) <= BucketCap /\ BucketCap \in Nat
      BY <1>1, <1>2, LineElems DEF GoodBucket, HubAssumption
    <2>2. /\ BucketShape(b) /\ Line(b.frames, seq) /\ b.dropped \in 0 .. seq
          /\ Len(b.frames) = Len(o.frames) - 1
          /\ \A k \in Nat : Keeps(o, k) => Keeps(b, k)
          /\ Elems(b.frames) \subseteq Elems(o.frames)
      <3> HIDE DEF o
      <3>1. LET r == DropOldest(o)
            IN  /\ BucketShape(r) /\ Line(r.frames, seq) /\ r.dropped \in 0 .. seq
                /\ Len(r.frames) = Len(o.frames) - 1
                /\ \A k \in Nat : Keeps(o, k) => Keeps(r, k)
                /\ Elems(r.frames) \subseteq Elems(o.frames)
        BY <1>2, <2>1, DropOldestGood
      <3> QED BY <3>1 DEF o
    <2> HIDE DEF b, o
    <2> QED BY <2>1, <2>2 DEF GoodBucket, o
  <1> HIDE DEF b
  <1>4. /\ inc' # None /\ inc'.anchor = inc.anchor
        /\ \A k \in Lanes : inc'[k] = IF k = l THEN b ELSE inc[k]
    BY <1>1, <1>2, <1>3, BucketChanged
  <1> QED BY <1>1, <1>3, <1>4

\* The file goes, comes back or is replaced, and the hub forgets or is told.
LEMMA FileForeign ==
    ASSUME HubAssumption, Tidy, ForeignInv, Remembers,
           \/ \E i \in Inos : ExtReplace(i) \/ ExtCreate(i)
           \/ \E i \in Inos, probe \in Inos \cup {None} : ServerReplace(i, probe)
           \/ ExtDelete \/ MarkAbsent
           \/ \E l \in Lanes : Forget(l)
    PROVE  ForeignInv'
  <1> USE DEF hubVars, tabVars
  <1>0. seq \in Nat /\ seq >= 1 /\ (inc = None \/ GoodInc(inc, seq))
    BY Bounds DEF Tidy, IncOK
  <1>1. ASSUME NEW i \in Inos, ExtReplace(i) \/ ExtCreate(i)
        PROVE  ForeignInv'
    <2>1. ino' = i /\ (inc # None => inc.anchor # i)
          /\ UNCHANGED <<stage, inc, cursors, stream, conn, pos>>
      BY <1>1 DEF ExtReplace, ExtCreate, FreeInos
    <2>2. (stage = "open" => Unanchored)' /\ OldIsPast'
      BY <2>1 DEF ForeignInv, Unanchored, Unvisited, OldIsPast
    <2> QED BY <2>1, <2>2 DEF ForeignInv
  <1>2. ASSUME NEW i \in Inos, NEW probe \in Inos \cup {None}, ServerReplace(i, probe)
        PROVE  ForeignInv'
    <2>1. /\ ino' = i /\ replaced' = 0 /\ probe = i /\ i # None
          /\ inc' = IF inc = None THEN None ELSE [inc EXCEPT !.anchor = probe]
          /\ UNCHANGED <<stage, cursors, stream, conn, pos>>
      BY <1>2 DEF ServerReplace, Probes, Remembers, HubAssumption
    <2>2. inc = None => inc' = None
      BY <2>1
    <2>3. inc # None => /\ inc' # None /\ inc'.anchor = i
                        /\ \A k \in Lanes : inc'[k] = inc[k]
      BY <1>0, <2>1, AnchorChanged
    <2>4. (stage = "open" => Unanchored)'
      BY <2>1, <2>2, <2>3 DEF ForeignInv, Unanchored, Unvisited
    <2>5. OldIsPast'
      <3> SUFFICES ASSUME inc' # None, NEW l \in Lanes, NEW n \in Elems(inc'[l].frames)
                   PROVE  n > replaced'
        BY DEF OldIsPast
      <3>1. inc # None /\ n \in Elems(inc[l].frames)
        BY <2>2, <2>3
      <3>2. n \in 1 .. seq
        BY <3>1, BucketFrames
      <3> QED BY <1>0, <2>1, <3>2
    <2> QED BY <2>4, <2>5 DEF ForeignInv
  <1>3. CASE ExtDelete
    <2>1. ino' = None /\ UNCHANGED <<stage, inc, cursors, stream, conn, pos>>
      BY <1>3 DEF ExtDelete
    <2> QED BY <2>1 DEF ForeignInv, Unanchored, Unvisited, OldIsPast
  <1>4. CASE MarkAbsent
    <2>1. /\ inc # None /\ inc' = Cleared(inc)
          /\ cursors' = cursors \/ cursors' = NoCursors
          /\ UNCHANGED <<stage, stream, conn, pos, ino>>
      BY <1>4 DEF MarkAbsent, fileVars
    <2>2. /\ inc' # None /\ inc'.anchor = inc.anchor
          /\ \A k \in Lanes : inc'[k] = EmptyBucket
      BY <1>0, <2>1, ClearedRecord
    <2>3. (stage = "open" => Unanchored)'
      BY <2>1, <2>2 DEF ForeignInv, Unanchored, Unvisited, NoCursors
    <2>4. OldIsPast'
      BY <2>2, EmptyLine DEF OldIsPast, EmptyBucket
    <2> QED BY <2>3, <2>4 DEF ForeignInv
  <1>5. ASSUME NEW l \in Lanes, Forget(l)
        PROVE  ForeignInv'
    <2>1. /\ inc # None /\ inc' # None /\ inc'.anchor = inc.anchor
          /\ \A k \in Lanes : Elems(inc'[k].frames) \subseteq Elems(inc[k].frames)
          /\ UNCHANGED <<plan, seq, stage, cursors, stream, ino, replaced, conn, pos, seen, log>>
      BY <1>5, ForgetFacts
    <2>2. Unvisited => Unvisited'
      BY <2>1 DEF Unvisited
    <2>3. \A n : Past(n) => Past(n)'
      BY <2>1 DEF Past, Coming
    <2>4. CASE stage = "open"
      BY <2>1, <2>2, <2>3, <2>4, ForeignStays DEF ForeignInv, Unanchored
    <2> QED BY <2>1, <2>4 DEF ForeignInv
  <1> QED BY <1>1, <1>2, <1>3, <1>4, <1>5

\* The rest: nothing the invariant is about moves, or the hub is closed.
LEMMA RestForeign ==
    ASSUME HubAssumption, Tidy, ForeignInv,
           \/ UNCHANGED vars
           \/ \E t \in Tabs, s \in Streams : ConnectClosed(t, s)
           \/ \E t \in Tabs : Drop(t)
           \/ Lease \/ Unlease \/ HubShutdown \/ WatcherShutdown
    PROVE  ForeignInv'
  <1>1. \/ stage' # "open"
        \/ /\ UNCHANGED <<stage, inc, cursors, stream, ino, replaced, pos>>
           /\ \A t \in Tabs : conn[t] = None => conn'[t] = None
    <2>1. CASE \E t \in Tabs : Drop(t)
      BY <2>1 DEF Drop, hubVars, fileVars, Tidy, RestOK
    <2>2. CASE UNCHANGED vars \/ Lease \/ Unlease
      BY <2>2 DEF vars, Lease, Unlease, hubVars, fileVars, tabVars
    <2>3. CASE HubShutdown \/ WatcherShutdown \/ \E t \in Tabs, s \in Streams : ConnectClosed(t, s)
      BY <2>3 DEF HubShutdown, WatcherShutdown, ConnectClosed
    <2> QED BY <2>1, <2>2, <2>3
  <1>2. CASE stage' # "open"
    BY <1>2 DEF ForeignInv
  <1>3. CASE /\ UNCHANGED <<stage, inc, cursors, stream, ino, replaced, pos>>
             /\ \A t \in Tabs : conn[t] = None => conn'[t] = None
    <2>1. \A n : Past(n) => Past(n)'
      BY <1>3 DEF Past, Coming
    <2>2. Unvisited => Unvisited'
      BY <1>3 DEF Unvisited
    <2> QED BY <1>3, <2>1, <2>2 DEF ForeignInv, Unanchored, OldIsPast
  <1> QED BY <1>1, <1>2, <1>3


\* A behaviour keeps its scenario.
LEMMA PlanKept == ASSUME [Next]_vars PROVE plan' = plan
  <1>1. CASE UNCHANGED vars
    BY <1>1 DEF vars
  <1>2. CASE \E t \in Tabs, s \in Streams : \/ \E probe \in Probes : Connect(t, s, probe)
                                            \/ ConnectClosed(t, s)
    <2>1. ASSUME NEW t, NEW s, NEW probe, Connect(t, s, probe)
          PROVE  plan' = plan
      BY <2>1 DEF Connect
    <2>2. ASSUME NEW t, NEW s, ConnectClosed(t, s)
          PROVE  plan' = plan
      BY <2>2 DEF ConnectClosed
    <2> QED BY <1>2, <2>1, <2>2
  <1>3. CASE \E t \in Tabs : Drop(t)
    BY <1>3 DEF Drop
  <1>4. CASE \E s \in Streams : WriteCursor(s) \/ WriteFrame(s) \/ Finish(s) \/ Evict(s)
    BY <1>4 DEF WriteCursor, WriteFrame, Finish, Evict
  <1>5. CASE DropSubscribers \/ Relay \/ BroadcastSaved \/ \E probe \in Probes : PublishExternal(probe)
    BY <1>5 DEF DropSubscribers, Relay, BroadcastSaved, PublishExternal, Publish
  <1>6. CASE \/ \E i \in Inos : ExtReplace(i) \/ ExtCreate(i)
             \/ \E i \in Inos, probe \in Inos \cup {None} : ServerReplace(i, probe)
             \/ ExtDelete \/ MarkAbsent
             \/ \E l \in Lanes : Forget(l)
    BY <1>6 DEF ExtReplace, ExtCreate, ServerReplace, ExtDelete, MarkAbsent, Forget
  <1>7. CASE Expire \/ DropInactive \/ Lease \/ Unlease \/ HubShutdown \/ WatcherShutdown \/ Restart
    BY <1>7 DEF Expire, DropInactive, Lease, Unlease, HubShutdown, WatcherShutdown, Restart
  <1> QED BY <1>1, <1>2, <1>3, <1>4, <1>5, <1>6, <1>7 DEF Next

\* Every step keeps ForeignInv, and a step that opens a connection replays nothing foreign.
LEMMA NextForeign ==
    ASSUME HubAssumption, Tidy, ForeignInv, Remembers, [Next]_vars
    PROVE  /\ ForeignInv'
           /\ \A s \in Streams :
                 stream[s].st = "free" /\ stream'[s].st = "open" =>
                     \A n \in Elems(stream'[s].out) : n > replaced
  <1> DEFINE Replays(s) == stream[s].st = "free" /\ stream'[s].st = "open" =>
                              \A n \in Elems(stream'[s].out) : n > replaced
  <1>1. ASSUME NEW t \in Tabs, NEW s \in Streams, NEW probe \in Probes, Connect(t, s, probe)
        PROVE  ForeignInv' /\ \A q \in Streams : Replays(q)
    <2>1. /\ ForeignInv'
          /\ \A n \in Elems(stream'[s].out) : n > replaced
          /\ \A q \in Streams : q # s => stream'[q] = stream[q]
      BY <1>1, ConnectForeign
    <2> QED BY <2>1
  <1>2. ASSUME NEW t \in Tabs, NEW s \in Streams, ConnectClosed(t, s)
        PROVE  ForeignInv' /\ \A q \in Streams : Replays(q)
    <2> DEFINE x == [Opened(t, [base |-> seq, resync |-> FALSE], <<>>) EXCEPT !.stopped = TRUE]
    <2>1. stream' = [stream EXCEPT ![s] = x]
      BY <1>2 DEF ConnectClosed, Refuse
    <2>2. x.out = <<>>
      BY DEF Opened, FreeStream
    <2> HIDE DEF x
    <2>3. Elems(stream'[s].out) = {} /\ \A q \in Streams : q # s => stream'[q] = stream[q]
      BY <2>1, <2>2, EmptyLine DEF Tidy, BooksInv, StreamsInv
    <2>4. ForeignInv'
      BY <1>2, RestForeign
    <2> QED BY <2>3, <2>4
  <1>3. ASSUME NEW s \in Streams, WriteCursor(s)
        PROVE  ForeignInv' /\ \A q \in Streams : Replays(q)
    <2>1. stream[s].st = "open" /\ \A q \in Streams : q # s => stream'[q] = stream[q]
      BY <1>3 DEF WriteCursor, Tidy, BooksInv, StreamsInv
    <2> QED BY <1>3, <2>1, CursorForeign
  <1>4. ASSUME NEW s \in Streams, WriteFrame(s)
        PROVE  ForeignInv' /\ \A q \in Streams : Replays(q)
    <2>1. stream[s].st = "open" /\ \A q \in Streams : q # s => stream'[q] = stream[q]
      BY <1>4 DEF WriteFrame, Tidy, BooksInv, StreamsInv
    <2> QED BY <1>4, <2>1, FrameForeign
  <1>5. CASE DropSubscribers \/ HubShutdown \/ \E s \in Streams : Finish(s) \/ Evict(s)
    <2>1. \A s \in Streams : Replays(s)
      BY <1>5, EndFacts
    <2>2. ForeignInv'
      BY <1>5, EndForeign, RestForeign DEF ForeignInv
    <2> QED BY <2>1, <2>2
  <1>6. CASE Relay \/ BroadcastSaved \/ \E probe \in Probes : PublishExternal(probe)
    <2>1. \/ \E l \in Lanes, big \in Sizes : Publish(l, big)
          \/ \E probe \in Probes : PublishExternal(probe)
      BY <1>6 DEF Relay, BroadcastSaved, Lanes
    <2>2. \E new, base : PublishedAs(new, base)
      BY <2>1, PublishFacts, ExternalFacts
    <2>3. \A s \in Streams : stream'[s].st = stream[s].st
      BY <2>2 DEF PublishedAs
    <2> QED BY <2>1, <2>3, PublishForeign
  <1>7. CASE \/ \E i \in Inos : ExtReplace(i) \/ ExtCreate(i)
             \/ \E i \in Inos, probe \in Inos \cup {None} : ServerReplace(i, probe)
             \/ ExtDelete \/ MarkAbsent
             \/ \E l \in Lanes : Forget(l)
    <2>1. stream' = stream
      BY <1>7 DEF ExtReplace, ExtCreate, ServerReplace, ExtDelete, MarkAbsent, Forget
    <2> QED BY <1>7, <2>1, FileForeign
  <1>8. CASE UNCHANGED vars \/ Lease \/ Unlease \/ WatcherShutdown \/ \E t \in Tabs : Drop(t)
    <2>1. stream' = stream
      BY <1>8 DEF vars, Lease, Unlease, WatcherShutdown, Drop
    <2> QED BY <1>8, <2>1, RestForeign
  <1>9. ~Expire /\ ~DropInactive /\ ~Restart
    BY DEF Expire, DropInactive, Restart, Remembers
  <1> QED BY <1>1, <1>2, <1>3, <1>4, <1>5, <1>6, <1>7, <1>8, <1>9 DEF Next

\* No frame of the file that was at the path before another program replaced it is
\* replayed to a page opened on the new one, for any number of tabs, connections and
\* replacements, by other programs or by the server, and whatever else happens except
\* a hub that forgets the whole record of the path (add, observeIdentityLocked).
THEOREM ForeignNeverReplayed ==
    ASSUME HubAssumption PROVE Spec => (Remembers => NoForeignReplay)
  <1> DEFINE Replays == \A s \in Streams :
                           stream[s].st = "free" /\ stream'[s].st = "open" =>
                               \A n \in Elems(stream'[s].out) : n > replaced
  <1>1. Init => ForeignInv
    BY DEF Init, ForeignInv, Unanchored, OldIsPast, Unvisited, NoCursors, FreeStream
  <1>2. Remembers /\ [Next]_vars => Remembers'
    BY PlanKept DEF Remembers, Happens
  <1>3. Tidy /\ Remembers /\ ForeignInv /\ [Next]_vars => ForeignInv' /\ [Replays]_vars
    BY NextForeign
  <1> HIDE DEF Replays
  <1>4. Spec /\ Remembers => [][Replays]_vars
    BY <1>1, <1>2, <1>3, TidyKept, PTL DEF Spec
  <1> QED BY <1>4 DEF NoForeignReplay, Replays


-----------------------------------------------------------------------------
(* No silent gap, and the feed it makes.                                   *)

Quietly == Happens \cap {"forget", "big"} = {}

\* The path keeps its file and the hub its record of it. A shared stream has no cursor,
\* so there the buckets must hold all that was published.
Steady == /\ Happens \cap {"absent", "expire", "restart", "replace", "unreadable"} = {}
          /\ SharedTabs = {} \/ Quietly

\* The record is for the file that is there.
AnchorKnown == ino # None /\ (inc # None => inc.anchor \in {None, ino})

\* What the server knows of t's place is never ahead of what t has.
Placed(t) ==
    /\ pos[t] <= seen[t]
    /\ t \in SharedTabs => cursors[t] = None /\ (seen[t] > 0 => pos[t] > 0)
    /\ t \notin SharedTabs => /\ seen[t] > 0 <=> cursors[t] # None
                              /\ cursors[t] # None => cursors[t].base <= seen[t]
                              /\ conn[t] # None => seen[t] > 0
    /\ \A s \in Streams : conn[t] = s /\ seen[t] > 0 /\ stream[s].cursor # None =>
          stream[s].cursor.base <= seen[t]

\* What a tab with a cursor lacks can be replayed or is known to be lost, and so is
\* everything when nothing is ever lost.
CursorCovers(t) == inc # None /\ \A n \in Missed(t) : Keeps(inc[LaneOf[t]], n)

AllKept ==
    \A l \in Lanes : /\ \A n \in log[l] : inc # None /\ Keeps(inc[l], n)
                     /\ inc # None /\ inc[l].frames = <<>> => inc[l].dropped = 0

Covered ==
    /\ \A t \in Tabs \ SharedTabs : seen[t] > 0 => CursorCovers(t)
    /\ Quietly => AllKept

OnlyLogged == inc # None => \A l \in Lanes : Elems(inc[l].frames) \subseteq log[l]

\* Where t will stand when the cursor frame is out.
Floor(t, s) == IF seen[t] > 0 THEN seen[t] ELSE stream[s].cursor.base

\* n is on its way to t, or lost with the connection behind all that still is.
OnItsWay(s, n) == n \in Coming(s) \/ (~stream[s].sub /\ \A m \in Coming(s) : m < n)

NotToldAway(s) == stream[s].cursor # None => ~stream[s].cursor.resync

Serving(t, s) ==
    /\ stream[s].st = "open" /\ stream[s].tab = t
    /\ stream[s].cursor = None => seen[t] > 0
    /\ Coming(s) \subseteq log[LaneOf[t]]
    /\ NotToldAway(s) => \A n \in log[LaneOf[t]] : n > Floor(t, s) => OnItsWay(s, n)

Served == \A t \in Tabs, s \in Streams : conn[t] = s => Serving(t, s)

GapInv == /\ AnchorKnown /\ OnlyLogged /\ Served
          /\ stage = "open" => Covered /\ \A t \in Tabs : Placed(t)

\* A connection that gains nothing to write, loses nothing but its membership.
LEMMA ServingStays ==
    ASSUME NEW t, NEW s, Serving(t, s), log' = log, seen'[t] = seen[t],
           stream'[s].st = "open", stream'[s].tab = stream[s].tab,
           stream'[s].cursor = stream[s].cursor, Coming(s)' = Coming(s),
           stream'[s].sub => stream[s].sub
    PROVE  Serving(t, s)'
  <1>1. Floor(t, s)' = Floor(t, s) /\ NotToldAway(s)' = NotToldAway(s)
    BY DEF Floor, NotToldAway
  <1>2. \A n : OnItsWay(s, n) => OnItsWay(s, n)'
    BY DEF OnItsWay
  <1> QED BY <1>1, <1>2 DEF Serving

\* A tab's place while its connection keeps its cursor frame.
LEMMA PlacedStays ==
    ASSUME HubAssumption, NEW t \in Tabs, Placed(t), plan' = plan, pos'[t] = pos[t], seen'[t] = seen[t],
           cursors'[t] = None <=> cursors[t] = None,
           cursors[t] # None => cursors'[t].base = cursors[t].base,
           conn'[t] \in {None, conn[t]},
           \A s \in Streams : conn'[t] = s => stream'[s].cursor \in {None, stream[s].cursor}
    PROVE  Placed(t)'
  <1>1. SharedTabs' = SharedTabs
    BY DEF SharedTabs
  <1>2. t \notin SharedTabs /\ conn'[t] # None => seen'[t] > 0
    BY DEF Placed
  <1>3. ASSUME NEW s \in Streams, conn'[t] = s, seen'[t] > 0, stream'[s].cursor # None
        PROVE  stream'[s].cursor.base <= seen'[t]
    BY <1>3 DEF Placed, HubAssumption
  <1> QED BY <1>1, <1>2, <1>3 DEF Placed

\* What is covered stays so while nothing is published and the record keeps what it kept.
LEMMA CoveredStays ==
    ASSUME Covered, plan' = plan, log' = log, seen' = seen,
           inc # None => /\ inc' # None
                         /\ \A l \in Lanes : \A n \in log[l] : Keeps(inc[l], n) => Keeps(inc'[l], n),
           Quietly => inc' = inc
    PROVE  Covered'
  <1>1. ASSUME NEW t \in Tabs \ SharedTabs, seen[t] > 0
        PROVE  CursorCovers(t)'
    <2>1. LaneOf[t] \in Lanes
      BY DEF LaneOf, Lanes
    <2>2. CursorCovers(t)
      BY <1>1 DEF Covered
    <2> QED BY <2>1, <2>2 DEF CursorCovers, Missed
  <1>2. Quietly' = Quietly /\ SharedTabs' = SharedTabs
    BY DEF Quietly, Happens, SharedTabs
  <1>3. Quietly => AllKept'
    BY DEF Covered, AllKept
  <1> QED BY <1>1, <1>2, <1>3 DEF Covered

\* Every tab has a lane.
LEMMA TabLane == \A t \in Tabs : LaneOf[t] \in Lanes
  BY DEF LaneOf, Lanes



\* The end of a connection keeps GapInv: the tab is no longer connected to it.
LEMMA EndGap ==
    ASSUME HubAssumption, Tidy, GapInv,
           \/ \E s \in Streams : Finish(s) \/ Evict(s)
           \/ DropSubscribers \/ HubShutdown
    PROVE  GapInv'
  <1>1. /\ UNCHANGED <<plan, seq, ino, pos, seen, log>>
        /\ inc' = inc \/ (inc' = None /\ stage' # "open")
        /\ stage' = "open" => stage = "open"
        /\ \A t \in Tabs : conn'[t] \in {None, conn[t]}
    BY DEF Finish, Evict, DropSubscribers, HubShutdown, fileVars, hubVars, tabVars, Tidy, RestOK
  <1>2. stage' = "open" =>
           \A t \in Tabs : /\ cursors'[t] = None <=> cursors[t] = None
                           /\ cursors[t] # None => cursors'[t].base = cursors[t].base
    <2>1. stage' = "open" => cursors' = cursors \/ \E q \in Streams : Remove(q)
      BY DEF Finish, Evict, DropSubscribers, HubShutdown, hubVars
    <2>2. CASE cursors' = cursors
      BY <2>2
    <2>3. CASE \E q \in Streams : Remove(q)
      BY <2>3, RemoveFacts
    <2> QED BY <2>1, <2>2, <2>3
  <1>3. ASSUME NEW t \in Tabs, NEW s \in Streams, conn'[t] = s
        PROVE  /\ Serving(t, s)
               /\ stream'[s].st = "open" /\ stream'[s].tab = stream[s].tab
               /\ stream'[s].cursor = stream[s].cursor /\ Coming(s)' = Coming(s)
               /\ stream'[s].sub => stream[s].sub
    <2>1. conn[t] = s /\ Serving(t, s)
      BY <1>1, <1>3 DEF GapInv, Served, HubAssumption
    <2>2. stream[s].st = "open" /\ stream[s].tab = t
      BY <2>1 DEF Serving
    <2>3. \/ stream'[s].st = "free" /\ (stream[s].st = "open" => Over(s))
          \/ /\ stream'[s].st = stream[s].st \/ (stream'[s].st = "gone" /\ Over(s))
             /\ stream'[s].tab = stream[s].tab
             /\ stream'[s].cursor = stream[s].cursor /\ Coming(s)' = Coming(s)
             /\ stream'[s].sub => stream[s].sub
      BY <2>1, EndFacts
    <2>4. stream'[s].st = "open"
      <3>1. ASSUME NEW q \in Streams, Finish(q)
            PROVE  stream'[s] = stream[s]
        <4>1. q # s
          BY <1>3, <2>1, <2>2, <3>1 DEF Finish, Tidy, RestOK
        <4> QED BY <3>1, <4>1 DEF Finish, Tidy, BooksInv, StreamsInv
      <3>2. ASSUME NEW q \in Streams, Evict(q)
            PROVE  stream'[s].st = "open"
        <4>1. CASE q # s
          BY <2>2, <3>2, <4>1 DEF Evict, Tidy, BooksInv, StreamsInv
        <4>2. CASE q = s
          <5> DEFINE y == [Removed(stream[s]) EXCEPT !.evicting = FALSE]
          <5>1. stream' = [stream EXCEPT ![s] = y]
            BY <2>2, <3>2, <4>2 DEF Evict
          <5>2. Shaped(stream[s])
            BY <2>1, StreamFields DEF Tidy
          <5>3. y.st = stream[s].st
            BY <5>2 DEF Removed, Shaped, Fields
          <5> HIDE DEF y
          <5> QED BY <2>1, <2>2, <5>1, <5>3 DEF Tidy, BooksInv, StreamsInv
        <4> QED BY <4>1, <4>2
      <3>3. ASSUME DropSubscribers \/ HubShutdown
            PROVE  stream'[s].st = "open"
        <4>1. Shaped(stream[s])
          BY <2>1, StreamFields DEF Tidy
        <4>2. CASE DropSubscribers
          <5>1. stream'[s] = [stream[s] EXCEPT !.stopped = stream[s].stopped \/ stream[s].sub]
            BY <2>1, <4>2 DEF DropSubscribers
          <5> QED BY <2>2, <4>1, <5>1 DEF Shaped, Fields
        <4>3. CASE HubShutdown
          <5>1. stream'[s] = [stream[s] EXCEPT !.stopped = stream[s].stopped \/ stream[s].sub,
                                               !.sub = FALSE]
            BY <2>1, <4>3 DEF HubShutdown
          <5> QED BY <2>2, <4>1, <5>1 DEF Shaped, Fields
        <4> QED BY <3>3, <4>2, <4>3
      <3> QED BY <2>2, <3>1, <3>2, <3>3
    <2> QED BY <2>1, <2>3, <2>4
  <1>4. Served'
    <2> SUFFICES ASSUME NEW t \in Tabs, NEW s \in Streams, conn'[t] = s PROVE Serving(t, s)'
      BY DEF Served
    <2> QED BY <1>1, <1>3, ServingStays
  <1>5. AnchorKnown' /\ OnlyLogged'
    BY <1>1 DEF GapInv, AnchorKnown, OnlyLogged
  <1>6. stage' = "open" => Covered'
    BY <1>1, CoveredStays DEF GapInv
  <1>7. ASSUME stage' = "open", NEW t \in Tabs
        PROVE  Placed(t)'
    <2>1. Placed(t) /\ conn'[t] \in {None, conn[t]}
      BY <1>1, <1>7 DEF GapInv
    <2>2. \A s \in Streams : conn'[t] = s => stream'[s].cursor \in {None, stream[s].cursor}
      BY <1>3
    <2> QED BY <1>1, <1>2, <1>7, <2>1, <2>2, PlacedStays
  <1> QED BY <1>4, <1>5, <1>6, <1>7 DEF GapInv

\* A bucket that loses its oldest frame marks it as lost.
LEMMA ForgetGap ==
    ASSUME HubAssumption, Tidy, GapInv, NEW l \in Lanes, Forget(l)
    PROVE  GapInv'
  <1>1. /\ inc # None /\ inc' # None /\ inc'.anchor = inc.anchor
        /\ \A k \in Lanes : /\ Elems(inc'[k].frames) \subseteq Elems(inc[k].frames)
                            /\ \A n \in Nat : Keeps(inc[k], n) => Keeps(inc'[k], n)
        /\ "forget" \in Happens
        /\ UNCHANGED <<plan, seq, stage, cursors, stream, ino, replaced, conn, pos, seen, log>>
    BY ForgetFacts
  <1>2. \A k \in Lanes : log[k] \subseteq Nat
    BY Bounds DEF Tidy, LogOK
  <1>3. Covered => Covered'
    <2>1. ~Quietly
      BY <1>1 DEF Quietly
    <2> QED BY <1>1, <1>2, <2>1, CoveredStays
  <1>4. Served'
    <2> SUFFICES ASSUME NEW t \in Tabs, NEW s \in Streams, conn'[t] = s PROVE Serving(t, s)'
      BY DEF Served
    <2>1. Serving(t, s) /\ Coming(s)' = Coming(s)
      BY <1>1 DEF GapInv, Served, Coming, HubAssumption
    <2>2. stream[s].st = "open"
      BY <2>1 DEF Serving
    <2> QED BY <1>1, <2>1, <2>2, ServingStays
  <1>5. \A t \in Tabs : Placed(t) => Placed(t)'
    BY <1>1, PlacedStays
  <1>6. AnchorKnown' /\ OnlyLogged'
    BY <1>1 DEF GapInv, AnchorKnown, OnlyLogged
  <1> QED BY <1>1, <1>3, <1>4, <1>5, <1>6 DEF GapInv

\* A broken connection, leases and the watcher's shutdown keep GapInv.
LEMMA RestGap ==
    ASSUME HubAssumption, Tidy, GapInv,
           \/ UNCHANGED vars
           \/ \E t \in Tabs : Drop(t)
           \/ Lease \/ Unlease \/ WatcherShutdown
    PROVE  GapInv'
  <1>1. /\ UNCHANGED <<plan, seq, inc, cursors, stream, ino, pos, seen, log>>
        /\ \A t \in Tabs : conn'[t] \in {None, conn[t]}
        /\ stage' = "open" => stage = "open"
    BY DEF vars, Drop, Lease, Unlease, WatcherShutdown, hubVars, fileVars, tabVars, Tidy, RestOK
  <1>2. Served'
    <2> SUFFICES ASSUME NEW t \in Tabs, NEW s \in Streams, conn'[t] = s PROVE Serving(t, s)'
      BY DEF Served
    <2>1. Serving(t, s) /\ Coming(s)' = Coming(s)
      BY <1>1 DEF GapInv, Served, Coming, HubAssumption
    <2>2. stream[s].st = "open"
      BY <2>1 DEF Serving
    <2> QED BY <1>1, <2>1, <2>2, ServingStays
  <1>3. \A t \in Tabs : Placed(t) => Placed(t)'
    BY <1>1, PlacedStays
  <1>4. Covered => Covered'
    BY <1>1, CoveredStays
  <1> QED BY <1>1, <1>2, <1>3, <1>4 DEF GapInv, AnchorKnown, OnlyLogged

\* A connection refused by a closed hub is owed nothing.
LEMMA ClosedGap ==
    ASSUME HubAssumption, Tidy, GapInv, NEW t \in Tabs, NEW s \in Streams, ConnectClosed(t, s)
    PROVE  GapInv'
  <1> DEFINE c == [base |-> seq, resync |-> FALSE]
             x == [Opened(t, c, <<>>) EXCEPT !.stopped = TRUE]
  <1>1. /\ stage # "open" /\ stream[s].st = "free" /\ stream' = [stream EXCEPT ![s] = x]
        /\ inc' \in {inc, None} /\ conn' = [conn EXCEPT ![t] = s]
        /\ UNCHANGED <<plan, seq, stage, ino, pos, seen, log>>
    BY DEF ConnectClosed, Refuse, fileVars, Swept
  <1>2. c # None
    <2>1. seq \in Nat
      BY Bounds DEF Tidy
    <2>2. c \in [base : Nat, resync : BOOLEAN]
      BY <2>1
    <2> QED BY <2>2 DEF HubAssumption
  <1> HIDE DEF c
  <1>3. x.st = "open" /\ x.tab = t /\ ~x.sub /\ x.cursor = c /\ x.out = <<>> /\ x.queue = <<>>
    BY DEF Opened, FreeStream
  <1> HIDE DEF x
  <1>4. stream'[s] = x /\ \A q \in Streams : q # s => stream'[q] = stream[q]
    BY <1>1 DEF Tidy, BooksInv, StreamsInv
  <1>5. Serving(t, s)'
    <2>1. Coming(s)' = {}
      BY <1>3, <1>4, EmptyLine DEF Coming
    <2> QED BY <1>2, <1>3, <1>4, <2>1 DEF Serving, OnItsWay
  <1>6. ASSUME NEW u \in Tabs, NEW q \in Streams, u # t, conn'[u] = q
        PROVE  Serving(u, q)'
    <2>1. Serving(u, q)
      BY <1>1, <1>6 DEF GapInv, Served, Tidy, RestOK
    <2>2. q # s /\ stream[q].st = "open"
      BY <1>1, <2>1 DEF Serving
    <2>3. stream'[q] = stream[q]
      BY <1>4, <2>2
    <2>4. Coming(q)' = Coming(q)
      BY <2>3 DEF Coming
    <2> QED BY <1>1, <2>1, <2>2, <2>3, <2>4, ServingStays
  <1>7. Served'
    <2> SUFFICES ASSUME NEW u \in Tabs, NEW q \in Streams, conn'[u] = q PROVE Serving(u, q)'
      BY DEF Served
    <2>1. u = t => q = s
      BY <1>1 DEF Tidy, RestOK
    <2> QED BY <1>5, <1>6, <2>1
  <1>8. AnchorKnown' /\ OnlyLogged'
    BY <1>1 DEF GapInv, AnchorKnown, OnlyLogged
  <1> QED BY <1>1, <1>7, <1>8 DEF GapInv



\* The cursor frame starts a tab at a point from which all is on its way.
LEMMA CursorGap ==
    ASSUME HubAssumption, Tidy, GapInv, NEW s \in Streams, WriteCursor(s)
    PROVE  GapInv'
  <1> DEFINE c == stream[s].cursor
  <1>1. PICK t \in Tabs : t = stream[s].tab
    BY CursorFacts
  <1>2. /\ c # None /\ c \in [base : 1 .. seq, resync : BOOLEAN] /\ stream[s].st = "open"
        /\ stream' = [stream EXCEPT ![s] = stream'[s]]
        /\ stream'[s].st = "open" /\ stream'[s].tab = t /\ stream'[s].cursor = None
        /\ stream'[s].sub = stream[s].sub
        /\ Coming(s)' = Coming(s)
        /\ IF conn[t] = s
           THEN /\ pos' = [pos EXCEPT ![t] = c.base]
                /\ seen' = [seen EXCEPT ![t] = IF c.resync THEN seq
                                               ELSE IF @ = 0 THEN c.base ELSE @]
           ELSE UNCHANGED <<pos, seen>>
        /\ UNCHANGED <<plan, seq, stage, inc, cursors, ino, replaced, conn, log>>
    BY <1>1, CursorFacts DEF SameFlags
  <1> HIDE DEF c
  <1>3. \A q \in Streams : q # s => stream'[q] = stream[q] /\ Coming(q)' = Coming(q)
    <2>1. \A q \in Streams : q # s => stream'[q] = stream[q]
      BY <1>2 DEF Tidy, BooksInv, StreamsInv
    <2> QED BY <2>1 DEF Coming
  <1>4. /\ seq \in Nat /\ seq >= 1 /\ c.base \in 1 .. seq /\ c.resync \in BOOLEAN
        /\ pos \in [Tabs -> 0 .. seq] /\ seen \in [Tabs -> 0 .. seq]
        /\ \A l \in Lanes : log[l] \subseteq 1 .. seq
    BY <1>2, Bounds DEF Tidy, PlacesOK, LogOK
  <1>5. \A u \in Tabs : u # t \/ conn[t] # s => pos'[u] = pos[u] /\ seen'[u] = seen[u]
    BY <1>2, <1>4
  <1>6. conn[t] = s => /\ pos'[t] = c.base
                       /\ seen'[t] = IF c.resync THEN seq
                                     ELSE IF seen[t] = 0 THEN c.base ELSE seen[t]
    BY <1>2, <1>4
  <1>7. \A u \in Tabs : seen[u] <= seen'[u] /\ seen'[u] \in 0 .. seq
    <2> SUFFICES ASSUME NEW u \in Tabs PROVE seen[u] <= seen'[u] /\ seen'[u] \in 0 .. seq
      OBVIOUS
    <2>1. CASE u = t /\ conn[t] = s
      BY <1>4, <1>6, <2>1
    <2>2. CASE u # t \/ conn[t] # s
      BY <1>4, <1>5, <2>2
    <2> QED BY <2>1, <2>2
  <1>8. Served'
    <2> SUFFICES ASSUME NEW u \in Tabs, NEW q \in Streams, conn'[u] = q PROVE Serving(u, q)'
      BY DEF Served
    <2>1. conn[u] = q /\ Serving(u, q) /\ stream[q].tab = u /\ stream[q].st = "open"
      BY <1>2 DEF GapInv, Served, Serving
    <2>2. CASE q # s
      <3>1. u # t \/ conn[t] # s
        BY <2>1, <2>2
      <3>2. stream'[q] = stream[q] /\ Coming(q)' = Coming(q) /\ seen'[u] = seen[u] /\ log' = log
        BY <1>2, <1>3, <1>5, <2>2, <3>1
      <3> QED BY <2>1, <3>2, ServingStays
    <2>3. CASE q = s
      <3>1. u = t /\ conn[t] = s
        BY <1>1, <2>1, <2>3
      <3>2. seen'[t] > 0
        BY <1>4, <1>6, <3>1
      <3>3. \A n \in log[LaneOf[t]] : n > seen'[t] => OnItsWay(s, n)'
        <4> SUFFICES ASSUME NEW n \in log[LaneOf[t]], n > seen'[t] PROVE OnItsWay(s, n)'
          OBVIOUS
        <4>1. n \in 1 .. seq
          BY <1>4, TabLane
        <4>2. ~c.resync
          BY <1>4, <1>6, <3>1, <4>1
        <4>3. Floor(t, s) = seen'[t] /\ NotToldAway(s)
          BY <1>4, <1>6, <3>1, <4>2 DEF Floor, NotToldAway, c
        <4>4. OnItsWay(s, n)
          BY <2>1, <2>3, <3>1, <4>3 DEF Serving
        <4> QED BY <1>2, <4>4 DEF OnItsWay
      <3>4. Coming(s)' \subseteq log'[LaneOf[t]]
        BY <1>2, <2>1, <2>3, <3>1 DEF Serving
      <3>5. Floor(t, s)' = seen'[t]
        BY <3>2 DEF Floor
      <3> QED BY <1>2, <2>3, <3>1, <3>2, <3>3, <3>4, <3>5 DEF Serving
    <2> QED BY <2>2, <2>3
  <1>9. ASSUME stage = "open", NEW u \in Tabs
        PROVE  Placed(u)'
    <2>1. Placed(u)
      BY <1>9 DEF GapInv
    <2>2. CASE u # t \/ conn[t] # s
      <3>1. \A q \in Streams : conn'[u] = q => stream'[q].cursor \in {None, stream[q].cursor}
        BY <1>2, <1>3, <2>2
      <3> QED BY <1>2, <1>5, <2>1, <2>2, <3>1, PlacedStays
    <2>3. CASE u = t /\ conn[t] = s
      <3>1. pos'[t] <= seen'[t] /\ seen'[t] > 0 /\ pos'[t] > 0
        <4>1. seen[t] > 0 => c.base <= seen[t]
          BY <1>2, <2>1, <2>3 DEF Placed, c
        <4> QED BY <1>4, <1>6, <2>3, <4>1
      <3>2. \A q \in Streams : conn'[t] = q => stream'[q].cursor = None
        BY <1>2, <2>3
      <3>3. t \notin SharedTabs => cursors[t] # None /\ cursors[t].base <= seen'[t]
        <4>1. t \notin SharedTabs => seen[t] > 0 /\ cursors[t] # None /\ cursors[t].base <= seen[t]
          BY <2>1, <2>3, <1>2 DEF Placed, HubAssumption
        <4>2. t \notin SharedTabs => cursors[t].base \in Nat
          BY <4>1 DEF Tidy, CursorsOK, CursorType
        <4> QED BY <1>4, <1>7, <4>1, <4>2
      <3>4. t \in SharedTabs => cursors[t] = None
        BY <2>1, <2>3 DEF Placed
      <3> QED BY <1>2, <2>3, <3>1, <3>2, <3>3, <3>4 DEF Placed, SharedTabs
    <2> QED BY <2>2, <2>3
  <1>10. Covered => (stage = "open" => Covered')
    <2> SUFFICES ASSUME Covered, stage = "open" PROVE Covered'
      OBVIOUS
    <2>1. ASSUME NEW u \in Tabs \ SharedTabs, seen'[u] > 0
          PROVE  CursorCovers(u)'
      <3>1. seen[u] > 0
        <4>1. u # t \/ conn[t] # s => seen'[u] = seen[u]
          BY <1>5
        <4>2. u = t /\ conn[t] = s => seen[u] > 0
          BY <1>9, <2>1 DEF GapInv, Placed, HubAssumption
        <4> QED BY <2>1, <4>1, <4>2
      <3>2. CursorCovers(u)
        BY <3>1 DEF Covered
      <3>3. Missed(u)' \subseteq Missed(u)
        <4> SUFFICES ASSUME NEW n \in log[LaneOf[u]], n > seen'[u] PROVE n > seen[u]
          BY <1>2 DEF Missed
        <4>1. n \in Nat
          BY <1>4, TabLane
        <4> QED BY <1>4, <1>7, <4>1
      <3> QED BY <1>2, <3>2, <3>3 DEF CursorCovers
    <2>2. Quietly' = Quietly /\ SharedTabs' = SharedTabs
      BY <1>2 DEF Quietly, Happens, SharedTabs
    <2>3. AllKept => AllKept'
      BY <1>2 DEF AllKept
    <2> QED BY <2>1, <2>2, <2>3 DEF Covered
  <1>11. AnchorKnown' /\ OnlyLogged'
    BY <1>2 DEF GapInv, AnchorKnown, OnlyLogged
  <1> QED BY <1>2, <1>8, <1>9, <1>10, <1>11 DEF GapInv



\* The next frame is the lowest on its way, so what stays behind is above it.
LEMMA FrameGap ==
    ASSUME HubAssumption, Tidy, GapInv, NEW s \in Streams, WriteFrame(s)
    PROVE  GapInv'
  <1>1. PICK t \in Tabs : t = stream[s].tab
    BY FrameFacts
  <1>2. /\ stream[s].cursor = None /\ stream[s].st = "open"
        /\ stream' = [stream EXCEPT ![s] = stream'[s]]
        /\ stream'[s].st = "open" /\ stream'[s].tab = t /\ stream'[s].cursor = None
        /\ stream'[s].sub = stream[s].sub
        /\ UNCHANGED <<plan, seq, stage, inc, cursors, ino, replaced, conn, log>>
    BY <1>1, FrameFacts DEF SameFlags
  <1>c. PICK c \in Coming(s) :
          /\ c \in 1 .. seq
          /\ \A m \in Coming(s) : c <= m
          /\ Coming(s)' = Coming(s) \ {c}
          /\ IF conn[t] = s
             THEN pos' = [pos EXCEPT ![t] = c] /\ seen' = [seen EXCEPT ![t] = Higher(@, c)]
             ELSE UNCHANGED <<pos, seen>>
    BY <1>1, FrameFacts
  <1>3. \A q \in Streams : q # s => stream'[q] = stream[q] /\ Coming(q)' = Coming(q)
    <2>1. \A q \in Streams : q # s => stream'[q] = stream[q]
      BY <1>2 DEF Tidy, BooksInv, StreamsInv
    <2> QED BY <2>1 DEF Coming
  <1>4. /\ seq \in Nat /\ seq >= 1
        /\ pos \in [Tabs -> 0 .. seq] /\ seen \in [Tabs -> 0 .. seq]
        /\ \A l \in Lanes : log[l] \subseteq 1 .. seq
    BY Bounds DEF Tidy, PlacesOK, LogOK
  <1>5. \A u \in Tabs : u # t \/ conn[t] # s => pos'[u] = pos[u] /\ seen'[u] = seen[u]
    BY <1>c, <1>4
  <1>6. conn[t] = s => pos'[t] = c /\ seen'[t] = IF seen[t] > c THEN seen[t] ELSE c
    BY <1>c, <1>4 DEF Higher
  <1>7. \A u \in Tabs : seen[u] <= seen'[u] /\ seen'[u] \in 0 .. seq
    <2> SUFFICES ASSUME NEW u \in Tabs PROVE seen[u] <= seen'[u] /\ seen'[u] \in 0 .. seq
      OBVIOUS
    <2>1. CASE u = t /\ conn[t] = s
      BY <1>c, <1>4, <1>6, <2>1
    <2>2. CASE u # t \/ conn[t] # s
      BY <1>4, <1>5, <2>2
    <2> QED BY <2>1, <2>2
  <1>8. Served'
    <2> SUFFICES ASSUME NEW u \in Tabs, NEW q \in Streams, conn'[u] = q PROVE Serving(u, q)'
      BY DEF Served
    <2>1. conn[u] = q /\ Serving(u, q) /\ stream[q].tab = u /\ stream[q].st = "open"
      BY <1>2 DEF GapInv, Served, Serving
    <2>2. CASE q # s
      <3>1. u # t \/ conn[t] # s
        BY <2>1, <2>2
      <3>2. stream'[q] = stream[q] /\ Coming(q)' = Coming(q) /\ seen'[u] = seen[u] /\ log' = log
        BY <1>2, <1>3, <1>5, <2>2, <3>1
      <3> QED BY <2>1, <3>2, ServingStays
    <2>3. CASE q = s
      <3>1. u = t /\ conn[t] = s
        BY <1>1, <2>1, <2>3
      <3>2. seen'[t] > 0
        BY <1>c, <1>4, <1>6, <3>1
      <3>3. \A n \in log[LaneOf[t]] : n > seen'[t] => OnItsWay(s, n)'
        <4> SUFFICES ASSUME NEW n \in log[LaneOf[t]], n > seen'[t] PROVE OnItsWay(s, n)'
          OBVIOUS
        <4>1. n \in 1 .. seq /\ n > seen[t] /\ n > c /\ seen[t] > 0
          <5>1. n \in 1 .. seq
            BY <1>4, TabLane
          <5>2. seen[t] > 0
            BY <1>2, <2>1, <2>3, <3>1 DEF Serving
          <5> QED BY <1>c, <1>4, <1>6, <3>1, <5>1, <5>2
        <4>2. Floor(t, s) = seen[t] /\ NotToldAway(s)
          BY <1>2, <4>1 DEF Floor, NotToldAway
        <4>3. OnItsWay(s, n)
          BY <2>1, <2>3, <3>1, <4>1, <4>2 DEF Serving
        <4>4. n # c
          BY <1>c, <4>1
        <4>5. Coming(s)' = Coming(s) \ {c} /\ stream'[s].sub = stream[s].sub
          BY <1>2, <1>c
        <4>6. n \in Coming(s)' \/ (~stream'[s].sub /\ \A m \in Coming(s)' : m < n)
          BY <4>3, <4>4, <4>5 DEF OnItsWay
        <4> QED BY <4>6 DEF OnItsWay
      <3>4. Coming(s)' \subseteq log'[LaneOf[t]]
        BY <1>2, <1>c, <2>1, <2>3, <3>1 DEF Serving
      <3>5. Floor(t, s)' = seen'[t]
        BY <3>2 DEF Floor
      <3> QED BY <1>2, <2>3, <3>1, <3>2, <3>3, <3>4, <3>5 DEF Serving
    <2> QED BY <2>2, <2>3
  <1>9. ASSUME stage = "open", NEW u \in Tabs
        PROVE  Placed(u)'
    <2>1. Placed(u)
      BY <1>9 DEF GapInv
    <2>2. CASE u # t \/ conn[t] # s
      <3>1. \A q \in Streams : conn'[u] = q => stream'[q].cursor \in {None, stream[q].cursor}
        BY <1>2, <1>3, <2>2
      <3> QED BY <1>2, <1>5, <2>1, <2>2, <3>1, PlacedStays
    <2>3. CASE u = t /\ conn[t] = s
      <3>1. pos'[t] <= seen'[t] /\ seen'[t] > 0 /\ pos'[t] > 0
        BY <1>c, <1>4, <1>6, <2>3
      <3>2. \A q \in Streams : conn'[t] = q => stream'[q].cursor = None
        BY <1>2, <2>3
      <3>3. t \notin SharedTabs => cursors[t] # None /\ cursors[t].base <= seen'[t]
        <4>1. t \notin SharedTabs => seen[t] > 0 /\ cursors[t] # None /\ cursors[t].base <= seen[t]
          BY <2>1, <2>3, <1>2 DEF Placed, HubAssumption
        <4>2. t \notin SharedTabs => cursors[t].base \in Nat
          BY <4>1 DEF Tidy, CursorsOK, CursorType
        <4> QED BY <1>4, <1>7, <4>1, <4>2
      <3>4. t \in SharedTabs => cursors[t] = None
        BY <2>1, <2>3 DEF Placed
      <3> QED BY <1>2, <2>3, <3>1, <3>2, <3>3, <3>4 DEF Placed, SharedTabs
    <2> QED BY <2>2, <2>3
  <1>10. Covered => (stage = "open" => Covered')
    <2> SUFFICES ASSUME Covered, stage = "open" PROVE Covered'
      OBVIOUS
    <2>1. ASSUME NEW u \in Tabs \ SharedTabs, seen'[u] > 0
          PROVE  CursorCovers(u)'
      <3>1. seen[u] > 0
        <4>1. u # t \/ conn[t] # s => seen'[u] = seen[u]
          BY <1>5
        <4>2. u = t /\ conn[t] = s => seen[u] > 0
          BY <1>9, <2>1 DEF GapInv, Placed, HubAssumption
        <4> QED BY <2>1, <4>1, <4>2
      <3>2. CursorCovers(u)
        BY <3>1 DEF Covered
      <3>3. Missed(u)' \subseteq Missed(u)
        <4> SUFFICES ASSUME NEW n \in log[LaneOf[u]], n > seen'[u] PROVE n > seen[u]
          BY <1>2 DEF Missed
        <4>1. n \in Nat
          BY <1>4, TabLane
        <4> QED BY <1>4, <1>7, <4>1
      <3> QED BY <1>2, <3>2, <3>3 DEF CursorCovers
    <2>2. Quietly' = Quietly /\ SharedTabs' = SharedTabs
      BY <1>2 DEF Quietly, Happens, SharedTabs
    <2>3. AllKept => AllKept'
      BY <1>2 DEF AllKept
    <2> QED BY <2>1, <2>2, <2>3 DEF Covered
  <1>11. AnchorKnown' /\ OnlyLogged'
    BY <1>2 DEF GapInv, AnchorKnown, OnlyLogged
  <1> QED BY <1>2, <1>8, <1>9, <1>10, <1>11 DEF GapInv



\* A published frame is retained or marked as lost, and queued or its connection stopped.
LEMMA PublishGap ==
    ASSUME HubAssumption, Tidy, GapInv, Steady,
           \/ \E l \in Lanes, big \in Sizes : Publish(l, big)
           \/ \E probe \in Probes : PublishExternal(probe)
    PROVE  GapInv'
  <1>0. Probes = {ino} /\ seq \in Nat /\ seq >= 1 /\ \A l \in Lanes : log[l] \subseteq 1 .. seq
    BY Bounds DEF Probes, Steady, Tidy, LogOK
  <1>1. PICK new, base :
          /\ PublishedAs(new, base)
          /\ \/ base = Ensured(inc) /\ cursors' = cursors
             \/ ino # None /\ base = Observed(inc, ino) /\ cursors' = CursorsAfter(inc, ino)
    BY <1>0, PublishFacts, ExternalFacts
  <1>2. /\ seq' \in Nat /\ seq < seq' /\ new \in [Lanes -> {0} \cup (seq + 1 .. seq')]
        /\ UNCHANGED <<plan, stage, conn, pos, seen, ino>>
        /\ \A l \in Lanes : log'[l] = log[l] \cup ({new[l]} \ {0})
        /\ inc' # None /\ inc'.anchor = base.anchor
        /\ \A l \in Lanes :
              /\ \A k \in 1 .. seq' : Keeps(base[l], k) \/ k = new[l] => Keeps(inc'[l], k)
              /\ Elems(inc'[l].frames) \subseteq Elems(base[l].frames) \cup ({new[l]} \ {0})
              /\ inc'[l] = base[l] \/ ("big" \notin Happens => inc'[l].frames # <<>>)
    BY <1>1 DEF PublishedAs
  <1>3. \A l \in Lanes : new[l] = 0 \/ (new[l] \in Nat /\ seq < new[l] /\ new[l] \in 1 .. seq')
    BY <1>0, <1>2
  <1>4. /\ cursors' = cursors
        /\ base.anchor \in {None, ino} /\ ino # None
        /\ inc # None => \A l \in Lanes : base[l] = inc[l]
        /\ inc = None => \A l \in Lanes : base[l] = EmptyBucket
    <2>1. ino # None /\ (inc # None => inc.anchor \in {None, ino})
      BY DEF GapInv, AnchorKnown
    <2>2. ~Rolls(Ensured(inc), ino) /\ (inc # None => ~Rolls(inc, ino))
      BY <2>1 DEF Rolls, Ensured, FreshInc
    <2>3. CASE base = Ensured(inc) /\ cursors' = cursors
      <3>1. \A l \in Lanes : FreshInc[l] = EmptyBucket
        BY DEF FreshInc, Lanes
      <3>2. FreshInc.anchor = None
        BY DEF FreshInc
      <3> QED BY <2>1, <2>3, <3>1, <3>2 DEF Ensured
    <2>4. CASE ino # None /\ base = Observed(inc, ino) /\ cursors' = CursorsAfter(inc, ino)
      <3>1. (inc = None \/ GoodInc(inc, seq)) /\ ino \in Inos \cup {None}
        BY DEF Tidy, IncOK, FileOK
      <3>2. /\ base.anchor = ino
            /\ \A l \in Lanes : base[l] = IF inc = None \/ Rolls(inc, ino) THEN EmptyBucket ELSE inc[l]
        BY <1>0, <2>4, <3>1, ObservedRecord
      <3> QED BY <2>1, <2>2, <2>4, <3>2 DEF CursorsAfter
    <2> QED BY <1>1, <2>3, <2>4
  <1>5. AnchorKnown'
    BY <1>2, <1>4 DEF AnchorKnown
  <1>6. OnlyLogged'
    <2> SUFFICES ASSUME NEW l \in Lanes PROVE Elems(inc'[l].frames) \subseteq log'[l]
      BY DEF OnlyLogged
    <2>1. Elems(base[l].frames) \subseteq log[l]
      <3>1. Elems(EmptyBucket.frames) = {}
        BY EmptyLine DEF EmptyBucket
      <3> QED BY <1>4, <3>1 DEF GapInv, OnlyLogged
    <2> QED BY <1>2, <2>1
  <1>7. Served'
    <2> SUFFICES ASSUME NEW u \in Tabs, NEW q \in Streams, conn'[u] = q PROVE Serving(u, q)'
      BY DEF Served
    <2> DEFINE n == new[LaneOf[u]]
    <2>1. conn[u] = q /\ Serving(u, q) /\ stream[q].tab = u /\ stream[q].st = "open"
          /\ seen'[u] = seen[u]
      BY <1>2 DEF GapInv, Served, Serving
    <2>2. log'[LaneOf[u]] = log[LaneOf[u]] \cup ({n} \ {0}) /\ log[LaneOf[u]] \subseteq 1 .. seq
          /\ (n = 0 \/ (n \in Nat /\ seq < n))
      BY <1>0, <1>2, <1>3, TabLane
    <2>3. /\ stream'[q].cursor = stream[q].cursor /\ stream'[q].tab = stream[q].tab
          /\ stream'[q].st = stream[q].st
          /\ \/ ~stream[q].sub /\ stream'[q] = stream[q]
             \/ stream[q].sub /\ n = 0 /\ stream'[q] = stream[q]
             \/ stream[q].sub /\ n # 0 /\ stream'[q].sub /\ Coming(q)' = Coming(q) \cup {n}
             \/ stream[q].sub /\ n # 0 /\ ~stream'[q].sub /\ Coming(q)' = Coming(q)
      BY <1>1, <2>1 DEF PublishedAs
    <2>4. stream'[q] = stream[q] => Coming(q)' = Coming(q)
      BY DEF Coming
    <2>5. Coming(q) \subseteq log[LaneOf[u]]
      BY <2>1 DEF Serving
    <2> HIDE DEF n
    <2>6. Coming(q)' \subseteq log'[LaneOf[u]]
      BY <2>2, <2>3, <2>4, <2>5
    <2>7. ASSUME NotToldAway(q)', NEW k \in log'[LaneOf[u]], k > Floor(u, q)'
          PROVE  OnItsWay(q, k)'
      <3>1. NotToldAway(q) /\ Floor(u, q)' = Floor(u, q)
        BY <2>1, <2>3, <2>7 DEF NotToldAway, Floor
      <3>2. CASE k \in log[LaneOf[u]]
        <4>1. OnItsWay(q, k)
          BY <2>1, <2>7, <3>1, <3>2 DEF Serving
        <4>2. k < n \/ n = 0
          BY <1>0, <2>2, <3>2
        <4> QED BY <2>3, <2>4, <4>1 DEF OnItsWay
      <3>3. CASE k = n /\ n # 0
        <4>1. \A m \in Coming(q) : m < k
          BY <1>0, <2>2, <2>5, <3>3
        <4> QED BY <2>3, <2>4, <3>3, <4>1 DEF OnItsWay
      <3> QED BY <2>2, <2>7, <3>2, <3>3
    <2>8. stream'[q].cursor = None => seen'[u] > 0
      BY <2>1, <2>3 DEF Serving
    <2> QED BY <2>1, <2>3, <2>6, <2>7, <2>8 DEF Serving
  <1>8. \A u \in Tabs : Placed(u) => Placed(u)'
    <2> SUFFICES ASSUME NEW u \in Tabs, Placed(u) PROVE Placed(u)'
      OBVIOUS
    <2>1. \A q \in Streams : stream'[q].cursor = stream[q].cursor
      BY <1>1 DEF PublishedAs
    <2> QED BY <1>2, <1>4, <2>1, PlacedStays
  <1>9. Covered => Covered'
    <2> SUFFICES ASSUME Covered PROVE Covered'
      OBVIOUS
    <2>1. \A l \in Lanes : \A k \in log'[l] :
             /\ k \in 1 .. seq'
             /\ (k \in log[l] => inc # None /\ Keeps(inc[l], k)) => Keeps(inc'[l], k)
      <3> SUFFICES ASSUME NEW l \in Lanes, NEW k \in log'[l]
                   PROVE  /\ k \in 1 .. seq'
                          /\ (k \in log[l] => inc # None /\ Keeps(inc[l], k)) => Keeps(inc'[l], k)
        OBVIOUS
      <3>1. k \in log[l] \/ (k = new[l] /\ k # 0)
        BY <1>2
      <3>2. k \in 1 .. seq'
        BY <1>0, <1>2, <1>3, <3>1
      <3>3. inc # None /\ Keeps(inc[l], k) => Keeps(base[l], k)
        BY <1>4
      <3> QED BY <1>2, <3>1, <3>2, <3>3
    <2>2. ASSUME NEW u \in Tabs \ SharedTabs, seen'[u] > 0
          PROVE  CursorCovers(u)'
      <3>1. LaneOf[u] \in Lanes /\ CursorCovers(u)
        BY <1>2, <2>2, TabLane DEF Covered
      <3> QED BY <1>2, <2>1, <3>1 DEF CursorCovers, Missed
    <2>3. Quietly => AllKept'
      <3> SUFFICES ASSUME Quietly, AllKept, NEW l \in Lanes
                   PROVE  /\ \A k \in log'[l] : Keeps(inc'[l], k)
                          /\ inc'[l].frames = <<>> => inc'[l].dropped = 0
        BY <1>2 DEF Covered, AllKept
      <3>1. \A k \in log'[l] : Keeps(inc'[l], k)
        BY <2>1 DEF AllKept
      <3>2. base[l].frames = <<>> => base[l].dropped = 0
        BY <1>4 DEF AllKept, EmptyBucket
      <3> QED BY <1>2, <3>1, <3>2 DEF Quietly
    <2>4. Quietly' = Quietly /\ SharedTabs' = SharedTabs
      BY <1>2 DEF Quietly, Happens, SharedTabs
    <2> QED BY <2>2, <2>3, <2>4 DEF Covered
  <1> QED BY <1>2, <1>5, <1>6, <1>7, <1>8, <1>9 DEF GapInv



\* The hub reaps a record that holds nothing; the file is still the one it was for.
LEMMA TakenWhole ==
    ASSUME HubAssumption, Tidy, AnchorKnown
    PROVE  /\ CursorsAfter(Swept, ino) = cursors
           /\ Swept # None => Swept = inc /\ inc # None /\ ~Rolls(Swept, ino)
           /\ Observed(Swept, ino).anchor = ino /\ Observed(Swept, ino) # None
           /\ \A l \in Lanes : Observed(Swept, ino)[l] = IF Swept = None THEN EmptyBucket ELSE inc[l]
           /\ Swept = None => inc = None \/ Idle
  <1>1. seq \in Nat /\ seq >= 1 /\ ino \in Inos \cup {None} /\ (Swept = None \/ GoodInc(Swept, seq))
    BY Bounds DEF Tidy, FileOK, IncOK, Swept
  <1>2. Swept \in {None, inc} /\ (Swept = None => inc = None \/ Idle)
    BY DEF Swept
  <1>3. ~Rolls(Ensured(Swept), ino) /\ (Swept # None => ~Rolls(Swept, ino))
    BY <1>2 DEF AnchorKnown, Rolls, Ensured, FreshInc
  <1>4. /\ Observed(Swept, ino).anchor = ino
        /\ \A l \in Lanes : Observed(Swept, ino)[l] = IF Swept = None \/ Rolls(Swept, ino)
                                                      THEN EmptyBucket ELSE Swept[l]
    BY <1>1, ObservedRecord
  <1>5. Observed(Swept, ino) # None
    BY <1>1, ObservedGood, IncIsRecord
  <1> HIDE DEF Swept
  <1> QED BY <1>2, <1>3, <1>4, <1>5 DEF CursorsAfter

\* A connection is handed all the bucket has above its position, or told of a gap.
LEMMA ConnectGap ==
    ASSUME HubAssumption, Tidy, GapInv, Steady, NEW t \in Tabs, NEW s \in Streams,
           NEW probe \in Probes, Connect(t, s, probe)
    PROVE  GapInv'
  <1> DEFINE same == Swept # None /\ ~Rolls(Swept, probe)
             kept == inc'[LaneOf[t]]
             x == stream'[s]
  <1>0. /\ probe = ino /\ seq \in Nat /\ seq >= 1
        /\ pos[t] \in 0 .. seq /\ seen \in [Tabs -> 0 .. seq]
        /\ \A l \in Lanes : log[l] \subseteq 1 .. seq
    BY Bounds DEF Probes, Steady, Tidy, PlacesOK, LogOK
  <1>1. /\ stage = "open" /\ conn[t] = None /\ ino # None /\ stream[s].st = "free"
        /\ inc' = Observed(Swept, ino) /\ conn' = [conn EXCEPT ![t] = s]
        /\ UNCHANGED <<plan, seq, stage, ino, pos, log>>
    BY <1>0, ConnectFacts
  <1>2. /\ CursorsAfter(Swept, ino) = cursors
        /\ Swept # None => Swept = inc /\ inc # None /\ ~Rolls(Swept, ino)
        /\ inc'.anchor = ino /\ inc' # None
        /\ \A l \in Lanes : inc'[l] = IF Swept = None THEN EmptyBucket ELSE inc[l]
        /\ Swept = None => inc = None \/ Idle
    BY <1>1, TakenWhole DEF GapInv
  <1>3. PICK from, resumed : ConnectedAt(t, s, from, resumed, cursors, kept, same)
    BY <1>0, <1>2, ConnectFacts
  <1>4. /\ from \in 1 .. seq
        /\ \/ pos[t] > 0 /\ from = pos[t] /\ resumed
           \/ pos[t] = 0 /\ t \notin SharedTabs /\ cursors[t] # None /\ from = cursors[t].base /\ resumed
           \/ pos[t] = 0 /\ (t \in SharedTabs \/ cursors[t] = None) /\ from = seq /\ ~resumed
        /\ cursors' = Activated(t, cursors, from)
        /\ seen' = [seen EXCEPT ![t] = IF @ = 0 /\ t \notin SharedTabs THEN from ELSE @]
        /\ stream' = [stream EXCEPT ![s] = x]
        /\ x.st = "open" /\ x.tab = t /\ x.sub
        /\ x.cursor # None /\ x.cursor.base = from
        /\ x.cursor.resync = (resumed /\ Behind(kept, from, same))
        /\ x.queue = <<>> /\ Elems(x.out) = {n \in Elems(kept.frames) : n > from}
    BY <1>3 DEF ConnectedAt
  <1>5. same = (Swept # None)
    BY <1>0, <1>2
  <1> HIDE DEF x, same, kept
  <1>6. stream'[s] = x /\ \A q \in Streams : q # s => stream'[q] = stream[q]
    BY <1>4 DEF Tidy, BooksInv, StreamsInv, x
  <1>7. Coming(s)' = {n \in Elems(kept.frames) : n > from}
    BY <1>4, <1>6, EmptyLine DEF Coming
  <1>8. /\ \A u \in Tabs : u # t => seen'[u] = seen[u]
        /\ seen'[t] = IF seen[t] = 0 /\ t \notin SharedTabs THEN from ELSE seen[t]
    BY <1>0, <1>4
  <1>9. Covered /\ \A u \in Tabs : Placed(u)
    BY <1>1 DEF GapInv
  <1>10. seen[t] > 0 => from <= seen[t] /\ resumed
    BY <1>0, <1>4, <1>9 DEF Placed
  <1>11. seen[t] = 0 => from = seq
    <2>1. seen[t] = 0 => pos[t] = 0
      BY <1>0, <1>9 DEF Placed
    <2> QED BY <1>0, <1>4, <1>9, <2>1 DEF Placed
  <1>12. LaneOf[t] \in Lanes /\ log[LaneOf[t]] \subseteq 1 .. seq
    BY <1>0, TabLane
  <1>13. AnchorKnown'
    BY <1>1, <1>2 DEF AnchorKnown
  <1>14. OnlyLogged'
    <2>1. Elems(EmptyBucket.frames) = {}
      BY EmptyLine DEF EmptyBucket
    <2> QED BY <1>1, <1>2, <2>1 DEF OnlyLogged, GapInv
  <1>15. Serving(t, s)'
    <2>1. Coming(s)' \subseteq log'[LaneOf[t]]
      BY <1>2, <1>7, <1>12, <1>14 DEF OnlyLogged, kept
    <2>2. ASSUME NotToldAway(s)', NEW n \in log[LaneOf[t]], n > Floor(t, s)'
          PROVE  OnItsWay(s, n)'
      <3>1. n \in 1 .. seq /\ ~x.cursor.resync
        BY <1>4, <1>6, <1>12, <2>2 DEF NotToldAway
      <3>2. seen[t] > 0 /\ n > seen[t] /\ n > from
        <4>1. CASE seen[t] = 0
          <5>1. Floor(t, s)' = seq
            BY <1>0, <1>4, <1>6, <1>8, <1>11, <4>1 DEF Floor
          <5> QED BY <1>0, <2>2, <3>1, <5>1
        <4>2. CASE seen[t] # 0
          <5>1. seen[t] > 0 /\ Floor(t, s)' = seen[t]
            BY <1>0, <1>8, <4>2 DEF Floor
          <5> QED BY <1>0, <1>4, <1>10, <2>2, <3>1, <5>1
        <4> QED BY <4>1, <4>2
      <3>3. same /\ ~(from < kept.dropped)
        BY <1>4, <1>10, <3>1, <3>2 DEF Behind
      <3>4. Swept # None /\ inc # None /\ kept = inc[LaneOf[t]]
        BY <1>2, <1>5, <1>12, <3>3 DEF kept
      <3>5. Keeps(kept, n)
        <4>1. CASE t \notin SharedTabs
          BY <1>9, <3>2, <3>4, <4>1 DEF Covered, CursorCovers, Missed
        <4>2. CASE t \in SharedTabs
          BY <1>9, <1>12, <3>4, <4>2 DEF Covered, AllKept, Steady
        <4> QED BY <4>1, <4>2
      <3>6. kept.dropped \in Nat
        BY <1>12, <3>4, BucketFrames DEF GoodBucket
      <3>7. n \in Elems(kept.frames)
        BY <1>4, <3>1, <3>2, <3>3, <3>5, <3>6 DEF Keeps
      <3> QED BY <1>7, <3>2, <3>7 DEF OnItsWay
    <2> QED BY <1>1, <1>4, <1>6, <2>1, <2>2 DEF Serving
  <1>16. Served'
    <2> SUFFICES ASSUME NEW u \in Tabs, NEW q \in Streams, conn'[u] = q PROVE Serving(u, q)'
      BY DEF Served
    <2>1. CASE u = t
      <3>1. q = s
        BY <1>1, <2>1 DEF Tidy, RestOK
      <3> QED BY <1>15, <2>1, <3>1
    <2>2. CASE u # t
      <3>1. Serving(u, q)
        BY <1>1, <2>2 DEF GapInv, Served, Tidy, RestOK
      <3>2. q # s /\ stream[q].st = "open"
        BY <1>1, <3>1 DEF Serving
      <3>3. stream'[q] = stream[q]
        BY <1>6, <3>2
      <3>4. Coming(q)' = Coming(q)
        BY <3>3 DEF Coming
      <3> QED BY <1>1, <1>8, <2>2, <3>1, <3>2, <3>3, <3>4, ServingStays
    <2> QED BY <2>1, <2>2
  <1>17. ASSUME NEW u \in Tabs
         PROVE  Placed(u)'
    <2>1. CASE u # t
      <3>1. pos'[u] = pos[u] /\ seen'[u] = seen[u] /\ cursors'[u] = cursors[u] /\ conn'[u] = conn[u]
        BY <1>1, <1>4, <1>8, <2>1 DEF Activated, Tidy, CursorsOK, RestOK
      <3>2. \A q \in Streams : conn[u] = q => stream'[q] = stream[q]
        BY <1>1, <1>6 DEF GapInv, Served, Serving
      <3> QED BY <1>1, <1>9, <3>1, <3>2, PlacedStays
    <2>2. CASE u = t
      <3> DEFINE b == IF cursors[t] = None THEN from ELSE cursors[t].base
                 c == [base |-> b, away |-> FALSE]
      <3>1. /\ SharedTabs' = SharedTabs /\ pos'[t] = pos[t] /\ conn'[t] = s
            /\ \A q \in Streams : conn'[t] = q => q = s
        BY <1>1 DEF SharedTabs, Tidy, RestOK
      <3>2. CASE t \in SharedTabs
        <4>1. cursors'[t] = cursors[t] /\ seen'[t] = seen[t]
          BY <1>4, <1>8, <3>2 DEF Activated
        <4> QED BY <1>4, <1>6, <1>9, <1>10, <2>2, <3>1, <3>2, <4>1 DEF Placed
      <3>3. CASE t \notin SharedTabs
        <4>1. cursors' = [cursors EXCEPT ![t] = c]
          BY <1>4, <3>3 DEF Activated
        <4>2. b \in 1 .. seq /\ b <= seen'[t] /\ seen'[t] > 0 /\ pos[t] <= seen'[t]
          <5>1. cursors[t] # None => cursors[t].base \in 1 .. seq
            BY DEF Tidy, CursorsOK, CursorType
          <5>2. /\ pos[t] <= seen[t] /\ (seen[t] > 0 <=> cursors[t] # None)
                /\ cursors[t] # None => cursors[t].base <= seen[t]
            BY <1>9, <3>3 DEF Placed
          <5>3. seen[t] \in 0 .. seq
            BY <1>0
          <5>4. CASE seen[t] = 0
            BY <1>0, <1>4, <1>8, <3>3, <5>1, <5>2, <5>3, <5>4
          <5>5. CASE seen[t] > 0
            BY <1>0, <1>4, <1>8, <3>3, <5>1, <5>2, <5>3, <5>5
          <5> QED BY <5>3, <5>4, <5>5
        <4>3. c # None /\ c.base = b
          <5> HIDE DEF b
          <5>1. c \in [base : Nat, away : BOOLEAN]
            BY <4>2
          <5> QED BY <5>1 DEF HubAssumption
        <4> HIDE DEF c, b
        <4>4. cursors'[t] = c
          BY <4>1 DEF Tidy, CursorsOK
        <4>5. from <= seen'[t]
          BY <1>0, <1>4, <1>8, <1>10, <3>3
        <4> QED BY <1>4, <1>6, <2>2, <3>1, <3>3, <4>2, <4>3, <4>4, <4>5 DEF Placed
      <3> QED BY <3>2, <3>3
    <2> QED BY <2>1, <2>2
  <1>18. Covered'
    <2>1. ASSUME NEW u \in Tabs \ SharedTabs, seen'[u] > 0
          PROVE  CursorCovers(u)'
      <3>1. CASE seen[u] = 0
        <4>1. u = t /\ seen'[u] = seq
          BY <1>8, <1>11, <2>1, <3>1
        <4>2. Missed(u)' = {}
          <5>1. log'[LaneOf[u]] \subseteq 1 .. seq
            BY <1>1, <1>12, <4>1
          <5> QED BY <1>0, <4>1, <5>1 DEF Missed
        <4> QED BY <1>2, <4>2 DEF CursorCovers
      <3>2. CASE seen[u] # 0
        <4>1. seen'[u] = seen[u] /\ seen[u] > 0
          BY <1>8, <2>1, <3>2
        <4>2. CursorCovers(u) /\ cursors[u] # None
          BY <1>9, <4>1 DEF Covered, Placed
        <4>3. Swept # None
          BY <1>2, <4>2 DEF Idle, NoCursors, CursorCovers
        <4>4. inc'[LaneOf[u]] = inc[LaneOf[u]]
          BY <1>2, <4>3, TabLane
        <4>5. Missed(u)' = Missed(u)
          BY <1>1, <4>1 DEF Missed
        <4> QED BY <1>2, <4>2, <4>4, <4>5 DEF CursorCovers
      <3> QED BY <3>1, <3>2
    <2>2. Quietly => AllKept'
      <3> SUFFICES ASSUME Quietly, AllKept PROVE AllKept'
        BY <1>9 DEF Covered
      <3>1. CASE Swept # None
        <4>1. inc # None /\ \A l \in Lanes : inc'[l] = inc[l]
          BY <1>2, <3>1
        <4> QED BY <1>1, <1>2, <4>1 DEF AllKept
      <3>2. CASE Swept = None
        <4>1. \A l \in Lanes : log[l] = {}
          <5> SUFFICES ASSUME NEW l \in Lanes, NEW n \in log[l] PROVE FALSE
            OBVIOUS
          <5>1. inc # None /\ Keeps(inc[l], n) /\ n \in 1 .. seq
            BY <1>0 DEF AllKept
          <5>2. inc[l].frames = <<>>
            BY <1>2, <3>2, <5>1 DEF Idle, Lanes
          <5>3. inc[l].dropped = 0 /\ Elems(inc[l].frames) = {}
            BY <5>1, <5>2, EmptyLine DEF AllKept
          <5> QED BY <5>1, <5>3 DEF Keeps
        <4>2. EmptyBucket.dropped = 0
          BY DEF EmptyBucket
        <4> QED BY <1>1, <1>2, <3>2, <4>1, <4>2 DEF AllKept
      <3> QED BY <3>1, <3>2
    <2>3. Quietly' = Quietly /\ SharedTabs' = SharedTabs
      BY <1>1 DEF Quietly, Happens, SharedTabs
    <2> QED BY <2>1, <2>2, <2>3 DEF Covered
  <1> QED BY <1>13, <1>14, <1>16, <1>17, <1>18 DEF GapInv


\* GapInv holds at the start.
LEMMA InitGap ==
    ASSUME HubAssumption, Init PROVE GapInv
  <1>1. AnchorKnown
    BY DEF Init, AnchorKnown, HubAssumption
  <1>2. OnlyLogged /\ Served
    BY DEF Init, OnlyLogged, Served, HubAssumption
  <1>3. Covered
    BY DEF Init, Covered, AllKept
  <1>4. ASSUME NEW t \in Tabs PROVE Placed(t)
    <2>1. pos[t] = 0 /\ seen[t] = 0 /\ cursors[t] = None /\ conn[t] = None
      BY DEF Init, NoCursors
    <2> QED BY <2>1 DEF Placed
  <1> QED BY <1>1, <1>2, <1>3, <1>4 DEF GapInv

\* A path that keeps its file and a hub that keeps its record: these steps are not taken.
LEMMA SteadySteps ==
    ASSUME Steady, Next
    PROVE  \/ \E t \in Tabs, s \in Streams : \/ \E probe \in Probes : Connect(t, s, probe)
                                             \/ ConnectClosed(t, s)
           \/ \E t \in Tabs : Drop(t)
           \/ \E s \in Streams : WriteCursor(s) \/ WriteFrame(s) \/ Finish(s) \/ Evict(s)
           \/ DropSubscribers
           \/ \E l \in Lanes, big \in Sizes : Publish(l, big)
           \/ \E probe \in Probes : PublishExternal(probe)
           \/ \E l \in Lanes : Forget(l)
           \/ Lease \/ Unlease
           \/ HubShutdown \/ WatcherShutdown
  <1>1. /\ \A i \in Inos : ~ExtReplace(i) /\ ~ExtCreate(i)
        /\ \A i \in Inos, probe \in Inos \cup {None} : ~ServerReplace(i, probe)
        /\ ~ExtDelete /\ ~MarkAbsent /\ ~Expire /\ ~DropInactive /\ ~Restart
    BY DEF Steady, ExtReplace, ExtCreate, ServerReplace, ExtDelete, MarkAbsent, Expire,
           DropInactive, Restart
  <1>2. Relay \/ BroadcastSaved => \E l \in Lanes, big \in Sizes : Publish(l, big)
    BY DEF Relay, BroadcastSaved, Lanes
  <1> QED BY <1>1, <1>2 DEF Next

\* The scenario never changes.
LEMMA SteadyKept ==
    ASSUME Steady, [Next]_vars PROVE Steady'
  BY PlanKept DEF Steady, Happens, SharedTabs, Quietly

\* Every step of a steady scenario keeps GapInv.
LEMMA NextGap ==
    ASSUME HubAssumption, Tidy, GapInv, Steady, [Next]_vars
    PROVE  GapInv'
  <1>1. CASE UNCHANGED vars
    BY <1>1, RestGap
  <1>2. CASE Next
    BY <1>2, SteadySteps, ConnectGap, ClosedGap, CursorGap, FrameGap, EndGap, PublishGap,
       ForgetGap, RestGap
  <1> QED BY <1>1, <1>2

\* What the invariant says of a tab that is being served.
LEMMA ServedWhole ==
    ASSUME HubAssumption, Tidy, GapInv, NEW t \in Tabs, NEW s \in Streams,
           ServedBy(t, s), seen[t] > 0
    PROVE  Missed(t) \subseteq Coming(s)
  <1>1. Serving(t, s) /\ stream[s].st = "open" /\ ~stream[s].stopped /\ NotToldAway(s)
    BY DEF ServedBy, GapInv, Served, NotToldAway
  <1>2. stream[s].sub
    BY <1>1, StreamFields DEF Tidy, Sound
  <1> QED BY <1>1, <1>2 DEF Missed, Serving, Floor, OnItsWay

\* The replay contract, for any number of tabs, connections, published events and broken
\* connections, any bucket and queue size: whatever a connected tab still lacks is on its
\* way to it, unless it is told to fetch the page (add, enqueue, retainLocked,
\* dropOldestFromBucket, remove). It is claimed while the path keeps its file and the hub
\* its record of it, and for tabs behind a shared stream while the buckets lose nothing.
THEOREM NoGap ==
    ASSUME HubAssumption PROVE Spec => (Steady => []NoSilentGap)
  <1>1. Init => GapInv
    BY InitGap
  <1>2. Steady /\ [Next]_vars => Steady'
    BY SteadyKept
  <1>3. Tidy /\ Steady /\ GapInv /\ [Next]_vars => GapInv'
    BY NextGap
  <1>4. Tidy /\ GapInv => NoSilentGap
    BY ServedWhole DEF NoSilentGap
  <1> QED BY <1>1, <1>2, <1>3, <1>4, TidyKept, PTL DEF Spec


-----------------------------------------------------------------------------
(* The feed every tab is promised.                                         *)

\* A publish is one event of the feed on its lane.
LEMMA PublishFeeds ==
    ASSUME HubAssumption, Tidy, NEW l \in Lanes, NEW big, Publish(l, big)
    PROVE  feed!Publish({l})
  <1> DEFINE ahead == [k \in {l} |-> seq + 1]
  <1>1. seq \in Nat /\ log = [k \in Lanes |-> log[k]]
    BY Bounds DEF Tidy, LogOK
  <1>2. seq' = seq + 1 /\ log' = [log EXCEPT ![l] = log[l] \cup {seq + 1}] /\ seen' = seen
    BY DEF Publish, tabVars
  <1>3. /\ ahead \in [{l} -> seq + 1 .. seq + 2]
        /\ \A j, k \in {l} : ahead[j] = ahead[k] => j = k
        /\ ~\E k \in {l} : ahead[k] = seq + 2
    BY <1>1
  <1>4. log' = [k \in Lanes |-> IF k \in {l} THEN log[k] \cup {ahead[k]} ELSE log[k]]
    BY <1>1, <1>2
  <1> HIDE DEF ahead
  <1> QED BY <1>2, <1>3, <1>4 DEF feed!Publish

\* An external change is one event on each lane.
LEMMA ExternalFeeds ==
    ASSUME HubAssumption, Tidy, NEW probe, PublishExternal(probe)
    PROVE  feed!Publish(Lanes)
  <1> DEFINE ahead == [k \in Lanes |-> IF k = "live" THEN seq + 1 ELSE seq + 2]
  <1>1. seq \in Nat
    BY Bounds DEF Tidy
  <1>2. /\ seq' = seq + 2 /\ seen' = seen
        /\ log' = [live |-> log["live"] \cup {seq + 1}, saved |-> log["saved"] \cup {seq + 2}]
    BY DEF PublishExternal, tabVars
  <1>3. ahead["live"] = seq + 1 /\ ahead["saved"] = seq + 2 /\ "live" \in Lanes /\ "saved" \in Lanes
    BY DEF Lanes
  <1>4. /\ ahead \in [Lanes -> seq + 1 .. seq + 2]
        /\ \A j, k \in Lanes : ahead[j] = ahead[k] => j = k
        /\ \E k \in Lanes : ahead[k] = seq + 2
    BY <1>1, <1>3 DEF Lanes
  <1> HIDE DEF ahead
  <1>5. log' = [k \in Lanes |-> IF k \in Lanes THEN log[k] \cup {ahead[k]} ELSE log[k]]
    <2> DEFINE both == [k \in Lanes |-> IF k \in Lanes THEN log[k] \cup {ahead[k]} ELSE log[k]]
    <2>1. both["live"] = log["live"] \cup {seq + 1} /\ both["saved"] = log["saved"] \cup {seq + 2}
      BY <1>3
    <2>2. both = [k \in {"live", "saved"} |-> both[k]]
      BY DEF Lanes
    <2> HIDE DEF both
    <2>3. both = [live |-> log["live"] \cup {seq + 1}, saved |-> log["saved"] \cup {seq + 2}]
      BY <2>1, <2>2
    <2> QED BY <1>2, <2>3 DEF both
  <1> QED BY <1>2, <1>4, <1>5 DEF feed!Publish

\* A page that connects joins the feed, or stays where it was.
LEMMA ConnectFeeds ==
    ASSUME HubAssumption, Tidy, NEW t \in Tabs, NEW s \in Streams, NEW probe \in Probes,
           Connect(t, s, probe)
    PROVE  UNCHANGED <<seq, log, seen>> \/ \E n \in 1 .. seq : feed!Join(t, n)
  <1>1. UNCHANGED <<seq, log>>
    BY DEF Connect
  <1>2. PICK n \in 1 .. seq :
          seen' = [seen EXCEPT ![t] = IF @ = 0 /\ t \notin SharedTabs THEN n ELSE @]
    BY ConnectFacts DEF ConnectedAt
  <1>3. CASE seen[t] = 0 /\ t \notin SharedTabs
    BY <1>1, <1>2, <1>3 DEF feed!Join
  <1>4. CASE ~(seen[t] = 0 /\ t \notin SharedTabs)
    BY <1>1, <1>2, <1>4 DEF Tidy, PlacesOK
  <1> QED BY <1>3, <1>4

\* The cursor frame lets a page join, sends it to fetch the page, or tells it nothing new.
LEMMA CursorFeeds ==
    ASSUME HubAssumption, Tidy, NEW s \in Streams, WriteCursor(s)
    PROVE  UNCHANGED <<seq, log, seen>>
           \/ \E t \in Tabs : feed!Refetch(t) \/ \E n \in 1 .. seq : feed!Join(t, n)
  <1>1. PICK t \in Tabs : t = stream[s].tab
    BY CursorFacts
  <1>2. /\ UNCHANGED <<seq, log>> /\ stream[s].cursor \in [base : 1 .. seq, resync : BOOLEAN]
        /\ \/ seen' = seen
           \/ seen' = [seen EXCEPT ![t] = IF stream[s].cursor.resync THEN seq
                                          ELSE IF @ = 0 THEN stream[s].cursor.base ELSE @]
    BY <1>1, CursorFacts
  <1>3. CASE seen' = seen
    BY <1>2, <1>3
  <1>4. CASE seen' # seen /\ stream[s].cursor.resync
    BY <1>2, <1>4 DEF feed!Refetch
  <1>5. CASE seen' # seen /\ ~stream[s].cursor.resync /\ seen[t] = 0
    BY <1>2, <1>5 DEF feed!Join
  <1>6. CASE ~stream[s].cursor.resync /\ seen[t] # 0
    <2>1. seen' = seen
      BY <1>2, <1>6 DEF Tidy, PlacesOK
    <2> QED BY <1>2, <2>1
  <1> QED BY <1>3, <1>4, <1>5, <1>6

\* The frame that reaches a page is the next it lacks, or one it has.
LEMMA FrameFeeds ==
    ASSUME HubAssumption, Tidy, GapInv, NEW s \in Streams, WriteFrame(s)
    PROVE  UNCHANGED <<seq, log, seen>>
           \/ \E t \in Tabs : \E n \in 1 .. seq : feed!Deliver(t, n)
  <1>1. PICK t \in Tabs : t = stream[s].tab
    BY FrameFacts
  <1>2. /\ UNCHANGED <<seq, log>> /\ stream[s].cursor = None
        /\ seq \in Nat /\ seen \in [Tabs -> 0 .. seq] /\ log[LaneOf[t]] \subseteq 1 .. seq
    BY <1>1, FrameFacts, Bounds, TabLane DEF Tidy, PlacesOK, LogOK
  <1>3. PICK n \in Coming(s) :
          /\ n \in 1 .. seq /\ \A m \in Coming(s) : n <= m
          /\ IF conn[t] = s THEN seen' = [seen EXCEPT ![t] = Higher(@, n)] ELSE seen' = seen
    BY <1>1, FrameFacts
  <1>4. CASE conn[t] # s \/ seen[t] >= n
    <2>1. seen' = seen
      BY <1>2, <1>3, <1>4 DEF Higher
    <2> QED BY <1>2, <2>1
  <1>5. CASE ~(conn[t] # s \/ seen[t] >= n)
    <2>1. Serving(t, s)
      BY <1>5 DEF GapInv, Served
    <2>2. seen[t] > 0 /\ n \in log[LaneOf[t]] /\ Floor(t, s) = seen[t] /\ NotToldAway(s)
      BY <1>2, <1>3, <2>1 DEF Serving, Floor, NotToldAway
    <2>3. ASSUME NEW m \in log[LaneOf[t]], m > seen[t] PROVE n <= m
      <3>1. OnItsWay(s, m)
        BY <2>1, <2>2, <2>3 DEF Serving
      <3>2. m \in Nat /\ n \in Nat
        BY <1>2, <1>3
      <3> QED BY <1>3, <3>1, <3>2 DEF OnItsWay
    <2>4. seen' = [seen EXCEPT ![t] = n]
      BY <1>2, <1>3, <1>5 DEF Higher
    <2>5. seen[t] < n
      BY <1>2, <1>3, <1>5
    <2>6. feed!Deliver(t, n)
      BY <1>2, <2>2, <2>3, <2>4, <2>5 DEF feed!Deliver, feed!Missed
    <2> QED BY <1>3, <2>6
  <1> QED BY <1>4, <1>5

\* The other steps are not seen in the feed.
LEMMA RestFeeds ==
    ASSUME \/ UNCHANGED vars
           \/ \E t \in Tabs, s \in Streams : ConnectClosed(t, s)
           \/ \E t \in Tabs : Drop(t)
           \/ \E s \in Streams : Finish(s) \/ Evict(s)
           \/ \E l \in Lanes : Forget(l)
           \/ DropSubscribers \/ Lease \/ Unlease \/ HubShutdown \/ WatcherShutdown
    PROVE  UNCHANGED <<seq, log, seen>>
  BY DEF vars, ConnectClosed, Drop, Finish, Evict, Forget, DropSubscribers, Lease, Unlease,
         HubShutdown, WatcherShutdown, hubVars, tabVars

\* Every step of the hub is a step of the feed or none.
LEMMA NextFeeds ==
    ASSUME HubAssumption, Tidy, GapInv, Steady, [Next]_vars
    PROVE  [feed!Next]_(feed!vars)
  <1>1. ASSUME NEW t \in Tabs, NEW s \in Streams, NEW probe \in Probes, Connect(t, s, probe)
        PROVE  [feed!Next]_(feed!vars)
    BY <1>1, ConnectFeeds DEF feed!Next, feed!vars
  <1>2. ASSUME NEW s \in Streams, WriteCursor(s)
        PROVE  [feed!Next]_(feed!vars)
    BY <1>2, CursorFeeds DEF feed!Next, feed!vars
  <1>3. ASSUME NEW s \in Streams, WriteFrame(s)
        PROVE  [feed!Next]_(feed!vars)
    BY <1>3, FrameFeeds DEF feed!Next, feed!vars
  <1>4. ASSUME NEW l \in Lanes, NEW big \in Sizes, Publish(l, big)
        PROVE  [feed!Next]_(feed!vars)
    <2>1. feed!Publish({l}) /\ {l} \in SUBSET Lanes
      BY <1>4, PublishFeeds
    <2> QED BY <2>1 DEF feed!Next
  <1>5. ASSUME NEW probe \in Probes, PublishExternal(probe)
        PROVE  [feed!Next]_(feed!vars)
    <2>1. feed!Publish(Lanes) /\ Lanes \in SUBSET Lanes
      BY <1>5, ExternalFeeds
    <2> QED BY <2>1 DEF feed!Next
  <1>6. CASE UNCHANGED <<seq, log, seen>>
    BY <1>6 DEF feed!vars
  <1>7. CASE UNCHANGED vars
    BY <1>6, <1>7, RestFeeds
  <1>8. CASE Next
    BY <1>1, <1>2, <1>3, <1>4, <1>5, <1>6, <1>8, SteadySteps, RestFeeds
  <1> QED BY <1>7, <1>8

\* The hub, its coordinator and its handlers implement the feed: behind bounded buckets,
\* resume cursors, eviction, broken connections and shutdown every tab sees the events of
\* its lane in the order they were published and skips one only when it is told to fetch
\* the page. Hypotheses as in NoGap.
THEOREM HubFeeds ==
    ASSUME HubAssumption PROVE Spec => (Steady => FeedSpec)
  <1>1. Init => GapInv
    BY InitGap
  <1>2. Init => feed!Init
    BY DEF Init, feed!Init
  <1>3. Steady /\ [Next]_vars => Steady'
    BY SteadyKept
  <1>4. Tidy /\ Steady /\ GapInv /\ [Next]_vars => GapInv' /\ [feed!Next]_(feed!vars)
    BY NextGap, NextFeeds
  <1> QED BY <1>1, <1>2, <1>3, <1>4, TidyKept, PTL DEF Spec, FeedSpec, feed!Spec
=============================================================================
