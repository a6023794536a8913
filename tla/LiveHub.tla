------------------------------ MODULE LiveHub ------------------------------
(***************************************************************************)
(* Live sync of one document: the hub that fans events out to the tabs     *)
(* that have it open, its bounded replay buckets and resume cursors, the   *)
(* coordinator that moves hub membership and the watcher's reference       *)
(* together, and the handlers that write each stream.                      *)
(*                                                                         *)
(* A hub call is one action, because the hub's mutex covers all of it. A   *)
(* publish only collects the subscribers whose queue was full; the         *)
(* coordinator removes them later, one call at a time, and each stream's   *)
(* own handler ends when it notices, so those are actions of their own.    *)
(*                                                                         *)
(* Other documents show only as Forget (the global caps drop this path's   *)
(* frames) and DropInactive. Time shows only as what it makes happen. A    *)
(* generation number is compared only inside one hub call and the cursors  *)
(* of a path go when it changes, so it is kept as "rolled in this call".   *)
(*                                                                         *)
(* A definition named Bug... is a plausible mistake in the one after it;   *)
(* nothing uses it. PROJECT.json says which property each one breaks.      *)
(***************************************************************************)
EXTENDS Picking, FiniteSets

CONSTANTS
    Tabs,        \* pages that have the document open
    SavedTabs,   \* those on the saved lane; the others are on the live lane
    Streams,     \* the server's connections
    Inos,        \* file identities the file system can hand out
    None,
    BucketCap,   \* perIncarnationMaxFrames
    QueueSize,   \* subQueueSize
    Scenarios    \* what a behaviour may hold: one of them is chosen at the start

Lanes == {"live", "saved"}
LaneOf == [t \in Tabs |-> IF t \in SavedTabs THEN "saved" ELSE "live"]

EventKinds == {"relay", "saved", "external", "big", "forget", "expire",
               "replace", "absent", "unreadable", "lease", "revoke", "shutdown", "restart", "early"}

ASSUME HubAssumption ==
    /\ SavedTabs \subseteq Tabs
    /\ None \notin Tabs /\ None \notin Streams /\ None \notin Inos
    /\ None \notin [base : Nat, away : BOOLEAN] /\ None \notin [base : Nat, resync : BOOLEAN]
    /\ LET Bucket == [frames : Seq(Nat), dropped : Nat]
       IN None \notin [anchor : Inos \cup {None}, live : Bucket, saved : Bucket]
    /\ BucketCap \in Nat \ {0} /\ QueueSize \in Nat \ {0}
    /\ IsFiniteSet(Streams)
    /\ \A sc \in Scenarios :
          /\ sc.happens \subseteq EventKinds /\ sc.shared \subseteq Tabs
          /\ sc.maxSeq \in Nat \ {0} /\ sc.maxDrops \in Nat

VARIABLES
    plan,     \* the scenario of this behaviour
    seq,      \* the hub's one broadcast counter
    stage,    \* "open", "hub" (hub.shutdown ran), "all" (watcher.shutdown too)
    inc,      \* the path's incarnation, None when the hub holds none
    cursors,  \* cursors[t]: the resume cursor of t's resume id, None when absent
    stream,   \* stream[s]: one connection, its subscriber and its queue
    refs,     \* the watcher's reference count for the path
    leases,   \* wire handlers' leases among refs
    ino,      \* identity of the file at the path, None while there is no file
    conn,     \* conn[t]: the stream t is connected to, None while it is not
    pos,      \* pos[t]: t's last event id, 0 before the first
    seen,     \* seen[t]: t's content is complete up to here, 0 before it joined
    log,      \* history: log[l] the sequence numbers published on lane l
    replaced, \* history: seq when the file now there came from outside, 0 if it did not
    drops     \* broken connections so far

hubVars  == <<seq, stage, inc, cursors>>
tabVars  == <<conn, pos, seen>>
fileVars == <<ino, replaced>>
vars == <<plan, seq, stage, inc, cursors, stream, refs, leases, ino, conn, pos, seen, log,
          replaced, drops>>

\* The environment's events, the tabs behind a shared stream, which carry no resume id,
\* and the bounds on published events and on broken connections.
Happens    == plan.happens
SharedTabs == plan.shared
MaxSeq     == plan.maxSeq
MaxDrops   == plan.maxDrops

-----------------------------------------------------------------------------
(* Replay buckets and incarnations. A frame is its sequence number.        *)

EmptyBucket == [frames |-> <<>>, dropped |-> 0]
FreshInc == [anchor |-> None, live |-> EmptyBucket, saved |-> EmptyBucket]
Cleared(i) == [i EXCEPT !.live = EmptyBucket, !.saved = EmptyBucket]
NoCursors == [t \in Tabs |-> None]

Ensured(i) == IF i = None THEN FreshInc ELSE i

Higher(m, n) == IF m > n THEN m ELSE n

\* The oldest frame goes without its mark.
BugDropOldest(b) == [b EXCEPT !.frames = Tail(b.frames)]

\* dropped is the only sign left of a frame that replay can no longer return.
DropOldest(b) == [frames  |-> Tail(b.frames), dropped |-> Higher(b.dropped, Head(b.frames))]

\* A frame is kept for replay; one too large to keep leaves its mark instead.
Retain(b, n, big) ==
    IF big THEN [b EXCEPT !.dropped = Higher(b.dropped, n)]
    ELSE LET grown == [b EXCEPT !.frames = Append(b.frames, n)]
         IN IF Len(grown.frames) > BucketCap THEN DropOldest(grown) ELSE grown

\* What a probe of the file can answer: its identity, or nothing.
Probes == {ino} \cup (IF "unreadable" \in Happens THEN {None} ELSE {})

\* A probe rolls the generation when the file is no longer the one the frames are for.
Rolls(i, probe) == i.anchor # None /\ i.anchor # probe

\* A different file is adopted as if it were the one we knew.
BugObserved(i, probe) == [Ensured(i) EXCEPT !.anchor = probe]

Observed(i, probe) ==
    LET now == Ensured(i)
    IN [(IF Rolls(now, probe) THEN Cleared(now) ELSE now) EXCEPT !.anchor = probe]

CursorsAfter(i, probe) == IF Rolls(Ensured(i), probe) THEN NoCursors ELSE cursors

-----------------------------------------------------------------------------
(* Streams. sub: in the hub's delivery set; stopped: streamEnd closed;     *)
(* removed: the coordinator has dropped it; evicting: some publisher still *)
(* has to call the coordinator for it; cursor, out: what the handler       *)
(* writes first, the cursor frame and the replay slice.                    *)

FreeStream == [st |-> "free", tab |-> None, sub |-> FALSE, stopped |-> FALSE,
               removed |-> FALSE, evicting |-> FALSE, cursor |-> None,
               out |-> <<>>, queue |-> <<>>]

Subscribed(str) == {s \in Streams : str[s].sub}
Held(str) == {s \in Streams : str[s].st # "free" /\ ~str[s].removed}

\* expireLocked reaps an incarnation nothing holds: no subscriber, frame or cursor.
Idle == /\ Subscribed(stream) = {}
        /\ inc # None => inc.live.frames = <<>> /\ inc.saved.frames = <<>>
        /\ cursors = NoCursors
Swept == IF Idle THEN None ELSE inc

\* A full queue loses the frame and keeps the subscriber.
BugOffer(x, n) == IF Len(x.queue) < QueueSize THEN [x EXCEPT !.queue = Append(x.queue, n)] ELSE x

\* A full queue takes the subscriber out of the delivery set and unblocks its writer.
Offer(x, n) == IF Len(x.queue) < QueueSize
               THEN [x EXCEPT !.queue = Append(x.queue, n)]
               ELSE [x EXCEPT !.sub = FALSE, !.stopped = TRUE, !.evicting = TRUE]

Enqueued(str, l, n) ==
    [s \in Streams |-> IF str[s].sub /\ LaneOf[str[s].tab] = l THEN Offer(str[s], n)
                                                               ELSE str[s]]

-----------------------------------------------------------------------------
Init ==
    /\ plan \in Scenarios
    /\ seq = 1 /\ stage = "open"
    /\ inc = None /\ cursors = NoCursors
    /\ stream = [s \in Streams |-> FreeStream]
    /\ refs = 0 /\ leases = 0
    /\ ino \in Inos /\ replaced = 0
    /\ conn = [t \in Tabs |-> None]
    /\ pos = [t \in Tabs |-> 0] /\ seen = [t \in Tabs |-> 0]
    /\ log = [l \in Lanes |-> {}]
    /\ drops = 0

(* hub.add and watcher.watch, one critical section of the coordinator.     *)

\* The watcher refuses new references once shut down.
Watched == IF stage = "all" THEN refs ELSE refs + 1

Opened(t, cursor, out) == [FreeStream EXCEPT !.st = "open", !.tab = t,
                                             !.cursor = cursor, !.out = out]

\* Where t resumes. A tab that claims an earlier position is the only kind that can be behind.
ResumePoint(t, crs) ==
    CASE pos[t] \in 1 .. seq -> [from |-> pos[t], resumed |-> TRUE]
      [] pos[t] \notin 1 .. seq /\ t \notin SharedTabs /\ crs[t] # None ->
            [from |-> crs[t].base, resumed |-> TRUE]
      [] OTHER -> [from |-> seq, resumed |-> FALSE]

\* t's cursor while its stream is open. An existing baseline is never lowered or raised.
Activated(t, crs, from) ==
    IF t \in SharedTabs THEN crs
    ELSE [crs EXCEPT ![t] = [base |-> IF crs[t] = None THEN from ELSE crs[t].base,
                             away |-> FALSE]]

\* Replay starts one frame early.
BugReplay(b, from) == Pick(b.frames, {i \in DOMAIN b.frames : b.frames[i] >= from})

Replay(b, from) == Pick(b.frames, {i \in DOMAIN b.frames : b.frames[i] > from})

\* Only the drop mark is asked, not whether the record is the one the tab left.
BugBehind(b, from, same) == from < b.dropped

Behind(b, from, same) == ~same \/ from < b.dropped

Connect(t, s, probe) ==
    LET held == Swept
        now  == Observed(held, probe)
        crs  == CursorsAfter(held, probe)
        at   == ResumePoint(t, crs)
        kept == now[LaneOf[t]]
        same == held # None /\ ~Rolls(held, probe)
    IN /\ stage = "open"
       /\ conn[t] = None /\ stream[s].st = "free"
       /\ ino # None
       /\ inc' = now
       /\ cursors' = Activated(t, crs, at.from)
       /\ stream' = [stream EXCEPT ![s] =
              [Opened(t, [base |-> at.from, resync |-> at.resumed /\ Behind(kept, at.from, same)],
                      Replay(kept, at.from)) EXCEPT !.sub = TRUE]]
       /\ refs' = Watched
       /\ conn' = [conn EXCEPT ![t] = s]
       /\ seen' = [seen EXCEPT ![t] = IF @ = 0 /\ t \notin SharedTabs THEN at.from ELSE @]
       /\ UNCHANGED <<seq, stage, leases, fileVars, pos, log, drops, plan>>

\* The registration goes through although the hub is closed.
BugRefuse(s, t) ==
    /\ stream' = [stream EXCEPT ![s] = [Opened(t, [base |-> seq, resync |-> FALSE], <<>>)
                                          EXCEPT !.sub = TRUE]]
    /\ refs' = Watched

\* A closed hub stops the stream at once; the watch reference is raised all the same.
Refuse(s, t) ==
    /\ stream' = [stream EXCEPT ![s] = [Opened(t, [base |-> seq, resync |-> FALSE], <<>>)
                                          EXCEPT !.stopped = TRUE]]
    /\ refs' = Watched

ConnectClosed(t, s) ==
    /\ stage # "open"
    /\ conn[t] = None /\ stream[s].st = "free"
    /\ ino # None
    /\ Refuse(s, t)
    /\ inc' = Swept
    /\ conn' = [conn EXCEPT ![t] = s]
    /\ UNCHANGED <<seq, stage, cursors, leases, fileVars, pos, seen, log, drops, plan>>

-----------------------------------------------------------------------------
(* The end of a stream.                                                    *)

Unwatched(n) == IF n = 0 THEN 0 ELSE n - 1

\* hub.remove: leaving starts the cursor's TTL, if the subscriber was still a member.
HubRemoved(s, crs) ==
    LET t == stream[s].tab
    IN IF stream[s].sub /\ t \notin SharedTabs /\ crs[t] # None
       THEN [crs EXCEPT ![t].away = TRUE]
       ELSE crs

\* The watch reference goes at every call.
BugRemove(s) ==
    /\ refs' = Unwatched(refs)
    /\ cursors' = HubRemoved(s, cursors)

\* streamCoordinator.remove takes effect once for a subscriber.
Remove(s) ==
    IF stream[s].removed
    THEN UNCHANGED <<refs, cursors>>
    ELSE /\ refs' = Unwatched(refs)
         /\ cursors' = HubRemoved(s, cursors)

Removed(x) == [x EXCEPT !.sub = FALSE, !.stopped = TRUE, !.removed = TRUE]

\* The writer looks at the hub's end only, not at its own.
BugOver(s) ==
    \/ conn[stream[s].tab] # s
    \/ stream[s].cursor = None /\ stream[s].out = <<>> /\ stage # "open"

\* The client is gone, or nothing is left to write before the writer looks at
\* its own end and the hub's.
Over(s) ==
    \/ conn[stream[s].tab] # s
    \/ /\ stream[s].cursor = None /\ stream[s].out = <<>>
       /\ stream[s].stopped \/ stage # "open"

\* The handler returns and its deferred remove runs.
Finish(s) ==
    /\ stream[s].st = "open"
    /\ Over(s)
    /\ Remove(s)
    /\ stream' = [stream EXCEPT ![s] =
                     IF @.evicting THEN [Removed(@) EXCEPT !.st = "gone"] ELSE FreeStream]
    /\ conn' = [conn EXCEPT ![stream[s].tab] = IF @ = s THEN None ELSE @]
    /\ UNCHANGED <<seq, stage, inc, leases, fileVars, pos, seen, log, drops, plan>>

\* The publisher that could not deliver to s has the coordinator remove it.
Evict(s) ==
    /\ stream[s].evicting
    /\ Remove(s)
    /\ stream' = [stream EXCEPT ![s] =
                     IF @.st = "gone" THEN FreeStream ELSE [Removed(@) EXCEPT !.evicting = FALSE]]
    /\ UNCHANGED <<seq, stage, inc, leases, fileVars, tabVars, log, drops, plan>>

\* DropSubscribers, at revocation: every writer is stopped, membership stays
\* until the handlers unwind.
DropSubscribers ==
    /\ "revoke" \in Happens
    /\ Subscribed(stream) # {}
    /\ stream' = [s \in Streams |-> [stream[s] EXCEPT !.stopped = @ \/ stream[s].sub]]
    /\ UNCHANGED <<hubVars, refs, leases, fileVars, tabVars, log, drops, plan>>

\* The connection breaks; the server's writer has yet to find out. "early": it
\* may break before the cursor frame is out.
Drop(t) ==
    /\ conn[t] # None
    /\ "early" \in Happens \/ stream[conn[t]].cursor = None
    /\ drops < MaxDrops
    /\ conn' = [conn EXCEPT ![t] = None]
    /\ drops' = drops + 1
    /\ UNCHANGED <<hubVars, stream, refs, leases, fileVars, pos, seen, log, plan>>

-----------------------------------------------------------------------------
(* Writing a stream: the cursor frame, the replay slice, then the queue.   *)
(* What is written after the connection broke reaches nobody.              *)

Reaches(s) == conn[stream[s].tab] = s

\* The cursor frame carries the baseline as the event id; told to resync, the
\* page fetches the document and holds all of it.
WriteCursor(s) ==
    LET t == stream[s].tab
        c == stream[s].cursor
    IN /\ stream[s].st = "open" /\ c # None
       /\ stream' = [stream EXCEPT ![s].cursor = None]
       /\ IF Reaches(s)
          THEN /\ pos' = [pos EXCEPT ![t] = c.base]
               /\ seen' = [seen EXCEPT ![t] = IF c.resync THEN seq
                                              ELSE IF @ = 0 THEN c.base ELSE @]
          ELSE UNCHANGED <<pos, seen>>
       /\ UNCHANGED <<hubVars, refs, leases, fileVars, conn, log, drops, plan>>

\* A client keeps the highest number it applied and ignores a frame at or below it.
Receive(s, n) ==
    LET t == stream[s].tab
    IN IF Reaches(s)
       THEN /\ pos' = [pos EXCEPT ![t] = n]
            /\ seen' = [seen EXCEPT ![t] = Higher(@, n)]
       ELSE UNCHANGED <<pos, seen>>

\* The live queue is written before the replay slice is out.
BugNextOut(x) == IF x.queue # <<>> THEN "queue" ELSE "out"

NextOut(x) == IF x.out # <<>> THEN "out" ELSE "queue"

WriteFrame(s) ==
    LET from == NextOut(stream[s])
    IN /\ stream[s].st = "open" /\ stream[s].cursor = None
       /\ stream[s][from] # <<>>
       /\ Receive(s, Head(stream[s][from]))
       /\ stream' = [stream EXCEPT ![s][from] = Tail(@)]
       /\ UNCHANGED <<hubVars, refs, leases, fileVars, conn, log, drops, plan>>

-----------------------------------------------------------------------------
(* Publishing: number, retain, offer, in one hold of the hub's mutex.      *)

\* A publish on lane l: the incarnation is made when there is none, the disk not asked.
Publish(l, big) ==
    /\ seq < MaxSeq
    /\ seq' = seq + 1
    /\ inc' = [Ensured(inc) EXCEPT ![l] = Retain(@, seq', big)]
    /\ stream' = Enqueued(stream, l, seq')
    /\ log' = [log EXCEPT ![l] = @ \cup {seq'}]
    /\ UNCHANGED <<stage, cursors, refs, leases, fileVars, tabVars, drops, plan>>

Sizes == {FALSE} \cup (IF "big" \in Happens THEN {TRUE} ELSE {})

\* relay and notifyWarning; neither looks whether the hub is closed.
Relay == "relay" \in Happens /\ \E big \in Sizes : Publish("live", big)

BroadcastSaved == "saved" \in Happens /\ \E big \in Sizes : Publish("saved", big)

\* publishExternalChange: the file is observed, then both lanes are told, the
\* live one first. The watcher calls it, and a data write, watched or not.
PublishExternal(probe) ==
    /\ "external" \in Happens
    /\ stage = "open" /\ ino # None
    /\ seq + 2 <= MaxSeq
    /\ seq' = seq + 2
    /\ \E big \in Sizes :
          inc' = [Observed(inc, probe) EXCEPT !.live = Retain(@, seq + 1, big),
                                              !.saved = Retain(@, seq + 2, big)]
    /\ cursors' = CursorsAfter(inc, probe)
    /\ stream' = Enqueued(Enqueued(stream, "live", seq + 1), "saved", seq + 2)
    /\ log' = [live |-> log.live \cup {seq + 1}, saved |-> log.saved \cup {seq + 2}]
    /\ UNCHANGED <<stage, refs, leases, fileVars, tabVars, drops, plan>>

-----------------------------------------------------------------------------
(* The file behind the path. An anchor keeps its identity from being       *)
(* handed out again; so does the file while it is there.                   *)

FreeInos == Inos \ {ino, IF inc = None THEN None ELSE inc.anchor}

\* A save, restore or id injection: rename, then acceptServerReplacement under
\* the same file lock. Asked before the probe, the hub may not care.
ServerReplace(i, probe) ==
    /\ "replace" \in Happens
    /\ ino # None /\ i \in FreeInos
    /\ probe \in (Probes \ {ino}) \cup {i}
    /\ ino' = i
    /\ inc' = IF inc = None THEN None ELSE [inc EXCEPT !.anchor = probe]
    /\ replaced' = 0
    /\ UNCHANGED <<seq, stage, cursors, stream, refs, leases, tabVars, log, drops, plan>>

\* Another program renames its own file over the path.
ExtReplace(i) ==
    /\ "replace" \in Happens
    /\ ino # None /\ i \in FreeInos
    /\ ino' = i
    /\ replaced' = seq
    /\ UNCHANGED <<hubVars, stream, refs, leases, tabVars, log, drops, plan>>

ExtDelete ==
    /\ "absent" \in Happens
    /\ ino # None
    /\ ino' = None
    /\ UNCHANGED <<hubVars, stream, refs, leases, replaced, tabVars, log, drops, plan>>

ExtCreate(i) ==
    /\ "absent" \in Happens
    /\ ino = None /\ i \in FreeInos
    /\ ino' = i
    /\ replaced' = seq
    /\ UNCHANGED <<hubVars, stream, refs, leases, tabVars, log, drops, plan>>

\* The watcher saw no file, which may be back by the time the hub is told. It
\* sees none in the gap of an atomic replacement too. The buckets go and their
\* drop marks with them; the anchor stays.
MarkAbsent ==
    /\ "absent" \in Happens
    /\ inc # None
    /\ inc' = Cleared(inc)
    /\ cursors' = IF inc.anchor = None THEN NoCursors ELSE cursors
    /\ UNCHANGED <<seq, stage, stream, refs, leases, fileVars, tabVars, log, drops, plan>>

-----------------------------------------------------------------------------
(* Bounds on what the hub keeps.                                           *)

Aged(b, k) == [frames  |-> SubSeq(b.frames, k + 1, Len(b.frames)),
               dropped |-> IF k = 0 THEN b.dropped ELSE Higher(b.dropped, b.frames[k])]

\* dropGlobalOldestLocked takes this path's oldest frame of lane l.
Forget(l) ==
    /\ "forget" \in Happens
    /\ inc # None /\ inc[l].frames # <<>>
    /\ inc' = [inc EXCEPT ![l] = DropOldest(@)]
    /\ UNCHANGED <<seq, stage, cursors, stream, refs, leases, fileVars, tabVars, log, drops, plan>>

\* expireLocked: frames and left cursors past their TTL, then the reaping of an
\* incarnation nothing holds any more.
Expire ==
    /\ "expire" \in Happens
    /\ inc # None
    /\ \E k \in [Lanes -> 0 .. BucketCap],
          out \in SUBSET {t \in Tabs : cursors[t] # None /\ cursors[t].away} :
          /\ \A l \in Lanes : k[l] <= Len(inc[l].frames)
          /\ LET aged == [anchor |-> inc.anchor, live |-> Aged(inc.live, k["live"]),
                          saved |-> Aged(inc.saved, k["saved"])]
                 left == [t \in Tabs |-> IF t \in out THEN None ELSE cursors[t]]
             IN /\ cursors' = left
                /\ inc' = IF /\ Subscribed(stream) = {} /\ left = NoCursors
                             /\ aged.live.frames = <<>> /\ aged.saved.frames = <<>>
                          THEN None
                          ELSE aged
    /\ UNCHANGED <<seq, stage, stream, refs, leases, fileVars, tabVars, log, drops, plan>>

\* The inactive-incarnation cap: all of it goes, cursors too.
DropInactive ==
    /\ "expire" \in Happens
    /\ inc # None /\ Subscribed(stream) = {}
    /\ inc' = None /\ cursors' = NoCursors
    /\ UNCHANGED <<seq, stage, stream, refs, leases, fileVars, tabVars, log, drops, plan>>

-----------------------------------------------------------------------------
(* Wire leases, shutdown, and the next run of the program.                 *)

Lease ==
    /\ "lease" \in Happens
    /\ leases = 0
    /\ leases' = 1 /\ refs' = Watched
    /\ UNCHANGED <<hubVars, stream, fileVars, tabVars, log, drops, plan>>

Unlease ==
    /\ leases = 1
    /\ leases' = 0 /\ refs' = Unwatched(refs)
    /\ UNCHANGED <<hubVars, stream, fileVars, tabVars, log, drops, plan>>

HubShutdown ==
    /\ "shutdown" \in Happens
    /\ stage = "open"
    /\ stage' = "hub"
    /\ inc' = None /\ cursors' = NoCursors
    /\ stream' = [s \in Streams |-> [stream[s] EXCEPT !.stopped = @ \/ stream[s].sub,
                                                      !.sub = FALSE]]
    /\ UNCHANGED <<seq, refs, leases, fileVars, tabVars, log, drops, plan>>

WatcherShutdown ==
    /\ stage = "hub"
    /\ stage' = "all"
    /\ refs' = 0
    /\ UNCHANGED <<seq, inc, cursors, stream, leases, fileVars, tabVars, log, drops, plan>>

\* A new process numbers above everything the last one handed out.
Restart ==
    /\ "restart" \in Happens
    /\ seq < MaxSeq /\ seq' = seq + 1
    /\ stage' = "open"
    /\ inc' = None /\ cursors' = NoCursors
    /\ stream' = [s \in Streams |-> FreeStream]
    /\ refs' = 0 /\ leases' = 0
    /\ conn' = [t \in Tabs |-> None]
    /\ UNCHANGED <<fileVars, pos, seen, log, drops, plan>>

Next ==
    \/ \E t \in Tabs, s \in Streams : \/ \E probe \in Probes : Connect(t, s, probe)
                                      \/ ConnectClosed(t, s)
    \/ \E t \in Tabs : Drop(t)
    \/ \E s \in Streams : WriteCursor(s) \/ WriteFrame(s) \/ Finish(s) \/ Evict(s)
    \/ DropSubscribers
    \/ Relay \/ BroadcastSaved
    \/ \E probe \in Probes : PublishExternal(probe)
    \/ \E i \in Inos : ExtReplace(i) \/ ExtCreate(i)
    \/ \E i \in Inos, probe \in Inos \cup {None} : ServerReplace(i, probe)
    \/ ExtDelete \/ MarkAbsent
    \/ \E l \in Lanes : Forget(l)
    \/ Expire \/ DropInactive
    \/ Lease \/ Unlease
    \/ HubShutdown \/ WatcherShutdown \/ Restart

Spec == Init /\ [][Next]_vars

(* The writers' goroutines run and have a write deadline, a publisher calls *)
(* the coordinator before it returns, and a browser reopens its EventSource. *)
Fairness ==
    /\ \A s \in Streams : /\ WF_vars(WriteCursor(s)) /\ WF_vars(WriteFrame(s))
                          /\ WF_vars(Finish(s)) /\ WF_vars(Evict(s))
    /\ \A t \in Tabs : WF_vars(\E s \in Streams, probe \in Probes : Connect(t, s, probe))

FairSpec == Spec /\ Fairness

-----------------------------------------------------------------------------
(* Properties.                                                             *)

Numbers == 0 .. MaxSeq
BucketType == [frames : Seq(Numbers), dropped : Numbers]
IncType == [anchor : Inos \cup {None}, live : BucketType, saved : BucketType]
StreamType == [st : {"free", "open", "gone"}, tab : Tabs \cup {None}, sub : BOOLEAN,
               stopped : BOOLEAN, removed : BOOLEAN, evicting : BOOLEAN,
               cursor : [base : Numbers, resync : BOOLEAN] \cup {None},
               out : Seq(Numbers), queue : Seq(Numbers)]

\* Types, and the caps: no bucket or queue outgrows its limit, and only an open
\* stream is in the delivery set.
TypeOK ==
    /\ plan \in Scenarios /\ seq \in Numbers /\ stage \in {"open", "hub", "all"}
    /\ inc \in IncType \cup {None}
    /\ inc # None => \A l \in Lanes : Len(inc[l].frames) <= BucketCap
    /\ cursors \in [Tabs -> [base : Numbers, away : BOOLEAN] \cup {None}]
    /\ stream \in [Streams -> StreamType]
    /\ \A s \in Streams : /\ Len(stream[s].queue) <= QueueSize
                          /\ stream[s].sub => stream[s].st = "open"
    /\ refs \in Nat /\ leases \in {0, 1}
    /\ ino \in Inos \cup {None} /\ replaced \in Numbers
    /\ conn \in [Tabs -> Streams \cup {None}]
    /\ pos \in [Tabs -> Numbers] /\ seen \in [Tabs -> Numbers]
    /\ log \in [Lanes -> SUBSET Numbers]
    /\ drops \in 0 .. MaxDrops

\* What a connection still has to write only goes up, and starts above the
\* baseline of its cursor frame: a frame that arrived during setup is newer than
\* the whole replay slice.
StreamInOrder ==
    \A s \in Streams :
        LET line == stream[s].out \o stream[s].queue
        IN /\ \A i, j \in DOMAIN line : i < j => line[i] < line[j]
           /\ stream[s].cursor # None => \A i \in DOMAIN line : line[i] > stream[s].cursor.base

\* The state of the hub hangs together: types and caps, and every connection's
\* line of frames in order behind its cursor frame.
WellFormed == TypeOK /\ StreamInOrder

Missed(t) == {n \in log[LaneOf[t]] : n > seen[t]}

\* t is being served by s and has not just been told to fetch the page.
ServedBy(t, s) == /\ conn[t] = s
                  /\ stream[s].st = "open" /\ ~stream[s].stopped
                  /\ stream[s].cursor # None => ~stream[s].cursor.resync

Coming(s) == Elems(stream[s].out) \cup Elems(stream[s].queue)

\* The replay contract: whatever a connected tab still lacks of its lane is on
\* its way to it, unless it is told to fetch the page. No reconnect, eviction,
\* frame too large to retain or full bucket makes a silent gap (add, enqueue,
\* retainLocked and dropOldestFromBucket together).
NoSilentGap ==
    \A t \in Tabs, s \in Streams :
        ServedBy(t, s) /\ seen[t] > 0 => Missed(t) \subseteq Coming(s)

\* Even when frames, cursors and the whole incarnation have aged out, a tab that
\* comes back ends with the newest event of its lane or is told to fetch the page.
\* An absence of the file breaks this too (MarkAbsent), so it is left to NoSilentGap;
\* it holds of one tab at a time whose connections last until their cursor frame.
LatestReached ==
    "absent" \notin Happens => \A t \in Tabs, s \in Streams :
        ServedBy(t, s) /\ seen[t] > 0 =>
            \A n \in Missed(t) : (\A m \in Missed(t) : m <= n) => n \in Coming(s)

\* Until the watcher is shut down its reference count is exactly the streams the
\* coordinator still holds and the leases: an eviction racing the handler's own
\* deferred remove drops one reference, not two and not none.
RefsBalanced == stage # "all" => refs = Cardinality(Held(stream)) + leases

\* A closed hub delivers to nobody, and every connection it still has is stopped,
\* those that arrive after the close included.
ClosedHasNoSubs ==
    stage # "open" => /\ Subscribed(stream) = {}
                      /\ \A s \in Streams : stream[s].st = "open" => stream[s].stopped

\* No frame of the file that was at the path before another program replaced it
\* is replayed to a page opened on the new one: the file is observed before
\* replay is selected (add, observeIdentityLocked, the anchor that keeps its inode).
NoForeignReplay ==
    [][\A s \in Streams :
          stream[s].st = "free" /\ stream'[s].st = "open" =>
              \A n \in Elems(stream'[s].out) : n > replaced]_vars

\* Each tab sees its lane in order and skips an event only when told to.
feed == INSTANCE Feed WITH now <- seq
FeedSpec == feed!Spec

\* Once events and failures stop, every tab that has joined has caught up.
CaughtUp == \A t \in Tabs : <>[](seen[t] > 0 => Missed(t) = {})

\* A stopped stream ends: eviction and revocation free the connection.
StoppedEnds == \A s \in Streams : stream[s].stopped ~> stream[s].st = "free"
=============================================================================
