----------------------------- MODULE SharedSync -----------------------------
(***************************************************************************)
(* The shared live-sync worker of one origin (sync-worker.js) and the      *)
(* pages that listen through it (stream.js): the worker holds one stream   *)
(* to the host for every document its pages have open, closes it and opens *)
(* it again when that set changes, resumes each document where it is, and  *)
(* repeats to a page that was hidden, or came later, what it has not seen. *)
(*                                                                         *)
(* Worker, pages and host only share queues: up and down of a port, q of   *)
(* the stream. A handler of the worker is one action over its record w.    *)
(* The host's own side of a stream is LiveHub; here it replays all that    *)
(* was missed, or says resync. A frame is its sequence number and its      *)
(* kind: a peer's page or a change on disk, of which a page needs the      *)
(* latest of each.                                                         *)
(***************************************************************************)
EXTENDS Picking, FiniteSets

CONSTANTS
    Pages, Docs, Ports,
    Kinds,        \* of a frame: a peer's page, a change on disk
    None,
    Placements,   \* which document each page shows, in this instance's origins
    Lively,       \* the documents frames are published for
    Caps,         \* maxSubs
    Happens,      \* events of the environment this instance lets happen
    MaxSeq,       \* MaxSeq[c]: bound on published frames where maxSubs is c
    MaxBehind,    \* bound on the messages a page has yet to read when an event comes
    MaxMoves      \* bound on broken streams, refusals and what pages do beyond opening

EventKinds == {"break", "hide", "exit", "kill", "close", "late", "slow", "throttled", "refused", "resync"}

\* The worker's records of a port, of a document, and of its stream.
Metas == [sub : BOOLEAN, visible : BOOLEAN, seen : Nat, since : Nat, cursored : BOOLEAN]
Subs == [since : Nat, opened : BOOLEAN, content : [Kinds -> Nat], needsResync : BOOLEAN,
         ports : SUBSET Ports]
EventTypes == {"open", "error", "cursor", "frame"}
Events == [t : EventTypes, doc : Docs \cup {None}, n : Nat, k : Kinds \cup {None}, r : BOOLEAN]
Streams == [docs : SUBSET Docs, asked : UNION {[ds -> Nat] : ds \in SUBSET Docs},
            joined : BOOLEAN, q : Seq(Events)]

ASSUME SyncAssumption ==
    /\ None \notin Pages /\ None \notin Docs /\ None \notin Ports /\ None \notin Kinds
    /\ None \notin Metas /\ None \notin Subs /\ None \notin Streams
    /\ IsFiniteSet(Kinds) /\ Kinds # {}
    /\ Placements \subseteq [Pages -> Docs] /\ Lively \subseteq Docs /\ Caps \subseteq Nat \ {0}
    /\ Happens \subseteq EventKinds
    /\ MaxSeq \in [Caps -> Nat] /\ MaxBehind \in Nat /\ MaxMoves \in Nat

VARIABLES
    of,       \* of[p]: the document page p shows
    cap,      \* maxSubs
    page,     \* page[p]: its SyncStream
    port,     \* port[q]: the messages between a page and the worker
    w,        \* the worker
    seq, log, \* the host's counter and what it published
    moves

vars == <<of, cap, page, port, w, seq, log, moves>>

Higher(m, n) == IF m > n THEN m ELSE n

-----------------------------------------------------------------------------
(* The worker. meta[q] is its record of a port, subs[d] of a document; an  *)
(* entry's index in the stream's URL matters only as which record it is,   *)
(* so stream.docs is the set of records the stream lists that still exist. *)

NoContent == [k \in Kinds |-> 0]

FreshMeta == [sub |-> FALSE, visible |-> TRUE, seen |-> 0, since |-> 0, cursored |-> FALSE]

FreshSub(since) == [since |-> since, opened |-> FALSE, content |-> NoContent,
                    needsResync |-> FALSE, ports |-> {}]

NewWorker == [state |-> "closed", subs |-> [d \in Docs |-> None], stream |-> None,
              rebuild |-> FALSE, reconnect |-> FALSE,
              meta |-> [q \in Ports |-> None], out |-> [q \in Ports |-> <<>>]]

DocOf(q) == of[port[q].page]
Open(x) == {d \in Docs : x.subs[d] # None}
Known(x) == {q \in Ports : x.meta[q] # None}
Latest(sub) == LET n == {sub.content[k] : k \in Kinds} IN CHOOSE m \in n : \A l \in n : l <= m

Msg(t, n, k, r) == [t |-> t, n |-> n, k |-> k, r |-> r]

\* out collects what one handler sends; it joins the ports' queues when it returns.
Send(x, q, m) == [x EXCEPT !.out[q] = Append(@, m)]
SendAll(x, qs, m) ==
    [x EXCEPT !.out = [q \in Ports |-> IF q \in qs THEN Append(@[q], m) ELSE @[q]]]

SetState(x, s) ==
    IF x.state = s THEN x
    ELSE SendAll([x EXCEPT !.state = s], Known(x), Msg("status", 0, s, FALSE))

\* Nobody opens the stream again without it.
BugDeleted(x, d) == [x EXCEPT !.subs[d] = None]

\* A deleted document is no longer listed: its record is not the next one's.
Trimmed(s, d) == IF s = None THEN None ELSE [s EXCEPT !.docs = @ \ {d}]

Deleted(x, d) ==
    [x EXCEPT !.subs[d] = None, !.rebuild = TRUE, !.stream = Trimmed(@, d)]

Unsubscribe(x, q) ==
    LET d == DocOf(q)
        x1 == [x EXCEPT !.meta[q].sub = FALSE, !.subs[d].ports = @ \ {q}]
    IN CASE x.meta[q] = None \/ ~x.meta[q].sub -> x
         [] x.meta[q] # None /\ x.meta[q].sub /\ x1.subs[d].ports = {} -> Deleted(x1, d)
         [] OTHER -> x1

DropPort(x, q) == [Unsubscribe(x, q) EXCEPT !.meta[q] = None]

Behind(x, q) ==
    LET sub == x.subs[DocOf(q)]
        m == x.meta[q]
    IN ~m.cursored /\ m.since > 0 /\ m.since < sub.since /\ sub.content = NoContent

SendCursors(x, qs, resync) ==
    [x EXCEPT !.meta = [q \in Ports |-> IF q \in qs THEN [@[q] EXCEPT !.cursored = TRUE] ELSE @[q]],
              !.out = [q \in Ports |->
                         IF q \in qs THEN Append(@[q], Msg("cursor", x.subs[DocOf(q)].since, None,
                                                          resync \/ Behind(x, q)))
                         ELSE @[q]]]

\* Only the newest frame is repeated.
BugMissed(sub, n) == {k \in Kinds : sub.content[k] > n /\ sub.content[k] = Latest(sub)}

\* The kinds whose last frame a port has not had.
Missed(sub, n) == {k \in Kinds : sub.content[k] > n}

\* Its missed frames, oldest first.
Repeats(sub, n) ==
    LET oldest == [ks \in (SUBSET Kinds) \ {{}} |->
                     CHOOSE k \in ks : \A l \in ks : sub.content[k] <= sub.content[l]]
    IN Strung(Missed(sub, n), oldest, [k \in Kinds |-> <<Msg("frame", sub.content[k], k, FALSE)>>])

DeliverLatest(x, q) ==
    LET sub == x.subs[DocOf(q)]
        m == x.meta[q]
    IN IF ~m.sub \/ ~m.visible THEN x
       ELSE [x EXCEPT !.meta[q].seen = Higher(@, Latest(sub)),
                      !.out[q] = @ \o Repeats(sub, m.seen)]

\* Before its stream is open, a document resumes from the lowest real position.
Lowered(sub, since) ==
    IF ~sub.opened /\ since > 0 /\ (sub.since = 0 \/ since < sub.since)
    THEN [sub EXCEPT !.since = since] ELSE sub

Subscribed(x, q, sub, since) ==
    [x EXCEPT !.subs[DocOf(q)] = [sub EXCEPT !.ports = @ \cup {q}],
              !.meta[q] = [@ EXCEPT !.sub = TRUE, !.seen = 0, !.since = since,
                                    !.cursored = FALSE]]

Subscribe(x0, q, since) ==
    LET x == Unsubscribe(x0, q)
        d == DocOf(q)
        sub == x.subs[d]
        x1 == Subscribed(x, q, Lowered(sub, since), since)
    IN CASE sub = None /\ Cardinality(Open(x)) >= cap -> Send(x, q, Msg("gone", 0, None, FALSE))
         [] sub = None /\ Cardinality(Open(x)) < cap ->
               [Subscribed(x, q, FreshSub(since), since) EXCEPT !.rebuild = TRUE]
         [] OTHER -> IF sub.opened
                     THEN DeliverLatest(SendCursors(x1, {q}, sub.needsResync), q) ELSE x1

Connected(x, q, visible) ==
    Send([x EXCEPT !.meta[q] = [FreshMeta EXCEPT !.visible = visible]], q,
         Msg("status", 0, x.state, FALSE))

\* A page's message. Its connection and its first two messages, its visibility and
\* its subscription, are one: a port without a subscription hears nothing but status.
Handled(x, q, m) ==
    CASE m.t = "connect"                          -> Subscribe(Connected(x, q, m.r), q, m.n)
      [] m.t # "connect" /\ x.meta[q] = None      -> x
      [] m.t = "unsubscribe" /\ x.meta[q] # None  -> Unsubscribe(x, q)
      [] m.t = "visible" /\ x.meta[q] # None      ->
            DeliverLatest([x EXCEPT !.meta[q].visible = TRUE], q)
      [] m.t = "hidden" /\ x.meta[q] # None       -> [x EXCEPT !.meta[q].visible = FALSE]

\* The positions in the URL of a new stream.
Asked(x) == [d \in Open(x) |-> x.subs[d].since]

\* The old stream goes, and what was on its way in it; a new one lists every document.
Rebuilt(x) ==
    LET x1 == [x EXCEPT !.rebuild = FALSE, !.reconnect = FALSE, !.stream = None]
    IN IF Open(x) = {} THEN SetState(x1, "closed")
       ELSE SetState([x1 EXCEPT !.stream = [docs |-> Open(x), asked |-> Asked(x),
                                            joined |-> FALSE, q |-> <<>>]], "connecting")

\* The stream is given up, and that is all.
BugBroken(x) == SetState([x EXCEPT !.stream = None], "connecting")

\* The browser would reconnect to the same URL, so the stream is given up instead.
Broken(x) == SetState([x EXCEPT !.stream = None, !.reconnect = TRUE], "connecting")

\* The host admits no such document: its pages are told, and the list goes without it.
Refused(x, d) ==
    LET qs == x.subs[d].ports
        x1 == [x EXCEPT !.meta = [q \in Ports |-> IF q \in qs THEN [@[q] EXCEPT !.sub = FALSE]
                                                  ELSE @[q]]]
    IN SendAll(Deleted(x1, d), qs, Msg("gone", 0, None, FALSE))

\* A cursor cannot prove that a later frame repairs both kinds.
Cursored(x, d, n, resync) ==
    LET sub == [x.subs[d] EXCEPT !.opened = TRUE, !.since = n,
                                 !.content = IF resync THEN NoContent ELSE @,
                                 !.needsResync = @ \/ resync]
    IN SendCursors([x EXCEPT !.subs[d] = sub], sub.ports, resync)

\* What a port has seen is noted only when it is repeated to it.
BugFramed(x, d, n, k) ==
    LET id == Higher(n, x.subs[d].since)
        qs == {q \in x.subs[d].ports : x.meta[q].visible}
    IN SendAll([x EXCEPT !.subs[d].since = id, !.subs[d].content[k] = id], qs,
               Msg("frame", n, k, FALSE))

Framed(x, d, n, k) ==
    LET id  == Higher(n, x.subs[d].since)
        qs  == {q \in x.subs[d].ports : x.meta[q].visible}
        x1  == [x EXCEPT !.subs[d] = [@ EXCEPT !.since = id, !.content[k] = id],
                         !.meta = [q \in Ports |-> IF q \in qs THEN [@[q] EXCEPT !.seen = id]
                                                   ELSE @[q]]]
    IN SendAll(x1, qs, Msg("frame", n, k, FALSE))

-----------------------------------------------------------------------------
(* Pages and ports. History: got[k], how far the page is complete for kind *)
(* k; last, the last frame on its port.                                    *)

NoPort == [page |-> None, closed |-> FALSE, up |-> <<>>, down |-> <<>>]

FreshPage == [st |-> "away", hidden |-> FALSE, since |-> 0, repair |-> FALSE, startup |-> TRUE,
              ready |-> FALSE, heard |-> FALSE, port |-> None, got |-> [k \in Kinds |-> 0], last |-> 0]

FreePorts == {q \in Ports : port[q].page = None}

Say(t) == Msg(t, 0, None, FALSE)

\* The page gives up its port: it says so, and hears no more of it.
HungUp(u) == [u EXCEPT !.closed = TRUE, !.down = <<>>, !.up = Append(@, Say("unsubscribe"))]

Closed(ps, p) ==
    LET q == page[p].port
    IN IF q = None THEN ps ELSE [ps EXCEPT ![q] = HungUp(@)]

\* A new port: the connection, with the page's visibility and its subscription.
Dialled(ps, p, q, visible) ==
    [ps EXCEPT ![q] = [page |-> p, closed |-> FALSE, down |-> <<>>,
                       up |-> <<Msg("connect", page[p].since, None, visible)>>]]

Told(p, t) ==
    IF page[p].port = None THEN port
    ELSE [port EXCEPT ![page[p].port].up = Append(@, Say(t))]

Init ==
    /\ of \in Placements /\ cap \in Caps
    /\ page = [p \in Pages |-> FreshPage]
    /\ port = [q \in Ports |-> NoPort]
    /\ w = NewWorker
    /\ seq = 1 /\ log = <<>>
    /\ moves = 0

pageVars == <<page, port>>
hostVars == <<seq, log>>

Move == moves < MaxMoves /\ moves' = moves + 1

Opening(p, q) == [page[p] EXCEPT !.st = "on", !.port = q, !.ready = FALSE, !.heard = FALSE,
                                       !.last = 0]

Start(p, q) ==
    /\ page[p].st = "away" /\ q \in FreePorts
    /\ page' = [page EXCEPT ![p] = Opening(p, q)]
    /\ port' = Dialled(port, p, q, ~page[p].hidden)
    /\ UNCHANGED <<of, cap, w, hostVars, moves>>

\* A page that is hidden says so; five seconds later it suspends itself.
Hide(p) ==
    /\ "hide" \in Happens /\ Move
    /\ page[p].st = "on" /\ ~page[p].hidden
    /\ page' = [page EXCEPT ![p].hidden = TRUE]
    /\ port' = Told(p, "hidden")
    /\ UNCHANGED <<of, cap, w, hostVars>>

Suspended(p) == [page[p] EXCEPT !.st = "suspended", !.repair = TRUE, !.ready = FALSE, !.port = None]

\* Hidden long enough, or pagehide.
Suspend(p) ==
    /\ page[p].st = "on"
    /\ page[p].hidden \/ "exit" \in Happens
    /\ Move
    /\ page' = [page EXCEPT ![p] = Suspended(p)]
    /\ port' = Closed(port, p)
    /\ UNCHANGED <<of, cap, w, hostVars>>

\* Shown again while it still has its port.
Show(p) ==
    /\ page[p].st = "on" /\ page[p].hidden
    /\ page' = [page EXCEPT ![p].hidden = FALSE]
    /\ port' = Told(p, "visible")
    /\ UNCHANGED <<of, cap, w, hostVars, moves>>

\* Shown again, or back from the page cache: it asks for its stream anew.
Resume(p, q) ==
    /\ page[p].st = "suspended" /\ q \in FreePorts
    /\ page' = [page EXCEPT ![p] = [Opening(p, q) EXCEPT !.hidden = FALSE]]
    /\ port' = Dialled(port, p, q, TRUE)
    /\ UNCHANGED <<of, cap, w, hostVars, moves>>

\* Whether the worker has lost the page's port: its pings go unanswered.
Lost(p) ==
    LET q == page[p].port
    IN page[p].st = "on" /\ w.meta[q] = None /\ port[q].up = <<>>

\* No answer to three pings, or none in time: the page opens another port.
Reopen(p, q) ==
    /\ page[p].st = "on" /\ q \in FreePorts
    /\ IF Lost(p) THEN UNCHANGED moves ELSE "late" \in Happens /\ Move
    /\ page' = [page EXCEPT ![p] = [Opening(p, q) EXCEPT !.repair = TRUE]]
    /\ port' = Dialled(Closed(port, p), p, q, ~page[p].hidden)
    /\ UNCHANGED <<of, cap, w, hostVars>>

\* Nothing heard in five seconds: the page opens a stream of its own.
GoDirect(p) ==
    /\ "slow" \in Happens /\ Move
    /\ page[p].st = "on" /\ ~page[p].heard
    /\ page' = [page EXCEPT ![p] = [@ EXCEPT !.st = "direct", !.repair = TRUE, !.port = None]]
    /\ port' = Closed(port, p)
    /\ UNCHANGED <<of, cap, w, hostVars>>

Close(p) ==
    /\ "close" \in Happens /\ Move
    /\ page[p].st \in {"on", "suspended"}
    /\ page' = [page EXCEPT ![p] = [@ EXCEPT !.st = "gone", !.ready = FALSE, !.port = None]]
    /\ port' = Closed(port, p)
    /\ UNCHANGED <<of, cap, w, hostVars>>

\* The tab dies without a word.
Kill(p) ==
    /\ "kill" \in Happens /\ Move
    /\ page[p].st = "on"
    /\ page' = [page EXCEPT ![p] = [@ EXCEPT !.st = "dead", !.ready = FALSE, !.port = None]]
    /\ port' = [port EXCEPT ![page[p].port].closed = TRUE, ![page[p].port].down = <<>>]
    /\ UNCHANGED <<of, cap, w, hostVars>>

-----------------------------------------------------------------------------
(* What a page does with the worker's messages.                            *)

\* Told to resync, or to check the version it was served, a page fetches the
\* document and is complete up to now.
Whole == [k \in Kinds |-> seq]

TakeMsg(p, m) ==
    CASE m.t = "status" -> [page[p] EXCEPT !.heard = TRUE,
               !.ready = CASE m.k = "open" -> TRUE [] m.k = "connecting" -> FALSE [] OTHER -> @]
      [] m.t = "cursor" -> [page[p] EXCEPT !.heard = TRUE, !.since = Higher(@, m.n),
               !.repair = FALSE, !.startup = FALSE,
               !.got = IF m.r \/ page[p].repair \/ page[p].startup THEN Whole ELSE @]
      [] m.t = "frame"  -> [page[p] EXCEPT !.heard = TRUE, !.since = Higher(@, m.n),
               !.got[m.k] = Higher(@, m.n), !.last = m.n]
      [] m.t = "gone"   -> [page[p] EXCEPT !.st = "gone", !.heard = TRUE, !.ready = FALSE,
               !.port = None]

Hear(p) ==
    LET q == page[p].port
        m == Head(port[q].down)
        ps == [port EXCEPT ![q].down = Tail(@)]
    IN /\ page[p].st = "on" /\ port[q].down # <<>>
       /\ page' = [page EXCEPT ![p] = TakeMsg(p, m)]
       /\ port' = IF m.t = "gone" THEN Closed(ps, p) ELSE ps
       /\ UNCHANGED <<of, cap, w, hostVars, moves>>

-----------------------------------------------------------------------------
(* The worker's handlers. What one sent joins the ports that still listen. *)

\* A status nobody read yet gives way to the next one right behind it.
Joined(down, out) ==
    IF down # <<>> /\ out # <<>> /\ down[Len(down)].t = "status" /\ out[1].t = "status"
    THEN SubSeq(down, 1, Len(down) - 1) \o out ELSE down \o out

Returns(x, ps) ==
    /\ w' = [x EXCEPT !.out = NewWorker.out]
    /\ port' = [q \in Ports |-> IF ps[q].closed THEN ps[q]
                                ELSE [ps[q] EXCEPT !.down = Joined(@, x.out[q])]]

Handle(q) ==
    /\ port[q].up # <<>>
    /\ Returns(Handled(w, q, Head(port[q].up)), [port EXCEPT ![q].up = Tail(@)])
    /\ UNCHANGED <<of, cap, page, hostVars, moves>>

\* The sweep, or the port's own end: a port nobody holds goes, and with it its
\* subscription. A live page's goes too when its pings were throttled.
Sweep(q) ==
    /\ port[q].page # None
    /\ \/ port[q].closed /\ port[q].up = <<>> /\ UNCHANGED moves
       \/ "throttled" \in Happens /\ ~port[q].closed /\ w.meta[q] # None /\ Move
    /\ Returns(DropPort(w, q), IF port[q].closed THEN [port EXCEPT ![q] = NoPort] ELSE port)
    /\ UNCHANGED <<of, cap, page, hostVars>>

Rebuild ==
    /\ w.rebuild \/ w.reconnect
    /\ Returns(Rebuilt(w), port)
    /\ UNCHANGED <<of, cap, page, hostVars, moves>>

\* The next event of the stream. One for a record that is gone does nothing.
TakeEvent(x, m) ==
    CASE m.t = "open"                             -> SetState(x, "open")
      [] m.t # "open" /\ m.doc \notin x.stream.docs -> x
      [] m.t = "error" /\ m.doc \in x.stream.docs  -> Refused(x, m.doc)
      [] m.t = "cursor" /\ m.doc \in x.stream.docs -> Cursored(x, m.doc, m.n, m.r)
      [] m.t = "frame" /\ m.doc \in x.stream.docs  -> Framed(x, m.doc, m.n, m.k)

Listen ==
    /\ w.stream # None /\ w.stream.q # <<>>
    /\ \A q \in Ports : Len(port[q].down) < MaxBehind
    /\ Returns(TakeEvent([w EXCEPT !.stream.q = Tail(@)], Head(w.stream.q)), port)
    /\ UNCHANGED <<of, cap, page, hostVars, moves>>

Break ==
    /\ "break" \in Happens /\ Move
    /\ w.stream # None
    /\ Returns(Broken(w), port)
    /\ UNCHANGED <<of, cap, page, hostVars>>

-----------------------------------------------------------------------------
(* The host: it registers every entry of a stream before it answers, writes *)
(* a cursor and a replay for each, and then what is published.             *)

Event(t, d, n, k, r) == [t |-> t, doc |-> d, n |-> n, k |-> k, r |-> r]

FramesOf(d, n) == Pick(log, {i \in DOMAIN log : log[i].doc = d /\ log[i].n > n})

\* A position of zero is no past: it starts at the counter.
Entry(d, how) ==
    LET since == w.stream.asked[d]
        base == IF since = 0 THEN seq ELSE since
    IN CASE how = "refused" -> <<Event("error", d, 0, None, FALSE)>>
         [] how = "resync"  -> <<Event("cursor", d, base, None, TRUE)>>
         [] OTHER           -> <<Event("cursor", d, base, None, FALSE)>> \o FramesOf(d, base)

Answers == {"replay"} \cup ({"refused", "resync"} \cap Happens)

Entries(how) ==
    LET some == [ds \in (SUBSET DOMAIN how) \ {{}} |-> CHOOSE d \in ds : TRUE]
    IN Strung(DOMAIN how, some, [d \in DOMAIN how |-> Entry(d, how[d])])

Accept ==
    /\ w.stream # None /\ ~w.stream.joined
    /\ \E how \in [DOMAIN w.stream.asked -> Answers] :
          /\ \A d \in DOMAIN how : how[d] = "resync" => w.stream.asked[d] > 0
          /\ IF \E d \in DOMAIN how : how[d] = "refused" THEN Move ELSE UNCHANGED moves
          /\ w' = [w EXCEPT !.stream.joined = TRUE,
                            !.stream.q = <<Event("open", None, 0, None, FALSE)>> \o Entries(how)]
    /\ UNCHANGED <<of, cap, pageVars, hostVars>>

Publish(d, k) ==
    LET f == Event("frame", d, seq + 1, k, FALSE)
    IN /\ seq < MaxSeq[cap]
       /\ seq' = seq + 1
       /\ log' = Append(log, f)
       /\ w' = IF w.stream # None /\ w.stream.joined /\ d \in DOMAIN w.stream.asked
               THEN [w EXCEPT !.stream.q = Append(@, f)] ELSE w
       /\ UNCHANGED <<of, cap, pageVars, moves>>

-----------------------------------------------------------------------------
Next ==
    \/ \E p \in Pages, q \in Ports : Start(p, q) \/ Resume(p, q) \/ Reopen(p, q)
    \/ \E p \in Pages : Hide(p) \/ Suspend(p) \/ Show(p) \/ GoDirect(p) \/ Close(p) \/ Kill(p)
    \/ \E p \in Pages : Hear(p)
    \/ \E q \in Ports : Handle(q) \/ Sweep(q)
    \/ Rebuild \/ Listen \/ Break
    \/ Accept
    \/ \E d \in Lively, k \in Kinds : Publish(d, k)

Spec == Init /\ [][Next]_vars

\* What happens by itself: messages arrive, timers fire, the host answers.
System ==
    \/ \E p \in Pages : Hear(p) \/ \E q \in Ports : Lost(p) /\ Reopen(p, q)
    \/ \E q \in Ports : Handle(q) \/ (port[q].closed /\ Sweep(q))
    \/ Rebuild \/ Listen \/ Accept

-----------------------------------------------------------------------------
(* Correctness.                                                            *)

States == {"closed", "connecting", "open"}
PageStates == {"away", "on", "suspended", "direct", "gone", "dead"}
StreamPages == [st : PageStates, hidden : BOOLEAN, since : Nat, repair : BOOLEAN,
                startup : BOOLEAN, ready : BOOLEAN, heard : BOOLEAN, port : Ports \cup {None},
                got : [Kinds -> Nat], last : Nat]

\* The worker's and the pages' records have their types, and a page that listens
\* through a port is the page of that port.
TypeOK ==
    /\ of \in Placements /\ cap \in Caps
    /\ w.state \in States /\ w.rebuild \in BOOLEAN /\ w.reconnect \in BOOLEAN
    /\ w.meta \in [Ports -> Metas \cup {None}]
    /\ w.subs \in [Docs -> Subs \cup {None}]
    /\ w.out = NewWorker.out
    /\ page \in [Pages -> StreamPages]
    /\ \A p \in Pages : page[p].st = "on" <=> page[p].port # None
    /\ \A p \in Pages : page[p].st = "on" =>
          port[page[p].port].page = p /\ ~port[page[p].port].closed

\* A document the worker holds is held by exactly the ports subscribed to it, and
\* by one at least; the cap bounds how many it holds.
SubsMatchPorts ==
    /\ \A d \in Docs :
          {q \in Known(w) : w.meta[q].sub /\ DocOf(q) = d} =
             (IF w.subs[d] = None THEN {} ELSE w.subs[d].ports)
    /\ \A d \in Open(w) : w.subs[d].ports # {}
    /\ Cardinality(Open(w)) <= cap

\* While no rebuild or reconnection is due, the stream lists what the worker holds
\* and there is none when it holds nothing.
StreamListsAll ==
    ~w.rebuild /\ ~w.reconnect =>
       IF w.stream = None THEN Open(w) = {} /\ w.state = "closed"
       ELSE w.stream.docs = Open(w) /\ DOMAIN w.stream.asked = Open(w)

\* The worker's books agree: ports, documents and the stream's list.
BooksAgree == TypeOK /\ SubsMatchPorts /\ StreamListsAll

\* The frames on their way to a page come in order, and none comes twice on a port.
NoRepeatOnPort ==
    \A p \in Pages : page[p].st = "on" =>
       LET down == port[page[p].port].down
           fs == {i \in DOMAIN down : down[i].t = "frame"}
       IN /\ \A i \in fs : down[i].n > page[p].last
          /\ \A i, j \in fs : i < j => down[i].n < down[j].n

\* The page is complete for every frame of its document.
Current(p) ==
    \A i \in DOMAIN log : log[i].doc = of[p] => page[p].got[log[i].k] >= log[i].n

\* Nothing is on its way to p or from it.
Idle(p) ==
    /\ page[p].st = "on" /\ ~Lost(p)
    /\ port[page[p].port].up = <<>> /\ port[page[p].port].down = <<>>
    /\ ~w.rebuild /\ ~w.reconnect
    /\ w.stream # None => w.stream.joined /\ w.stream.q = <<>>

\* A visible page that nothing is on its way to has the newest frame of each kind,
\* or was told to fetch the document after it; and it takes the stream for open.
VisibleIsCurrent ==
    \A p \in Pages : Idle(p) /\ ~page[p].hidden => Current(p) /\ page[p].ready

\* The system stops by itself only when every visible page is served, and the worker
\* holds no document but those of its pages.
RestsWhenServed ==
    ~ENABLED System =>
       /\ \A p \in Pages : page[p].st = "on" /\ ~page[p].hidden => Current(p) /\ page[p].ready
       /\ \A d \in Open(w) : \E p \in Pages : page[p].st = "on" /\ of[p] = d
=============================================================================
