-------------------------------- MODULE CurrentProofs --------------------------------
EXTENDS SharedSyncProofs

-----------------------------------------------------------------------------
(* What a visible page has is current, or is on its way to it. The last    *)
(* invariant of the three says for every page on a port what is on its way *)
(* and from where: its visibility from the page, an open stream's status   *)
(* from the worker, the first cursor from the host, and every frame from   *)
(* the host, the stream's queue, the worker's records or the port's queue. *)

\* A stream that was answered has said so, or will.
Answering(x) ==
    x.stream # None /\ x.stream.joined =>
       x.state = "open" \/ \E e \in Elems(x.stream.q) : e.t = "open"

\* Whoever said that it is hidden says later that it is visible.
Reappears(up) ==
    \A i \in DOMAIN up : up[i].t = "hidden" => \E j \in DOMAIN up : i < j /\ up[j].t = "visible"

\* The worker takes a visible page g for visible, or will.
Visibly(g, m, up) ==
    ~g.hidden =>
       /\ Reappears(up)
       /\ \/ \E e \in Elems(up) : e.t = "visible"
          \/ /\ \A e \in Elems(up) : e.t = "connect" => e.r
             /\ m # None /\ m.sub => m.visible

\* It takes an open stream for open, or will.
Readily(g, state, m, down) == m # None /\ state = "open" => Heeds(down, g.ready)

\* Its next cursor makes it whole.
Asking(g) == g.repair \/ g.startup

\* A page asks until its first cursor is read, and is subscribed unless it was refused;
\* its record says whether that cursor has been sent.
Phased(g, m, sub, up, down) ==
    /\ (\E e \in Elems(up) : e.t = "connect") => Asking(g)
    /\ \A e \in Elems(up) : e.t # "unsubscribe"
    /\ m # None => m.sub \/ \E e \in Elems(down) : e.t = "gone"
    /\ m # None /\ m.sub =>
         /\ m.cursored <=> sub.opened
         /\ m.cursored <=> ~Asking(g) \/ \E e \in Elems(down) : e.t = "cursor"

\* f will come to the worker, by the stream it has or the next, or a repair instead.
Repairs(e) == e.t = "error" \/ (e.t = "cursor" /\ e.r)
Coming(x, f) ==
    /\ x.subs[f.doc].since < f.n
    /\ x.stream # None /\ x.stream.joined /\ f.doc \in x.stream.docs =>
          \E e \in Elems(x.stream.q) : e = f \/ (e.doc = f.doc /\ Repairs(e))

\* f is on its way to the page, or a later frame of its kind, or a repair.
Carries(down, f) ==
    \E e \in Elems(down) : \/ e.t = "frame" /\ e.k = f.k /\ f.n <= e.n
                           \/ e.t = "cursor" /\ e.r

\* f, or a later frame of its kind, is kept for the page until it shows again.
KeptFor(m, sub, f) == ~m.visible /\ f.n <= sub.content[f.k] /\ m.seen < sub.content[f.k]

\* No frame of its document is lost to it.
Reaches(g, x, m, down, f) ==
    \/ f.n <= g.got[f.k]
    \/ Carries(down, f)
    \/ KeptFor(m, x.subs[f.doc], f)
    \/ Coming(x, f)

\* Nothing of fs is lost to a page that is subscribed and asks for nothing.
Complete(g, x, m, down, fs) ==
    ~Asking(g) /\ m # None /\ m.sub => \A f \in fs : Reaches(g, x, m, down, f)

\* What the host published of d.
Frames(d) == {f \in Elems(log) : f.doc = d}

\* Page g on port q of worker x, whose record is u, misses nothing of fs.
Attended(g, d, x, q, u, fs) ==
    /\ Visibly(g, x.meta[q], u.up)
    /\ Readily(g, x.state, x.meta[q], u.down)
    /\ Phased(g, x.meta[q], x.subs[d], u.up, u.down)
    /\ Complete(g, x, x.meta[q], u.down, fs)

\* A page that listens is attended to; one that does not will ask when it listens again.
PageCurrent(p) ==
    LET q == page[p].port
    IN  /\ page[p].st \in {"away", "suspended"} => Asking(page[p])
        /\ page[p].st = "on" => Attended(page[p], of[p], w, q, port[q], Frames(of[p]))

CurrentInv == Answering(w) /\ \A p \in Pages : PageCurrent(p)

-----------------------------------------------------------------------------
(* How the worker's steps keep a page current.                             *)

\* Of a worker and a port only what Attended reads counts.
LEMMA AttendedAlike ==
    ASSUME NEW g, NEW d, NEW x, NEW y, NEW q, NEW u, NEW v, NEW fs,
           y.state = x.state, y.subs = x.subs, y.stream = x.stream, y.meta = x.meta,
           v.up = u.up, v.down = u.down, Attended(g, d, x, q, u, fs)
    PROVE  Attended(g, d, y, q, v, fs)
  <1>1. Complete(g, y, y.meta[q], v.down, fs)
    BY DEF Attended, Complete, Reaches, Coming
  <1> QED BY <1>1 DEF Attended

\* A handler keeps the invariant when it leaves every page that is on attended to.
LEMMA WorkerCurrent ==
    ASSUME SyncAssumption, BooksInv, CurrentInv, NEW y \in Workers, Answering(y),
           NEW ps \in [Ports -> PortRecords], Returns(y, ps), UNCHANGED <<of, cap, page, seq, log>>,
           \A p \in Pages : page[p].st = "on" =>
              LET q == page[p].port
              IN  /\ ~ps[q].closed
                  /\ Attended(page[p], of[p], y, q,
                              [ps[q] EXCEPT !.down = Joined(@, y.out[q])], Frames(of[p]))
    PROVE  CurrentInv'
  <1>1. /\ w'.state = y.state /\ w'.subs = y.subs /\ w'.stream = y.stream /\ w'.meta = y.meta
        /\ \A q \in Ports : /\ port'[q].up = ps[q].up
                            /\ ~ps[q].closed => port'[q].down = Joined(ps[q].down, y.out[q])
    BY ReturnsFacts
  <1>2. Answering(w)'
    BY <1>1 DEF Answering
  <1>3. ASSUME NEW p \in Pages PROVE PageCurrent(p)'
    <2> DEFINE q == page[p].port
               u == [ps[q] EXCEPT !.down = Joined(@, y.out[q])]
    <2>1. page[p].st \in {"away", "suspended"} => Asking(page[p])
      BY DEF CurrentInv, PageCurrent
    <2>2. ASSUME page[p].st = "on"
          PROVE  Attended(page[p], of[p], w', q, port'[q], Frames(of[p]))
      <3>1. q \in Ports /\ ps[q] \in PortRecords /\ ~ps[q].closed
        BY <2>2, PagePort
      <3>2. Attended(page[p], of[p], y, q, u, Frames(of[p]))
        BY <2>2
      <3>3. u.up = ps[q].up /\ u.down = Joined(ps[q].down, y.out[q])
        BY <3>1 DEF PortRecords
      <3> HIDE DEF u, q
      <3>4. port'[q].up = u.up /\ port'[q].down = u.down
        BY <1>1, <3>1, <3>3
      <3> QED BY <1>1, <3>2, <3>4, AttendedAlike
    <2> QED BY <2>1, <2>2 DEF PageCurrent, Frames
  <1> QED BY <1>2, <1>3 DEF CurrentInv

\* What is known of a page that is on.
LEMMA PageOn ==
    ASSUME SyncAssumption, BooksInv, CurrentInv, NEW p \in Pages, page[p].st = "on", NEW q,
           q = page[p].port
    PROVE  /\ q \in Ports /\ port[q] \in PortRecords /\ port[q].page = p /\ ~port[q].closed
           /\ DocOf(q) = of[p] /\ of[p] \in Docs
           /\ port[q].up \in Seq(UpMsgs) /\ port[q].down \in Seq(DownMsgs)
           /\ page[p] \in StreamPages
           /\ Attended(page[p], of[p], w, q, port[q], Frames(of[p]))
           /\ w.meta[q] # None => w.meta[q] \in Metas
           /\ Listens(w, q) => /\ of[p] \in Open(w) /\ w.subs[of[p]] \in Subs
                               /\ q \in w.subs[of[p]].ports
           /\ w \in Workers /\ w.out[q] = <<>>
  <1>1. /\ q \in Ports /\ port[q] \in PortRecords /\ port[q].page = p /\ ~port[q].closed
        /\ page[p] \in StreamPages
    BY PagePort
  <1>2. port[q].up \in Seq(UpMsgs) /\ port[q].down \in Seq(DownMsgs)
    BY <1>1 DEF PortRecords
  <1>3. DocOf(q) = of[p]
    BY <1>1 DEF DocOf
  <1>4. of[p] \in Docs /\ Books(w) /\ w \in Workers /\ w.out[q] = <<>>
    BY <1>1, PortDocs
  <1>5. /\ w.meta[q] # None => w.meta[q] \in Metas
        /\ Listens(w, q) => of[p] \in Open(w) /\ w.subs[of[p]] \in Subs /\ q \in w.subs[of[p]].ports
    BY <1>1, <1>3, <1>4, BooksSay
  <1>6. Attended(page[p], of[p], w, q, port[q], Frames(of[p]))
    BY DEF CurrentInv, PageCurrent
  <1> QED BY <1>1, <1>2, <1>3, <1>4, <1>5, <1>6

\* The frames of a document are what the log holds of it.
LEMMA FramesAre ==
    ASSUME BooksInv, NEW d
    PROVE  \A f \in Frames(d) : /\ f \in Elems(log) /\ f \in GoodEvents /\ f.doc = d
                                /\ f.t = "frame" /\ f.k \in Kinds /\ f.n \in Nat /\ f.n <= seq
  <1>1. log \in Seq(GoodEvents) /\ \A f \in Elems(log) : f.t = "frame" /\ f.n <= seq
    BY DEF BooksInv, LogOK
  <1>2. Elems(log) \subseteq GoodEvents
    BY <1>1 DEF Elems
  <1> QED BY <1>1, <1>2 DEF Frames, GoodEvents, Events

\* What a page reads that is not a status stays to be read, with what a handler adds.
LEMMA JoinedSays ==
    ASSUME NEW down \in Seq(DownMsgs), NEW out \in Seq(DownMsgs)
    PROVE  LET r == Joined(down, out)
           IN  /\ \A t \in {"gone", "cursor"} :
                     (\E e \in Elems(r) : e.t = t) <=>
                        (\E e \in Elems(down) : e.t = t) \/ (\E e \in Elems(out) : e.t = t)
               /\ \A f : Carries(down, f) \/ Carries(out, f) => Carries(r, f)
  <1> DEFINE r == Joined(down, out)
  <1>1. /\ \A e \in Elems(r) : e \in Elems(down) \/ e \in Elems(out)
        /\ \A e \in Elems(down) \cup Elems(out) : e.t = "status" \/ e \in Elems(r)
    BY JoinedElems
  <1> HIDE DEF r
  <1>2. ASSUME NEW t \in {"gone", "cursor"}
        PROVE  (\E e \in Elems(r) : e.t = t) <=>
                  (\E e \in Elems(down) : e.t = t) \/ (\E e \in Elems(out) : e.t = t)
    BY <1>1
  <1>3. ASSUME NEW f, Carries(down, f) \/ Carries(out, f) PROVE Carries(r, f)
    BY <1>1, <1>3 DEF Carries
  <1> QED BY <1>2, <1>3 DEF r

\* Who has an open stream's status to read, or just sent, takes it for open.
LEMMA JoinedHeeds ==
    ASSUME NEW down \in Seq(DownMsgs), NEW out \in Seq(DownMsgs), NEW ready \in BOOLEAN,
           \A e \in Elems(out) : e.t = "status" => e.k = "open",
           Heeds(down, ready) \/ \E e \in Elems(out) : e.t = "status"
    PROVE  Heeds(Joined(down, out), ready)
  BY JoinedElems

\* A document of x is in y where it was, and what was coming of it still comes.
Undisturbed(x, y, d, fs) ==
    /\ y.subs[d].opened = x.subs[d].opened
    /\ x.subs[d].opened => /\ y.subs[d].content = x.subs[d].content
                           /\ \A f \in fs : Coming(x, f) => Coming(y, f)

\* A frame comes by the same queue, or by the next stream.
LEMMA ComingStays ==
    ASSUME NEW x, NEW y, NEW f, Coming(x, f), y.subs[f.doc].since = x.subs[f.doc].since,
           \/ y.stream = None \/ ~y.stream.joined
           \/ /\ x.stream # None /\ x.stream.joined
              /\ f.doc \in y.stream.docs => f.doc \in x.stream.docs
              /\ \A e \in Elems(x.stream.q) : e = f \/ (e.doc = f.doc /\ Repairs(e))
                                              => e \in Elems(y.stream.q)
    PROVE  Coming(y, f)
  BY DEF Coming

\* A frame comes also when another document was taken off the stream's list.
LEMMA ComingTrimmed ==
    ASSUME SyncAssumption, NEW x \in Workers, NEW y, NEW e \in Docs, NEW f, Coming(x, f),
           y.subs[f.doc].since = x.subs[f.doc].since,
           y.stream = x.stream \/ y.stream = Trimmed(x.stream, e)
    PROVE  Coming(y, f)
  <1>1. x.stream \in Streams \cup {None}
    BY DEF Workers
  <1>2. CASE y.stream = x.stream
    BY <1>2 DEF Coming
  <1>3. CASE y.stream = Trimmed(x.stream, e)
    <2>1. /\ y.stream = None <=> x.stream = None
          /\ x.stream # None => /\ y.stream.docs = x.stream.docs \ {e}
                                /\ y.stream.joined = x.stream.joined /\ y.stream.q = x.stream.q
      BY <1>1, <1>3, TrimmedFacts
    <2> QED BY <2>1 DEF Coming
  <1> QED BY <1>2, <1>3

\* The same for a whole document.
LEMMA UndisturbedTrimmed ==
    ASSUME SyncAssumption, NEW x \in Workers, NEW y, NEW e \in Docs, NEW d, NEW fs,
           \A f \in fs : f.doc = d,
           y.subs[d].opened = x.subs[d].opened,
           x.subs[d].opened => /\ y.subs[d].content = x.subs[d].content
                               /\ y.subs[d].since = x.subs[d].since,
           y.stream = x.stream \/ y.stream = Trimmed(x.stream, e)
    PROVE  Undisturbed(x, y, d, fs)
  <1>1. ASSUME x.subs[d].opened, NEW f \in fs, Coming(x, f) PROVE Coming(y, f)
    <2>1. f.doc = d /\ y.subs[d].since = x.subs[d].since
      BY <1>1
    <2> QED BY <1>1, <2>1, ComingTrimmed
  <1> QED BY <1>1 DEF Undisturbed


\* A message m read from up leaves t, and in it what came behind m.
Leaves1(up, m, t) ==
    /\ t \in Seq(UpMsgs) /\ m \in Elems(up) /\ m \in UpMsgs
    /\ Elems(up) = Elems(t) \cup {m}
    /\ \A e \in Elems(t) : e.t # "connect"
    /\ Reappears(up) => Reappears(t)
    /\ Reappears(up) /\ m.t = "hidden" => \E e \in Elems(t) : e.t = "visible"

\* Reading the head of a queue that connects first, if at all, leaves its tail so.
LEMMA ReappearsTail ==
    ASSUME NEW up \in Seq(UpMsgs), up # <<>>,
           \A i \in DOMAIN up : up[i].t = "connect" => i = 1
    PROVE  Leaves1(up, Head(up), Tail(up))
  <1> DEFINE t == Tail(up)
             m == Head(up)
  <1>1. /\ t \in Seq(UpMsgs) /\ Len(up) \in Nat /\ Len(up) > 0 /\ Len(t) = Len(up) - 1
        /\ \A i \in 1..Len(t) : t[i] = up[i + 1]
        /\ m = up[1] /\ m \in UpMsgs /\ 1 \in DOMAIN up /\ DOMAIN up = 1..Len(up) /\ DOMAIN t = 1..Len(t)
    OBVIOUS
  <1> HIDE DEF t, m
  <1>2. \A i \in DOMAIN up : i = 1 \/ (i - 1 \in DOMAIN t /\ t[i - 1] = up[i])
    BY <1>1
  <1>3. \A i \in DOMAIN t : i + 1 \in DOMAIN up /\ up[i + 1] = t[i]
    BY <1>1
  <1>4. Elems(up) = Elems(t) \cup {m}
    BY TailElems DEF t, m
  <1>5. \A e \in Elems(t) : e.t # "connect"
    <2> SUFFICES ASSUME NEW i \in DOMAIN t, t[i].t = "connect" PROVE FALSE
      BY DEF Elems
    <2>1. i + 1 = 1 /\ i \in Nat
      BY <1>1, <1>3
    <2> QED BY <1>1, <2>1
  <1>6. ASSUME Reappears(up) PROVE Reappears(t)
    <2> SUFFICES ASSUME NEW i \in DOMAIN t, t[i].t = "hidden"
                 PROVE  \E j \in DOMAIN t : i < j /\ t[j].t = "visible"
      BY DEF Reappears
    <2>1. PICK j \in DOMAIN up : i + 1 < j /\ up[j].t = "visible"
      BY <1>3, <1>6 DEF Reappears
    <2>2. j - 1 \in DOMAIN t /\ t[j - 1] = up[j] /\ i < j - 1
      BY <1>1, <1>2, <2>1
    <2> QED BY <2>1, <2>2
  <1>7. ASSUME Reappears(up), m.t = "hidden" PROVE \E e \in Elems(t) : e.t = "visible"
    <2>1. PICK j \in DOMAIN up : 1 < j /\ up[j].t = "visible"
      BY <1>1, <1>7 DEF Reappears
    <2>2. j - 1 \in DOMAIN t /\ t[j - 1] = up[j]
      BY <1>1, <1>2, <2>1
    <2> QED BY <2>1, <2>2 DEF Elems
  <1>8. m \in Elems(up)
    BY <1>4
  <1> QED BY <1>1, <1>4, <1>5, <1>6, <1>7, <1>8 DEF t, m, Leaves1

\* What a page's port holds, with what a handler sent it, and its queue up as it is now.
Goes(u, up, out) == [u EXCEPT !.up = up, !.down = Joined(@, out)]

\* The two queues of a port that goes on.
LEMMA GoesFacts ==
    ASSUME NEW u \in PortRecords, NEW up, NEW out \in Seq(DownMsgs)
    PROVE  /\ Goes(u, up, out).up = up
           /\ Goes(u, up, out).down = Joined(u.down, out)
  BY DEF Goes, PortRecords

\* Sending to a port whose queue up is what it is now.
LEMMA GoesWhere ==
    ASSUME NEW u \in PortRecords, NEW up, NEW out, NEW v \in PortRecords,
           v = [u EXCEPT !.up = up] \/ (v = u /\ up = u.up)
    PROVE  [v EXCEPT !.down = Joined(@, out)] = Goes(u, up, out)
  BY DEF Goes, PortRecords

\* One step of the worker, for a page g on port q: what it leaves in the page's record
\* and sends to it agrees with what is on the port already.
Agrees(g, d, x, y, q, u, up, out, fs) ==
    LET l == x.meta[q]
        k == y.meta[q]
    IN  /\ Elems(up) \subseteq Elems(u.up) /\ Visibly(g, k, up)
        /\ k # None =>
             /\ l # None
             /\ k.sub \/ ~l.sub \/ \E e \in Elems(out) : e.t = "gone"
        /\ k # None /\ y.state = "open" =>
             /\ \A e \in Elems(out) : e.t = "status" => e.k = "open"
             /\ x.state = "open" \/ \E e \in Elems(out) : e.t = "status"
        /\ k # None /\ k.sub =>
             /\ l.sub
             /\ k.cursored <=> y.subs[d].opened
             /\ k.cursored <=> l.cursored \/ \E e \in Elems(out) : e.t = "cursor"
             /\ ~Asking(g) => \A f \in fs : Reaches(g, x, l, u.down, f)
                                            => Reaches(g, y, k, Joined(u.down, out), f)

\* A step that agrees with what is on its port leaves the page attended to.
LEMMA GoesOn ==
    ASSUME NEW g, g.ready \in BOOLEAN, NEW d, NEW x, NEW y, NEW q, NEW u \in PortRecords, NEW fs,
           NEW up, NEW out \in Seq(DownMsgs),
           Attended(g, d, x, q, u, fs), Agrees(g, d, x, y, q, u, up, out, fs)
    PROVE  Attended(g, d, y, q, Goes(u, up, out), fs)
  <1> DEFINE down == u.down
             r == Joined(down, out)
             v == Goes(u, up, out)
             l == x.meta[q]
             k == y.meta[q]
  <1>1. down \in Seq(DownMsgs)
    BY DEF PortRecords
  <1>2. v.up = up /\ v.down = r
    BY GoesFacts
  <1>3. /\ Phased(g, l, x.subs[d], u.up, down)
        /\ Readily(g, x.state, l, down) /\ Complete(g, x, l, down, fs)
    BY DEF Attended
  <1>4. Agrees(g, d, x, y, q, u, up, out, fs)
    OBVIOUS
  <1> HIDE DEF r, v, l, k
  <1>5. /\ (\E e \in Elems(r) : e.t = "gone")
             <=> (\E e \in Elems(down) : e.t = "gone") \/ (\E e \in Elems(out) : e.t = "gone")
        /\ (\E e \in Elems(r) : e.t = "cursor")
             <=> (\E e \in Elems(down) : e.t = "cursor") \/ (\E e \in Elems(out) : e.t = "cursor")
    BY <1>1, JoinedSays DEF r
  <1>6. Readily(g, y.state, k, r)
    <2> SUFFICES ASSUME k # None, y.state = "open" PROVE Heeds(r, g.ready)
      BY DEF Readily
    <2>1. /\ \A e \in Elems(out) : e.t = "status" => e.k = "open"
          /\ Heeds(down, g.ready) \/ \E e \in Elems(out) : e.t = "status"
      BY <1>3 DEF Readily, Agrees, k, l
    <2> HIDE DEF down
    <2> QED BY <1>1, <2>1, JoinedHeeds DEF r
  <1>7. Phased(g, k, y.subs[d], up, r)
    <2>1. /\ (\E e \in Elems(up) : e.t = "connect") => Asking(g)
          /\ \A e \in Elems(up) : e.t # "unsubscribe"
      BY <1>3 DEF Phased, Agrees
    <2>2. k # None => k.sub \/ \E e \in Elems(r) : e.t = "gone"
      BY <1>3, <1>5 DEF Phased, Agrees, k, l
    <2>3. k # None /\ k.sub => /\ k.cursored <=> y.subs[d].opened
                               /\ k.cursored <=> ~Asking(g) \/ \E e \in Elems(r) : e.t = "cursor"
      BY <1>3, <1>5 DEF Phased, Agrees, k, l
    <2> QED BY <2>1, <2>2, <2>3 DEF Phased
  <1>8. Complete(g, y, k, r, fs)
    BY <1>3 DEF Complete, Agrees, r, k, l
  <1>9. Visibly(g, k, up)
    BY DEF Agrees, k
  <1>10. Attended(g, d, y, q, v, fs)
    BY <1>2, <1>6, <1>7, <1>8, <1>9 DEF Attended, k
  <1> QED BY <1>10 DEF v

\* What a page reaches it reaches still, when the worker's record of its document stays.
LEMMA ReachesStill ==
    ASSUME NEW g, NEW x, NEW y, NEW m, NEW down \in Seq(DownMsgs), NEW out \in Seq(DownMsgs), NEW f,
           Reaches(g, x, m, down, f), y.subs[f.doc].content = x.subs[f.doc].content,
           Coming(x, f) => Coming(y, f)
    PROVE  Reaches(g, y, m, Joined(down, out), f)
  BY JoinedSays DEF Reaches, KeptFor

\* A page whose port a handler leaves alone, but for a status, stays attended to.
LEMMA StaysAttended ==
    ASSUME SyncAssumption, BooksInv, CurrentInv, NEW p \in Pages, page[p].st = "on",
           NEW q, q = page[p].port, NEW y \in Workers, y.meta[q] = w.meta[q],
           \A e \in Elems(y.out[q]) : e.t = "status" /\ (y.state = "open" => e.k = "open"),
           w.meta[q] # None /\ y.state = "open" =>
              w.state = "open" \/ \E e \in Elems(y.out[q]) : e.t = "status",
           Listens(w, q) => Undisturbed(w, y, of[p], Frames(of[p]))
    PROVE  Attended(page[p], of[p], y, q, [port[q] EXCEPT !.down = Joined(@, y.out[q])],
                    Frames(of[p]))
  <1> DEFINE g == page[p]
             d == of[p]
             m == w.meta[q]
             u == port[q]
             out == y.out[q]
             fs == Frames(of[p])
  <1>1. /\ q \in Ports /\ u \in PortRecords /\ g \in StreamPages /\ u.down \in Seq(DownMsgs)
        /\ Attended(g, d, w, q, u, fs) /\ (m # None => m \in Metas)
        /\ Listens(w, q) => w.subs[d] \in Subs
    BY PageOn
  <1>2. out \in Seq(DownMsgs) /\ g.ready \in BOOLEAN
    BY <1>1 DEF Workers, StreamPages
  <1>3. \A f \in fs : f.doc = d
    BY FramesAre
  <1>4. /\ m = w.meta[q] /\ m = y.meta[q]
        /\ \A e \in Elems(out) : e.t = "status" /\ (y.state = "open" => e.k = "open")
        /\ m # None /\ y.state = "open" => w.state = "open" \/ \E e \in Elems(out) : e.t = "status"
        /\ m # None /\ m.sub => Undisturbed(w, y, d, fs) /\ w.subs[d] \in Subs
    BY <1>1 DEF Listens
  <1> HIDE DEF g, d, m, u, out, fs
  <1>5. Visibly(g, m, u.up) /\ Phased(g, m, w.subs[d], u.up, u.down)
    BY <1>1, <1>4 DEF Attended
  <1>6. m # None /\ m.sub => (m.cursored <=> y.subs[d].opened)
    BY <1>4, <1>5 DEF Undisturbed, Phased
  <1>7. ASSUME ~Asking(g), m # None, m.sub, NEW f \in fs, Reaches(g, w, m, u.down, f)
        PROVE  Reaches(g, y, m, Joined(u.down, out), f)
    <2>1. w.subs[d].opened \in BOOLEAN /\ m.cursored \in BOOLEAN
      BY <1>1, <1>4, <1>7 DEF Subs, Metas
    <2>2. w.subs[d].opened
      BY <1>5, <1>7, <2>1 DEF Phased
    <2>3. f.doc = d /\ y.subs[d].content = w.subs[d].content /\ (Coming(w, f) => Coming(y, f))
      BY <1>3, <1>4, <1>7, <2>2 DEF Undisturbed
    <2> QED BY <1>1, <1>2, <1>7, <2>3, ReachesStill
  <1>8. Agrees(g, d, w, y, q, u, u.up, out, fs)
    <2>1. \A e \in Elems(out) : e.t = "status"
      BY <1>4
    <2>2. m # None /\ m.sub => (m.cursored <=> m.cursored \/ \E e \in Elems(out) : e.t = "cursor")
      BY <2>1
    <2> QED BY <1>4, <1>5, <1>6, <1>7, <2>2 DEF Agrees
  <1>9. Attended(g, d, y, q, Goes(u, u.up, out), fs)
    <2>1. /\ u \in PortRecords /\ g.ready \in BOOLEAN /\ out \in Seq(DownMsgs)
          /\ Attended(g, d, w, q, u, fs)
      BY <1>1, <1>2
    <2> QED BY <1>8, <2>1, GoesOn
  <1>10. Goes(u, u.up, out) = [u EXCEPT !.down = Joined(@, out)]
    BY <1>1, GoesWhere
  <1> QED BY <1>9, <1>10 DEF g, d, u, out, fs

\* What the worker may do with a connection.
Meets(x, y, q, d, c) ==
    /\ OnlyPort(x, y, q, d)
    /\ \/ TurnedAway(x, y, q, d)
       \/ Opened(x, y, q, d, c.r, c.n)
       \/ JoinedEarly(x, y, q, d, c.r, c.n)
       \/ JoinedLate(x, y, q, d, c.r, c.n)

\* Whatever the worker does with a connection, it greets the page with its state, and
\* sends a cursor exactly when the document was answered, or says that it is gone.
LEMMA ConnectsSays ==
    ASSUME SyncAssumption, NEW x \in Workers, NEW q \in Ports, NEW d \in Docs, NEW y,
           NEW c \in UpMsgs, Meets(x, y, q, d, c)
    PROVE  LET out == y.out[q]
               m == y.meta[q]
           IN  /\ m # None
               /\ \E e \in Elems(out) : e.t = "status"
               /\ \A e \in Elems(out) : e.t = "status" => e.k = x.state
               /\ ~m.sub => \E e \in Elems(out) : e.t = "gone"
               /\ m.sub => /\ m.visible = c.r
                           /\ m.cursored = y.subs[d].opened
                           /\ m.cursored <=> \E e \in Elems(out) : e.t = "cursor"
  <1> DEFINE g == Greeting(x)
             v == c.r
             since == c.n
  <1>1. v \in BOOLEAN /\ since \in Nat
    BY DEF UpMsgs
  <1>2. g \in DownMsgs /\ g.t = "status" /\ g.k = x.state
    BY StatusMsg DEF Greeting, Workers
  <1>3. x.subs[d] # None => x.subs[d] \in Subs
    BY DEF Workers
  <1>4. LET m == NewMeta(v, since)
        IN  m # None /\ m.sub /\ m.visible = v /\ ~m.cursored /\ m \in Metas
    BY <1>1, NewMetaFacts
  <1>5. Elems(<<g>>) = {g}
    BY <1>2, OneElem
  <1> HIDE DEF g
  <1>6. CASE TurnedAway(x, y, q, d)
    <2> DEFINE b == Msg("gone", 0, None, FALSE)
    <2>1. b \in DownMsgs /\ b.t = "gone"
      BY GoneMsg
    <2>2. y.meta[q] # None /\ ~y.meta[q].sub /\ y.out[q] = <<g, b>>
      BY <1>6 DEF TurnedAway, g
    <2> HIDE DEF b
    <2>3. Elems(y.out[q]) = {g, b}
      BY <1>2, <2>1, <2>2, TwoElems
    <2> QED BY <1>2, <2>1, <2>2, <2>3
  <1>7. ASSUME y.meta[q] = NewMeta(v, since), y.out[q] = <<g>>, ~y.subs[d].opened,
               y.subs[d].opened \in BOOLEAN
        PROVE  /\ y.meta[q] # None /\ y.meta[q].sub /\ y.meta[q].visible = v
               /\ y.meta[q].cursored = y.subs[d].opened /\ ~y.meta[q].cursored
               /\ Elems(y.out[q]) = {g}
    <2>1. y.meta[q].cursored \in BOOLEAN
      BY <1>4, <1>7 DEF Metas
    <2> QED BY <1>4, <1>5, <1>7, <2>1
  <1>8. CASE Opened(x, y, q, d, v, since)
    <2>1. LET s == FreshSub(since) IN s \in Subs /\ ~s.opened
      BY <1>1, FreshSubFacts
    <2>2. y.subs[d] = With(FreshSub(since), q)
      BY <1>8 DEF Opened
    <2>3. y.subs[d].opened \in BOOLEAN /\ ~y.subs[d].opened
      BY <2>1, <2>2, SubFacts DEF Subs
    <2>4. y.meta[q] = NewMeta(v, since) /\ y.out[q] = <<g>>
      BY <1>8 DEF Opened, g
    <2> QED BY <1>2, <1>7, <2>3, <2>4
  <1>9. CASE JoinedEarly(x, y, q, d, v, since)
    <2>1. x.subs[d] \in Subs /\ ~x.subs[d].opened /\ y.subs[d] = With(Lowered(x.subs[d], since), q)
      BY <1>3, <1>9 DEF JoinedEarly
    <2>2. LET s == Lowered(x.subs[d], since) IN s \in Subs /\ s.opened = x.subs[d].opened
      BY <1>1, <2>1, LoweredFacts
    <2>3. y.subs[d].opened \in BOOLEAN /\ ~y.subs[d].opened
      BY <2>1, <2>2, SubFacts DEF Subs
    <2>4. y.meta[q] = NewMeta(v, since) /\ y.out[q] = <<g>>
      BY <1>9 DEF JoinedEarly, g
    <2> QED BY <1>2, <1>7, <2>3, <2>4
  <1>10. CASE JoinedLate(x, y, q, d, v, since)
    <2>1. /\ x.subs[d] \in Subs /\ x.subs[d].opened /\ y.subs[d] = With(x.subs[d], q)
          /\ y.meta[q] # None /\ y.meta[q].sub /\ y.meta[q].visible = v /\ y.meta[q].cursored
      BY <1>3, <1>10 DEF JoinedLate
    <2> DEFINE t == IF v THEN Repeats(x.subs[d], 0) ELSE <<>>
    <2>2. PICK b \in DownMsgs : b.t = "cursor" /\ y.out[q] = <<g, b>> \o t
      BY <1>10 DEF JoinedLate, g
    <2>3. t \in Seq(DownMsgs) /\ \A e \in Elems(t) : e.t = "frame"
      <3>1. CASE v
        BY <2>1, <3>1, RepeatsFacts
      <3>2. CASE ~v
        <4>1. t = <<>>
          BY <3>2
        <4> HIDE DEF t
        <4> QED BY <4>1, NoElems
      <3> QED BY <3>1, <3>2
    <2>4. <<g, b>> \in Seq(DownMsgs) /\ Elems(<<g, b>>) = {g, b}
      BY <1>2, TwoElems
    <2> HIDE DEF t
    <2>5. Elems(y.out[q]) = {g, b} \cup Elems(t)
      <3> DEFINE s == <<g, b>>
      <3>1. s \in Seq(DownMsgs) /\ Elems(s) = {g, b} /\ y.out[q] = s \o t
        BY <2>2, <2>4
      <3> HIDE DEF s
      <3>2. Elems(s \o t) = Elems(s) \cup Elems(t)
        BY <2>3, <3>1, ConcatElems
      <3> QED BY <3>1, <3>2
    <2>6. y.subs[d].opened = x.subs[d].opened
      <3>1. With(x.subs[d], q).opened = x.subs[d].opened
        BY <2>1, SubFacts
      <3> QED BY <2>1, <3>1
    <2>7. y.meta[q].cursored = y.subs[d].opened
      <3>1. y.meta[q] \in Metas
        BY <2>1 DEF Meets, OnlyPort, Workers
      <3>2. y.meta[q].cursored \in BOOLEAN /\ x.subs[d].opened \in BOOLEAN
        BY <2>1, <3>1 DEF Metas, Subs
      <3> QED BY <2>1, <2>6, <3>2
    <2> QED BY <1>2, <2>1, <2>2, <2>3, <2>5, <2>7
  <1> QED BY <1>6, <1>8, <1>9, <1>10 DEF Meets

\* What the worker leaves a page with that it greets.
Greeted(g, d, y, q, up, out) ==
    LET k == y.meta[q]
    IN  /\ k # None /\ Visibly(g, k, up)
        /\ \A e \in Elems(up) : e.t # "connect" /\ e.t # "unsubscribe"
        /\ \E e \in Elems(out) : e.t = "status"
        /\ \A e \in Elems(out) : e.t = "status" => e.k = y.state
        /\ ~k.sub => \E e \in Elems(out) : e.t = "gone"
        /\ k.sub => /\ k.cursored = y.subs[d].opened
                    /\ k.cursored <=> \E e \in Elems(out) : e.t = "cursor"

\* A page that connects is attended to once the worker has answered it.
LEMMA Greets ==
    ASSUME NEW g, g.ready \in BOOLEAN, Asking(g), NEW d, NEW y, NEW q, NEW fs,
           NEW u \in PortRecords, u.down = <<>>, NEW up, NEW out \in Seq(DownMsgs),
           Greeted(g, d, y, q, up, out)
    PROVE  Attended(g, d, y, q, Goes(u, up, out), fs)
  <1> DEFINE down == u.down
             r == Joined(down, out)
             k == y.meta[q]
             v == Goes(u, up, out)
  <1>1. down \in Seq(DownMsgs) /\ Elems(down) = {}
    BY NoElems
  <1>2. v.up = up /\ v.down = r
    BY GoesFacts
  <1> HIDE DEF r, v, k, down
  <1>3. /\ (\E e \in Elems(r) : e.t = "gone") <=> (\E e \in Elems(out) : e.t = "gone")
        /\ (\E e \in Elems(r) : e.t = "cursor") <=> (\E e \in Elems(out) : e.t = "cursor")
    BY <1>1, JoinedSays DEF r
  <1>4. Readily(g, y.state, k, r)
    <2> SUFFICES ASSUME y.state = "open" PROVE Heeds(r, g.ready)
      BY DEF Readily
    <2>1. /\ \A e \in Elems(out) : e.t = "status" => e.k = "open"
          /\ \E e \in Elems(out) : e.t = "status"
      BY DEF Greeted
    <2> QED BY <1>1, <2>1, JoinedHeeds DEF r
  <1>5. Phased(g, k, y.subs[d], up, r)
    BY <1>3 DEF Phased, Greeted, k
  <1>6. Complete(g, y, k, r, fs)
    BY DEF Complete
  <1>7. Visibly(g, k, up)
    BY DEF Greeted, k
  <1>8. Attended(g, d, y, q, v, fs)
    BY <1>2, <1>4, <1>5, <1>6, <1>7 DEF Attended, k
  <1> QED BY <1>8 DEF v

\* A page whose connection the worker takes is attended to.
LEMMA ConnectAttends ==
    ASSUME SyncAssumption, BooksInv, CurrentInv, NEW p \in Pages, page[p].st = "on",
           NEW q, q = page[p].port, NEW m, NEW t, Leaves1(port[q].up, m, t),
           m.t = "connect", NEW y, Meets(w, y, q, of[p], m)
    PROVE  Attended(page[p], of[p], y, q, Goes(port[q], t, y.out[q]), Frames(of[p]))
  <1> DEFINE g == page[p]
             d == of[p]
             u == port[q]
             out == y.out[q]
             k == y.meta[q]
  <1>1. /\ q \in Ports /\ u \in PortRecords /\ d = DocOf(q) /\ d \in Docs
        /\ u.up \in Seq(UpMsgs) /\ u.down \in Seq(DownMsgs) /\ g \in StreamPages
        /\ Attended(g, d, w, q, u, Frames(d)) /\ w \in Workers
    BY PageOn
  <1>2. PortOK(q)
    BY <1>1 DEF BooksInv
  <1>3. /\ t \in Seq(UpMsgs) /\ m \in Elems(u.up) /\ m \in UpMsgs /\ Elems(u.up) = Elems(t) \cup {m}
        /\ \A e \in Elems(t) : e.t # "connect"
        /\ Reappears(u.up) => Reappears(t)
    BY DEF Leaves1
  <1>5. y \in Workers /\ y.state = w.state
    BY DEF Meets, OnlyPort
  <1>6. out \in Seq(DownMsgs) /\ g.ready \in BOOLEAN
    BY <1>1, <1>5 DEF Workers, StreamPages
  <1>7. u.down = <<>>
    <2>1. Dialling(q)
      BY <1>3, DiallingElems
    <2> QED BY <1>2, <2>1 DEF PortOK
  <1>8. /\ k # None
        /\ \E e \in Elems(out) : e.t = "status"
        /\ \A e \in Elems(out) : e.t = "status" => e.k = w.state
        /\ ~k.sub => \E e \in Elems(out) : e.t = "gone"
        /\ k.sub => /\ k.visible = m.r
                    /\ k.cursored = y.subs[d].opened
                    /\ k.cursored <=> \E e \in Elems(out) : e.t = "cursor"
    BY <1>1, <1>3, ConnectsSays
  <1>9. Visibly(g, w.meta[q], u.up) /\ Phased(g, w.meta[q], w.subs[d], u.up, u.down)
    BY <1>1 DEF Attended
  <1> HIDE DEF g, d, u, out, k
  <1>10. Asking(g) /\ \A e \in Elems(u.up) : e.t # "unsubscribe"
    BY <1>3, <1>9 DEF Phased
  <1>11. Visibly(g, k, t)
    BY <1>3, <1>8, <1>9 DEF Visibly
  <1>12. Greeted(g, d, y, q, t, out)
    BY <1>3, <1>5, <1>8, <1>10, <1>11 DEF Greeted, k
  <1>13. Attended(g, d, y, q, Goes(u, t, out), Frames(d))
    BY <1>1, <1>6, <1>7, <1>10, <1>12, Greets
  <1> QED BY <1>13 DEF g, d, u, out

\* So is a page whose word it takes, on a port that it knows or no longer knows.
Takes(x, y, q, d, m) ==
    LET l == x.meta[q]
        k == y.meta[q]
    IN  /\ y.state = x.state /\ y.subs = x.subs /\ y.stream = x.stream
        /\ l = None => k = None /\ y.out[q] = <<>>
        /\ l # None =>
             /\ k # None /\ k.sub = l.sub /\ k.cursored = l.cursored
             /\ k.visible = (m.t = "visible")
             /\ m.t = "hidden" => k.seen = l.seen
             /\ y.out[q] = IF m.t = "visible" /\ l.sub THEN Repeats(x.subs[d], l.seen) ELSE <<>>

\* So is a page that said it is visible or hidden, when the worker takes its word.
LEMMA WordAttends ==
    ASSUME SyncAssumption, BooksInv, CurrentInv, NEW p \in Pages, page[p].st = "on",
           NEW q, q = page[p].port, NEW m, NEW t, Leaves1(port[q].up, m, t),
           m.t \in {"visible", "hidden"}, NEW y \in Workers, Takes(w, y, q, of[p], m)
    PROVE  Attended(page[p], of[p], y, q, Goes(port[q], t, y.out[q]), Frames(of[p]))
  <1> DEFINE g == page[p]
             d == of[p]
             u == port[q]
             out == y.out[q]
             k == y.meta[q]
             l == w.meta[q]
             fs == Frames(of[p])
  <1>1. /\ q \in Ports /\ u \in PortRecords /\ d = DocOf(q) /\ d \in Docs
        /\ u.up \in Seq(UpMsgs) /\ u.down \in Seq(DownMsgs) /\ g \in StreamPages
        /\ Attended(g, d, w, q, u, fs) /\ w \in Workers
        /\ l # None => l \in Metas
        /\ l # None /\ l.sub => w.subs[d] \in Subs
    BY PageOn DEF Listens
  <1>2. PortOK(q)
    BY <1>1 DEF BooksInv
  <1>3. /\ t \in Seq(UpMsgs) /\ m \in Elems(u.up) /\ m \in UpMsgs /\ Elems(u.up) = Elems(t) \cup {m}
        /\ \A e \in Elems(t) : e.t # "connect"
        /\ Reappears(u.up) => Reappears(t)
        /\ Reappears(u.up) /\ m.t = "hidden" => \E e \in Elems(t) : e.t = "visible"
    BY DEF Leaves1
  <1>4. out \in Seq(DownMsgs) /\ g.ready \in BOOLEAN
    BY <1>1, SMTT(30) DEF Workers, StreamPages
  <1>5. Visibly(g, l, u.up) /\ Phased(g, l, w.subs[d], u.up, u.down)
    BY <1>1 DEF Attended
  <1>6. /\ y.state = w.state /\ y.subs = w.subs /\ y.stream = w.stream
        /\ l = None => k = None /\ out = <<>>
        /\ l # None =>
             /\ k # None /\ k.sub = l.sub /\ k.cursored = l.cursored
             /\ k.visible = (m.t = "visible")
             /\ m.t = "hidden" => k.seen = l.seen
             /\ out = IF m.t = "visible" /\ l.sub THEN Repeats(w.subs[d], l.seen) ELSE <<>>
    BY DEF Takes
  <1>7. \A f \in fs : f.doc = d /\ f.k \in Kinds
    BY FramesAre
  <1> HIDE DEF g, d, u, out, k, l, fs
  <1>8. /\ \A e \in Elems(out) : e.t = "frame"
        /\ l # None /\ l.sub /\ m.t = "visible" =>
              \A b \in Kinds : l.seen < w.subs[d].content[b] =>
                 \E e \in Elems(out) : e.t = "frame" /\ e.k = b /\ e.n = w.subs[d].content[b]
    <2>1. CASE l # None /\ l.sub /\ m.t = "visible"
      <3>1. out = Repeats(w.subs[d], l.seen) /\ w.subs[d] \in Subs /\ l.seen \in Nat
        BY <1>1, <1>6, <2>1 DEF Metas
      <3> DEFINE sub == w.subs[d]
                 n == l.seen
      <3>2. sub \in Subs /\ n \in Nat
        BY <3>1
      <3>3. out = Repeats(sub, n)
        BY <3>1
      <3> HIDE DEF sub, n
      <3> DEFINE r == Repeats(sub, n)
      <3>4. \A e \in Elems(r) : e.t = "frame" /\ e.k \in Kinds /\ e.n = sub.content[e.k] /\ n < e.n
        BY <3>2, RepeatsFacts, Z3T(30)
      <3>5. \A b \in Kinds : n < sub.content[b] =>
               \E e \in Elems(r) : e.t = "frame" /\ e.k = b /\ e.n = sub.content[b]
        BY <3>2, RepeatsFacts, Z3T(30)
      <3> HIDE DEF r
      <3>6. /\ \A e \in Elems(r) : e.t = "frame"
            /\ \A b \in Kinds : n < sub.content[b] =>
                 \E e \in Elems(r) : e.t = "frame" /\ e.k = b /\ e.n = sub.content[b]
        BY <3>4, <3>5
      <3>7. out = r
        BY <3>3 DEF r
      <3> QED BY <3>6, <3>7 DEF sub, n
    <2>2. CASE ~(l # None /\ l.sub /\ m.t = "visible")
      <3>1. out = <<>>
        BY <1>6, <2>2
      <3> QED BY <2>2, <3>1, NoElems
    <2> QED BY <2>1, <2>2
  <1>9. Visibly(g, k, t)
    BY <1>3, <1>5, <1>6 DEF Visibly
  <1>10. ASSUME k # None, k.sub, NEW f \in fs, Reaches(g, w, l, u.down, f)
         PROVE  Reaches(g, y, k, Joined(u.down, out), f)
    <2>1. Coming(w, f) => Coming(y, f)
      BY <1>6 DEF Coming
    <2>2. Carries(u.down, f) \/ Carries(out, f) => Carries(Joined(u.down, out), f)
      BY <1>1, <1>4, JoinedSays
    <2>3. KeptFor(l, w.subs[d], f) => Carries(out, f) \/ KeptFor(k, y.subs[d], f)
      <3>1. CASE m.t = "visible"
        <4>1. SUFFICES ASSUME KeptFor(l, w.subs[d], f) PROVE Carries(out, f)
          OBVIOUS
        <4>2. f.n <= w.subs[d].content[f.k] /\ l.seen < w.subs[d].content[f.k]
          BY <4>1 DEF KeptFor
        <4>3. PICK e \in Elems(out) : e.t = "frame" /\ e.k = f.k /\ e.n = w.subs[d].content[f.k]
          BY <1>6, <1>7, <1>8, <1>10, <3>1, <4>2
        <4> QED BY <4>2, <4>3 DEF Carries
      <3>2. CASE m.t = "hidden"
        BY <1>6, <1>10, <3>2 DEF KeptFor
      <3> QED BY <3>1, <3>2
    <2> QED BY <1>7, <1>10, <2>1, <2>2, <2>3 DEF Reaches
  <1>11. k # None /\ k.sub => /\ k.cursored <=> y.subs[d].opened
                              /\ k.cursored <=> l.cursored \/ \E e \in Elems(out) : e.t = "cursor"
    BY <1>5, <1>6, <1>8 DEF Phased
  <1>12. Agrees(g, d, w, y, q, u, t, out, fs)
    BY <1>3, <1>6, <1>8, <1>9, <1>10, <1>11 DEF Agrees, k, l
  <1>13. Attended(g, d, y, q, Goes(u, t, out), fs)
    BY <1>1, <1>4, <1>12, GoesOn
  <1> QED BY <1>13 DEF g, d, u, out, fs

\* A handler of port q that leaves the other ports, and what they listen to, alone.
Mild(x, y, q) ==
    /\ y \in Workers /\ y.state = x.state
    /\ \E e \in Docs : y.stream = x.stream \/ y.stream = Trimmed(x.stream, e)
    /\ \A r \in Ports : r # q => y.meta[r] = x.meta[r] /\ y.out[r] = <<>>
    /\ \A r \in Ports : r # q /\ Listens(x, r) =>
          LET d == DocOf(r)
          IN  /\ y.subs[d].opened = x.subs[d].opened
              /\ x.subs[d].opened => /\ y.subs[d].content = x.subs[d].content
                                     /\ y.subs[d].since = x.subs[d].since

\* It leaves the pages of the other ports attended to.
LEMMA MildStays ==
    ASSUME SyncAssumption, BooksInv, CurrentInv, NEW q, NEW y, Mild(w, y, q),
           NEW p \in Pages, page[p].st = "on", NEW r, r = page[p].port, r # q
    PROVE  Attended(page[p], of[p], y, r, [port[r] EXCEPT !.down = Joined(@, y.out[r])],
                    Frames(of[p]))
  <1>1. /\ r \in Ports /\ port[r] \in PortRecords /\ DocOf(r) = of[p] /\ of[p] \in Docs
        /\ w \in Workers
    BY PageOn
  <1>2. y \in Workers /\ y.state = w.state /\ y.meta[r] = w.meta[r] /\ y.out[r] = <<>>
    BY <1>1 DEF Mild
  <1>3. Elems(y.out[r]) = {}
    BY <1>2, NoElems
  <1>4. \A f \in Frames(of[p]) : f.doc = of[p]
    BY FramesAre
  <1>5. Listens(w, r) => Undisturbed(w, y, of[p], Frames(of[p]))
    <2> SUFFICES ASSUME Listens(w, r) PROVE Undisturbed(w, y, of[p], Frames(of[p]))
      OBVIOUS
    <2>1. PICK e \in Docs : y.stream = w.stream \/ y.stream = Trimmed(w.stream, e)
      BY DEF Mild
    <2>2. /\ y.subs[of[p]].opened = w.subs[of[p]].opened
          /\ w.subs[of[p]].opened => /\ y.subs[of[p]].content = w.subs[of[p]].content
                                     /\ y.subs[of[p]].since = w.subs[of[p]].since
      BY <1>1 DEF Mild
    <2> QED BY <1>1, <1>4, <2>1, <2>2, UndisturbedTrimmed
  <1> QED BY <1>2, <1>3, <1>5, StaysAttended

\* It leaves the stream's answer as it was.
LEMMA MildAnswering ==
    ASSUME SyncAssumption, NEW x \in Workers, Answering(x), NEW q, NEW y, Mild(x, y, q)
    PROVE  Answering(y)
  <1>1. PICK e \in Docs : y.stream = x.stream \/ y.stream = Trimmed(x.stream, e)
    BY DEF Mild
  <1>2. y.state = x.state
    BY DEF Mild
  <1>3. x.stream \in Streams \cup {None}
    BY DEF Workers
  <1>4. LET t == Trimmed(x.stream, e)
        IN  /\ t = None <=> x.stream = None
            /\ x.stream # None => t.joined = x.stream.joined /\ t.q = x.stream.q
    BY <1>3, TrimmedFacts
  <1> QED BY <1>1, <1>2, <1>4 DEF Answering

\* A port that goes takes only what it alone listened to.
LEMMA UnsubscribeMild ==
    ASSUME SyncAssumption, BooksInv, NEW q \in Ports, port[q].page # None
    PROVE  Mild(w, Unsubscribe(w, q), q) /\ Mild(w, DropPort(w, q), q)
  <1> DEFINE d == DocOf(q)
             y == Unsubscribe(w, q)
             z == DropPort(w, q)
  <1>1. /\ w \in Workers /\ Books(w) /\ d \in Docs /\ cap \in Nat
        /\ \A r \in Ports : w.out[r] = <<>>
        /\ \A r \in Ports : w.meta[r] # None => DocOf(r) \in Docs
    BY PortDocs
  <1>2. y \in Workers /\ z \in Workers /\ Minus(y, z, q)
    <2>1. Books(y)
      BY <1>1, UnsubscribeBooks DEF Listens
    <2>2. Books(z) /\ Minus(y, z, q)
      BY <1>1, DropPortBooks DEF Listens
    <2> QED BY <2>1, <2>2 DEF Books
  <1>3. /\ w.meta[q] = None \/ ~w.meta[q].sub => y = w
        /\ w.meta[q] # None /\ w.meta[q].sub /\ d \in Docs /\ w.subs[d] # None => Leaves(w, y, q, d)
    BY <1>1, UnsubscribeFacts
  <1>4. Listens(w, q) => d \in Open(w) /\ w.subs[d] # None /\ w.subs[d] \in Subs
    BY <1>1, BooksSay
  <1> HIDE DEF y, z, d
  <1>5. Mild(w, y, q)
    <2>1. CASE ~Listens(w, q)
      BY <1>1, <1>3, <2>1 DEF Mild, Listens
    <2>2. CASE Listens(w, q)
      <3>1. Leaves(w, y, q, d)
        BY <1>1, <1>3, <1>4, <2>2 DEF Listens
      <3>2. /\ y.state = w.state /\ (y.stream = w.stream \/ y.stream = Trimmed(w.stream, d))
            /\ \A r \in Ports : r # q => y.meta[r] = w.meta[r] /\ y.out[r] = <<>>
        BY <1>1, <3>1 DEF Leaves, Workers
      <3>3. ASSUME NEW r \in Ports, r # q, Listens(w, r)
            PROVE  LET c == DocOf(r)
                   IN  y.subs[c].opened = w.subs[c].opened /\ y.subs[c].content = w.subs[c].content
                       /\ y.subs[c].since = w.subs[c].since
        <4>1. DocOf(r) \in Docs /\ r \in w.subs[DocOf(r)].ports
          BY <1>1, <3>3, BooksSay DEF Listens
        <4>2. CASE DocOf(r) = d
          <5>1. w.subs[d].ports \ {q} # {}
            BY <3>3, <4>1, <4>2
          <5>2. y.subs[d] = Left(w.subs[d], q)
            BY <1>1, <3>1, <5>1 DEF Leaves, Workers
          <5>3. LET s == Left(w.subs[d], q)
                IN  s.since = w.subs[d].since /\ s.opened = w.subs[d].opened /\ s.content = w.subs[d].content
            BY <1>4, <2>2, SubFacts
          <5> QED BY <4>2, <5>2, <5>3
        <4>3. CASE DocOf(r) # d
          <5>1. y.subs[DocOf(r)] = w.subs[DocOf(r)]
            BY <1>1, <3>1, <4>1, <4>3 DEF Leaves, Workers
          <5> QED BY <5>1
        <4> QED BY <4>2, <4>3
      <3> QED BY <1>1, <1>2, <3>2, <3>3 DEF Mild
    <2> QED BY <2>1, <2>2
  <1>6. Mild(w, z, q)
    <2>1. /\ z.state = y.state /\ z.stream = y.stream /\ z.subs = y.subs /\ z.out = y.out
          /\ \A r \in Ports : r # q => z.meta[r] = y.meta[r]
      BY <1>2 DEF Minus, Workers
    <2> QED BY <1>2, <1>5, <2>1 DEF Mild
  <1> QED BY <1>5, <1>6 DEF y, z

\* A connection joins a document that was answered as it is.
LEMMA ConnectMild ==
    ASSUME SyncAssumption, BooksInv, NEW q \in Ports, w.meta[q] = None,
           NEW d \in Docs, NEW c \in UpMsgs, NEW y, Meets(w, y, q, d, c)
    PROVE  Mild(w, y, q)
  <1> DEFINE v == c.r
             since == c.n
  <1>1. /\ w \in Workers /\ Books(w) /\ (\A r \in Ports : w.out[r] = <<>>)
        /\ since \in Nat
        /\ \A r \in Ports : w.meta[r] # None => DocOf(r) \in Docs
    BY PortDocs DEF UpMsgs
  <1>2. /\ y \in Workers /\ y.state = w.state /\ y.stream = w.stream
        /\ \A r \in Ports : r # q => y.meta[r] = w.meta[r] /\ y.out[r] = <<>>
        /\ \A e \in Docs : e # d => y.subs[e] = w.subs[e]
    BY <1>1 DEF Meets, OnlyPort
  <1>3. ASSUME w.subs[d] # None
        PROVE  /\ y.subs[d].opened = w.subs[d].opened
               /\ w.subs[d].opened => /\ y.subs[d].content = w.subs[d].content
                                      /\ y.subs[d].since = w.subs[d].since
    <2>1. w.subs[d] \in Subs
      BY <1>1, <1>3 DEF Workers
    <2>2. CASE y.subs[d] = With(w.subs[d], q)
      BY <2>1, <2>2, SubFacts
    <2>3. CASE ~w.subs[d].opened /\ y.subs[d] = With(Lowered(w.subs[d], since), q)
      <3>1. LET s == Lowered(w.subs[d], since) IN s \in Subs /\ s.opened = w.subs[d].opened
        BY <1>1, <2>1, LoweredFacts
      <3>2. y.subs[d].opened = w.subs[d].opened
        BY <2>3, <3>1, SubFacts
      <3> QED BY <2>3, <3>2
    <2>4. \/ JoinedEarly(w, y, q, d, v, since)
          \/ JoinedLate(w, y, q, d, v, since)
      BY <1>3 DEF Meets, TurnedAway, Opened
    <2> QED BY <2>2, <2>3, <2>4 DEF JoinedEarly, JoinedLate
  <1>4. \A r \in Ports : Listens(w, r) => DocOf(r) \in Docs /\ w.subs[DocOf(r)] # None
    BY <1>1, BooksSay DEF Listens
  <1>5. ASSUME NEW r \in Ports, Listens(w, r)
        PROVE  LET e == DocOf(r)
               IN  /\ y.subs[e].opened = w.subs[e].opened
                   /\ w.subs[e].opened => /\ y.subs[e].content = w.subs[e].content
                                          /\ y.subs[e].since = w.subs[e].since
    <2>1. DocOf(r) \in Docs /\ w.subs[DocOf(r)] # None
      BY <1>4, <1>5
    <2>2. CASE DocOf(r) = d
      BY <1>3, <2>1, <2>2
    <2>3. CASE DocOf(r) # d
      <3>1. y.subs[DocOf(r)] = w.subs[DocOf(r)]
        BY <1>2, <2>1, <2>3
      <3> QED BY <3>1
    <2> QED BY <2>2, <2>3
  <1> QED BY <1>2, <1>5 DEF Mild


\* Whatever the worker makes of a message is mild, and on the port itself it takes the
\* connection or the word.
LEMMA HandledMild ==
    ASSUME SyncAssumption, BooksInv, NEW q \in Ports, port[q].page # None, NEW m \in UpMsgs,
           m.t = "connect" => Dialling(q)
    PROVE  LET y == Handled(w, q, m)
           IN  /\ Mild(w, y, q)
               /\ m.t = "connect" => Meets(w, y, q, DocOf(q), m)
               /\ m.t \in {"visible", "hidden"} => Takes(w, y, q, DocOf(q), m)
  <1> DEFINE y == Handled(w, q, m)
             d == DocOf(q)
             l == w.meta[q]
  <1>1. /\ w \in Workers /\ Books(w) /\ d \in Docs /\ \A r \in Ports : w.out[r] = <<>>
    BY PortDocs
  <1>2. \/ m.t = "connect" /\ w.meta[q] = None /\ Connects(w, y, q, m.r, m.n)
        \/ m.t # "connect" /\ w.meta[q] = None /\ y = w
        \/ m.t = "unsubscribe" /\ w.meta[q] # None /\ y = Unsubscribe(w, q)
        \/ m.t = "visible" /\ w.meta[q] # None
           /\ y = DeliverLatest([w EXCEPT !.meta[q].visible = TRUE], q)
        \/ m.t = "hidden" /\ w.meta[q] # None /\ y = [w EXCEPT !.meta[q].visible = FALSE]
    BY HandledCases
  <1>3. l # None /\ l.sub => w.subs[d] # None
    BY <1>1, BooksSay DEF Listens
  <1> HIDE DEF y
  <1> DEFINE G == /\ Mild(w, y, q)
                  /\ m.t = "connect" => Meets(w, y, q, d, m)
                  /\ m.t \in {"visible", "hidden"} => Takes(w, y, q, d, m)
  <1>4. ASSUME m.t = "connect", w.meta[q] = None, Connects(w, y, q, m.r, m.n) PROVE G
    <2>1. Meets(w, y, q, d, m)
      BY <1>4 DEF Connects, Meets
    <2>2. Mild(w, y, q)
      BY <1>1, <1>4, <2>1, ConnectMild
    <2> QED BY <1>4, <2>1, <2>2
  <1>5. ASSUME m.t # "connect", w.meta[q] = None, y = w PROVE G
    <2>1. Mild(w, y, q)
      BY <1>1, <1>5 DEF Mild
    <2>2. Takes(w, y, q, d, m)
      BY <1>1, <1>5 DEF Takes
    <2> QED BY <1>5, <2>1, <2>2
  <1>6. ASSUME m.t = "unsubscribe", w.meta[q] # None, y = Unsubscribe(w, q) PROVE G
    <2>1. Mild(w, y, q)
      BY <1>6, UnsubscribeMild
    <2> QED BY <1>6, <2>1
  <1>7. ASSUME SameBut(w, y, q) PROVE Mild(w, y, q)
    BY <1>1, <1>7 DEF Mild, SameBut
  <1>8. ASSUME m.t = "visible", w.meta[q] # None,
               y = DeliverLatest([w EXCEPT !.meta[q].visible = TRUE], q)
        PROVE  G
    <2> DEFINE f == Repeats(w.subs[d], l.seen)
    <2>1. /\ SameBut(w, y, q) /\ y.meta[q].visible
          /\ ~l.sub => y.out[q] = w.out[q]
          /\ l.sub => y.out[q] = w.out[q] \o f
      BY <1>1, <1>3, <1>8, VisibleFacts, ZenonT(30)
    <2>2. l.sub => f \in Seq(DownMsgs)
      <3> SUFFICES ASSUME l.sub PROVE f \in Seq(DownMsgs)
        OBVIOUS
      <3>1. w.subs[d] \in Subs /\ l.seen \in Nat
        BY <1>1, <1>3, <1>8 DEF Workers, Metas
      <3> QED BY <3>1, RepeatsFacts
    <2> HIDE DEF f
    <2>3. l.sub => <<>> \o f = f
      BY <2>2
    <2>4. y.out[q] = IF l.sub THEN f ELSE <<>>
      BY <1>1, <2>1, <2>3
    <2>5. y.meta[q].visible = TRUE
      <3>1. y.meta[q] \in Metas
        BY <2>1 DEF SameBut, Workers
      <3> QED BY <2>1, <3>1 DEF Metas
    <2>6. Takes(w, y, q, d, m)
      BY <1>8, <2>1, <2>4, <2>5 DEF Takes, SameBut, f
    <2> QED BY <1>7, <1>8, <2>1, <2>6
  <1>9. ASSUME m.t = "hidden", w.meta[q] # None, y = [w EXCEPT !.meta[q].visible = FALSE]
        PROVE  G
    <2>1. SameBut(w, y, q) /\ y.out = w.out /\ y.meta[q].visible = FALSE /\ y.meta[q].seen = l.seen
      BY <1>1, <1>9, ViewedFacts
    <2>2. Takes(w, y, q, d, m)
      BY <1>1, <1>9, <2>1, ZenonT(30) DEF Takes, SameBut
    <2> QED BY <1>7, <1>9, <2>1, <2>2
  <1>10. G
    BY <1>2, <1>4, <1>5, <1>6, <1>8, <1>9
  <1> QED BY <1>10 DEF y, d

\* A message leaves every page attended to: its sender is heard, the others are not disturbed.
LEMMA HandleCurrent ==
    ASSUME SyncAssumption, BooksInv, CurrentInv, NEW q \in Ports, Handle(q) PROVE CurrentInv'
  <1> DEFINE up == port[q].up
             m == Head(up)
             t == Tail(up)
             y == Handled(w, q, m)
             ps == [port EXCEPT ![q].up = t]
  <1>1. /\ up # <<>> /\ Returns(y, ps) /\ UNCHANGED <<of, cap, page, seq, log>>
    BY DEF Handle, hostVars
  <1>2. /\ ps \in [Ports -> PortRecords]
        /\ m \in UpMsgs /\ port[q].page # None
        /\ m.t = "connect" => Dialling(q)
        /\ \A r \in Ports : r # q => ps[r] = port[r]
        /\ ps[q].up = t /\ ps[q].page = port[q].page
        /\ ps[q].closed = port[q].closed /\ ps[q].down = port[q].down
    BY <1>1, UpTail
  <1>3. /\ Mild(w, y, q)
        /\ m.t = "connect" => Meets(w, y, q, DocOf(q), m)
        /\ m.t \in {"visible", "hidden"} => Takes(w, y, q, DocOf(q), m)
    BY <1>2, HandledMild
  <1>4. w \in Workers /\ PortOK(q) /\ port[q] \in PortRecords /\ up \in Seq(UpMsgs)
    BY PortDocs DEF PortRecords
  <1>5. Leaves1(up, m, t)
    BY <1>1, <1>4, ReappearsTail DEF PortOK
  <1>6. ps[q] = [port[q] EXCEPT !.up = t]
    BY DEF BooksInv
  <1>7. y \in Workers
    BY <1>3 DEF Mild
  <1> HIDE DEF y, m, t, ps, up
  <1>8. Answering(y)
    BY <1>3, <1>4, MildAnswering DEF CurrentInv
  <1>9. ASSUME NEW p \in Pages, page[p].st = "on", NEW r, r = page[p].port
        PROVE  /\ ~ps[r].closed
               /\ Attended(page[p], of[p], y, r, [ps[r] EXCEPT !.down = Joined(@, y.out[r])],
                           Frames(of[p]))
    <2>1. /\ r \in Ports /\ ~port[r].closed /\ DocOf(r) = of[p]
          /\ Attended(page[p], of[p], w, r, port[r], Frames(of[p]))
      BY <1>9, PageOn
    <2>2. CASE r # q
      <3>1. ps[r] = port[r]
        BY <1>2, <2>1, <2>2
      <3>2. Attended(page[p], of[p], y, r, [port[r] EXCEPT !.down = Joined(@, y.out[r])],
                     Frames(of[p]))
        BY <1>3, <1>9, <2>2, MildStays
      <3> QED BY <2>1, <3>1, <3>2
    <2>3. CASE r = q
      <3>1. m.t # "unsubscribe"
        <4>1. Phased(page[p], w.meta[q], w.subs[of[p]], port[q].up, port[q].down)
          BY <2>1, <2>3 DEF Attended
        <4>2. m \in Elems(port[q].up)
          BY <1>5 DEF Leaves1, up
        <4> QED BY <4>1, <4>2 DEF Phased
      <3>2. m.t \in {"connect", "visible", "hidden"}
        BY <1>2, <3>1 DEF UpMsgs, UpTypes
      <3>3. Leaves1(port[q].up, m, t)
        BY <1>5 DEF up
      <3>6. Attended(page[p], of[p], y, q, Goes(port[q], t, y.out[q]), Frames(of[p]))
        <4>0. q = page[p].port
          BY <1>9, <2>3
        <4>4. CASE m.t = "connect"
          <5>1. Meets(w, y, q, of[p], m)
            BY <1>3, <2>1, <2>3, <4>4
          <5> QED BY <1>9, <4>0, <3>3, <4>4, <5>1, ConnectAttends
        <4>5. CASE m.t \in {"visible", "hidden"}
          <5>1. Takes(w, y, q, of[p], m)
            BY <1>3, <2>1, <2>3, <4>5
          <5> QED BY <1>7, <1>9, <4>0, <3>3, <4>5, <5>1, WordAttends
        <4> QED BY <3>2, <4>4, <4>5
      <3>7. [ps[q] EXCEPT !.down = Joined(@, y.out[q])] = Goes(port[q], t, y.out[q])
        <4> DEFINE out == y.out[q]
                   v == ps[q]
                   u == port[q]
        <4>1. v \in PortRecords /\ u \in PortRecords /\ v = [u EXCEPT !.up = t]
          BY <1>2, <1>4, <1>6
        <4> HIDE DEF out, v, u
        <4>2. [v EXCEPT !.down = Joined(@, out)] = Goes(u, t, out)
          BY <4>1, GoesWhere
        <4> QED BY <4>2 DEF out, v, u
      <3>8. Attended(page[p], of[p], y, q, [ps[q] EXCEPT !.down = Joined(@, y.out[q])],
                     Frames(of[p]))
        BY <3>6, <3>7
      <3>9. ~ps[q].closed
        BY <1>2, <2>1, <2>3
      <3> QED BY <2>3, <3>8, <3>9
    <2> QED BY <2>2, <2>3
  <1> QED BY <1>1, <1>2, <1>7, <1>8, <1>9, WorkerCurrent


\* A sweep drops a port that no page will speak on again.
LEMMA SweepCurrent ==
    ASSUME SyncAssumption, BooksInv, CurrentInv, NEW q \in Ports, Sweep(q) PROVE CurrentInv'
  <1> DEFINE ps == IF port[q].closed THEN [port EXCEPT ![q] = NoPort] ELSE port
             y == DropPort(w, q)
  <1>1. port[q].page # None /\ Returns(y, ps) /\ UNCHANGED <<of, cap, page, seq, log>>
    BY DEF Sweep, hostVars
  <1>2. y.meta[q] = None /\ y.out[q] = <<>>
    BY <1>1, DropPortQuiet
  <1>3. port \in [Ports -> PortRecords] /\ NoPort \in PortRecords
    BY DEF BooksInv, NoPort, PortRecords
  <1>4. ps \in [Ports -> PortRecords]
    BY <1>3
  <1>5. /\ \A r \in Ports : r # q => ps[r] = port[r]
        /\ ps[q] = port[q] \/ port[q].closed
    BY <1>3
  <1>6. Mild(w, y, q)
    BY <1>1, UnsubscribeMild
  <1> HIDE DEF ps, y
  <1>7. w \in Workers /\ y \in Workers
    BY <1>6, PortDocs DEF Mild
  <1>8. Answering(y)
    BY <1>6, <1>7, MildAnswering DEF CurrentInv
  <1>9. ASSUME NEW p \in Pages, page[p].st = "on", NEW r, r = page[p].port
        PROVE  /\ ~ps[r].closed
               /\ Attended(page[p], of[p], y, r, [ps[r] EXCEPT !.down = Joined(@, y.out[r])],
                           Frames(of[p]))
    <2>1. /\ r \in Ports /\ ~port[r].closed /\ port[r] \in PortRecords /\ page[p] \in StreamPages
          /\ Attended(page[p], of[p], w, r, port[r], Frames(of[p]))
      BY <1>9, PageOn
    <2>2. ps[r] = port[r]
      BY <1>5, <2>1
    <2>3. CASE r # q
      <3>1. Attended(page[p], of[p], y, r, [port[r] EXCEPT !.down = Joined(@, y.out[r])],
                     Frames(of[p]))
        BY <1>6, <1>9, <2>3, MildStays
      <3> QED BY <2>1, <2>2, <3>1
    <2>4. CASE r = q
      <3> DEFINE g == page[p]
                 d == of[p]
                 u == port[r]
                 out == y.out[r]
                 fs == Frames(d)
      <3>1. /\ out = <<>> /\ y.meta[r] = None /\ u \in PortRecords /\ g.ready \in BOOLEAN
            /\ Attended(g, d, w, r, u, fs)
        BY <1>2, <2>1, <2>4 DEF StreamPages
      <3> HIDE DEF g, d, u, out, fs
      <3>2. Agrees(g, d, w, y, r, u, u.up, out, fs)
        BY <3>1 DEF Agrees, Attended, Visibly
      <3>3. out \in Seq(DownMsgs)
        BY <3>1
      <3>4. Attended(g, d, y, r, Goes(u, u.up, out), fs)
        <4>1. u \in PortRecords /\ g.ready \in BOOLEAN /\ Attended(g, d, w, r, u, fs)
          BY <3>1
        <4> QED BY <3>2, <3>3, <4>1, GoesOn
      <3>5. [u EXCEPT !.down = Joined(@, out)] = Goes(u, u.up, out)
        BY <3>1, GoesWhere
      <3>6. Attended(page[p], of[p], y, r, [port[r] EXCEPT !.down = Joined(@, y.out[r])],
                     Frames(of[p]))
        BY <3>4, <3>5 DEF g, d, u, out, fs
      <3> QED BY <2>1, <2>2, <3>6
    <2> QED BY <2>3, <2>4
  <1> QED BY <1>1, <1>4, <1>7, <1>8, <1>9, WorkerCurrent

\* A stream that is given up, or opened anew, loses nothing: what came by it comes by the next.
LEMMA AnewCurrent ==
    ASSUME SyncAssumption, BooksInv, CurrentInv, NEW y \in Workers, y.meta = w.meta, y.subs = w.subs,
           y.stream = None \/ ~y.stream.joined, NEW s \in States \ {"open"}, y.state = s,
           Announces(w, y, s), Returns(y, port), UNCHANGED <<of, cap, page, seq, log>>
    PROVE  CurrentInv'
  <1> DEFINE m == Msg("status", 0, s, FALSE)
  <1>1. Answering(y)
    BY DEF Answering
  <1>2. port \in [Ports -> PortRecords] /\ m \in DownMsgs /\ m.t = "status"
    BY StatusMsg DEF BooksInv
  <1> HIDE DEF m
  <1>3. \A q \in Ports : y.out[q] = <<>> \/ y.out[q] = Append(<<>>, m)
    BY PortDocs DEF Announces, m
  <1>4. \A q \in Ports : \A e \in Elems(y.out[q]) : e.t = "status"
    BY <1>2, <1>3, OneMessage
  <1>5. ASSUME NEW d PROVE Undisturbed(w, y, d, Frames(d))
    BY ComingStays DEF Undisturbed
  <1>6. ASSUME NEW p \in Pages, page[p].st = "on", NEW q, q = page[p].port
        PROVE  /\ ~port[q].closed
               /\ Attended(page[p], of[p], y, q, [port[q] EXCEPT !.down = Joined(@, y.out[q])],
                           Frames(of[p]))
    <2>1. q \in Ports /\ ~port[q].closed
      BY <1>6, PageOn
    <2>2. y.state # "open" /\ y.meta[q] = w.meta[q]
      OBVIOUS
    <2>3. \A e \in Elems(y.out[q]) : e.t = "status" /\ (y.state = "open" => e.k = "open")
      BY <1>4, <2>1, <2>2
    <2>4. Undisturbed(w, y, of[p], Frames(of[p]))
      BY <1>5
    <2>5. Attended(page[p], of[p], y, q, [port[q] EXCEPT !.down = Joined(@, y.out[q])],
                   Frames(of[p]))
      BY <1>6, <2>2, <2>3, <2>4, StaysAttended
    <2> QED BY <2>1, <2>5
  <1> QED BY <1>1, <1>2, <1>6, WorkerCurrent

\* A rebuilt stream starts from the worker's positions, so nothing stops coming.
LEMMA RebuildCurrent == ASSUME SyncAssumption, BooksInv, CurrentInv, Rebuild PROVE CurrentInv'
  <1> DEFINE y == Rebuilt(w)
  <1>1. Returns(y, port) /\ UNCHANGED <<of, cap, page, seq, log>>
    BY DEF Rebuild, hostVars
  <1>2. w \in Workers
    BY PortDocs
  <1>3. /\ y \in Workers
        /\ y.meta = w.meta /\ y.subs = w.subs
        /\ Open(w) = {} => y.state = "closed" /\ y.stream = None /\ Announces(w, y, "closed")
        /\ Open(w) # {} => /\ y.state = "connecting" /\ y.stream = NewStream(w)
                           /\ Announces(w, y, "connecting")
    BY <1>2, RebuiltFacts
  <1>4. ~NewStream(w).joined
    BY <1>2, NewStreamFacts
  <1> HIDE DEF y
  <1>5. "closed" \in States \ {"open"} /\ "connecting" \in States \ {"open"}
    BY DEF States
  <1>6. CASE Open(w) = {}
    BY <1>1, <1>3, <1>5, <1>6, AnewCurrent
  <1>7. CASE Open(w) # {}
    BY <1>1, <1>3, <1>4, <1>5, <1>7, AnewCurrent
  <1> QED BY <1>6, <1>7

\* Nor does anything when the stream breaks: the next one starts from there too.
LEMMA BreakCurrent == ASSUME SyncAssumption, BooksInv, CurrentInv, Break PROVE CurrentInv'
  <1> DEFINE y == Broken(w)
  <1>1. Returns(y, port) /\ UNCHANGED <<of, cap, page, seq, log>>
    BY DEF Break, hostVars
  <1>2. /\ y \in Workers /\ y.state = "connecting"
        /\ y.meta = w.meta /\ y.subs = w.subs /\ y.stream = None /\ Announces(w, y, "connecting")
    BY PortDocs, BrokenFacts
  <1> HIDE DEF y
  <1>3. "connecting" \in States \ {"open"}
    BY DEF States
  <1> QED BY <1>1, <1>2, <1>3, AnewCurrent

\* The worker with the next event, e, read from its stream.
Shortened(x, e) ==
    /\ x \in Workers /\ x.state = w.state /\ x.subs = w.subs /\ x.meta = w.meta /\ x.out = w.out
    /\ w.stream # None /\ x.stream # None
    /\ x.stream.docs = w.stream.docs /\ x.stream.joined = w.stream.joined
    /\ Elems(w.stream.q) = Elems(x.stream.q) \cup {e}

\* Reading the next event of the stream leaves everything else of the worker alone.
LEMMA ShortenedFacts ==
    ASSUME SyncAssumption, BooksInv, OrderInv, w.stream # None, w.stream.q # <<>>
    PROVE  Shortened(Shorter(w), Head(w.stream.q))
  <1> DEFINE x == Shorter(w)
             e == Head(w.stream.q)
  <1>1. Books(w)
    BY PortDocs
  <1>2. /\ x \in Workers /\ x.state = w.state /\ x.subs = w.subs /\ x.meta = w.meta /\ x.out = w.out
        /\ x.stream # None /\ x.stream.docs = w.stream.docs /\ x.stream.joined = w.stream.joined
    BY <1>1, ShorterFacts
  <1>3. Elems(w.stream.q) = Elems(x.stream.q) \cup {e}
    BY TailOrder
  <1> HIDE DEF x, e
  <1>4. Shortened(x, e)
    BY <1>2, <1>3 DEF Shortened
  <1> QED BY <1>4 DEF x, e

\* An event that is neither f nor its repair leaves f coming.
LEMMA ShortComing ==
    ASSUME NEW x, NEW e, Shortened(x, e), NEW f, Coming(w, f), e # f,
           f.doc \in x.stream.docs => ~(e.doc = f.doc /\ Repairs(e))
    PROVE  Coming(x, f)
  BY DEF Shortened, Coming

\* A handler of an event leaves the other documents as they were, and port q, that does
\* not listen to its own.
Elsewhere(x, y, e, q) ==
    /\ y \in Workers /\ y.state = w.state /\ y.meta[q] = w.meta[q] /\ y.out[q] = <<>>
    /\ \A c \in Docs : c # e.doc => y.subs[c] = w.subs[c]
    /\ y.stream = x.stream \/ y.stream = Trimmed(x.stream, e.doc)
    /\ Listens(w, q) => DocOf(q) # e.doc

\* An event of one document leaves the pages of the others attended to.
LEMMA OtherStays ==
    ASSUME SyncAssumption, BooksInv, CurrentInv, NEW x, NEW e, Shortened(x, e), e.doc \in Docs,
           NEW p \in Pages, page[p].st = "on", NEW q, q = page[p].port,
           NEW y, Elsewhere(x, y, e, q)
    PROVE  Attended(page[p], of[p], y, q, [port[q] EXCEPT !.down = Joined(@, y.out[q])],
                    Frames(of[p]))
  <1> DEFINE d == of[p]
  <1>1. d \in Docs /\ d = DocOf(q)
    BY PageOn
  <1>2. \A f \in Frames(d) : f.doc = d
    BY FramesAre
  <1>0. /\ y \in Workers /\ y.state = w.state /\ y.meta[q] = w.meta[q] /\ y.out[q] = <<>>
        /\ \A c \in Docs : c # e.doc => y.subs[c] = w.subs[c]
        /\ y.stream = x.stream \/ y.stream = Trimmed(x.stream, e.doc)
        /\ Listens(w, q) => d # e.doc
    BY <1>1 DEF Elsewhere
  <1>3. Elems(y.out[q]) = {}
    BY <1>0, NoElems
  <1>4. ASSUME d # e.doc PROVE Undisturbed(w, y, d, Frames(d))
    <2>1. y.subs[d] = w.subs[d]
      BY <1>0, <1>1, <1>4
    <2>2. ASSUME NEW f \in Frames(d), Coming(w, f) PROVE Coming(y, f)
      <3>1. f.doc = d /\ e.doc # f.doc
        BY <1>2, <1>4
      <3>2. Coming(x, f)
        BY <2>2, <3>1, ShortComing
      <3>3. x \in Workers /\ y.subs[f.doc].since = x.subs[f.doc].since
        BY <2>1, <3>1 DEF Shortened
      <3> QED BY <1>0, <3>2, <3>3, ComingTrimmed
    <2> QED BY <2>1, <2>2 DEF Undisturbed
  <1> QED BY <1>0, <1>3, <1>4, StaysAttended

\* A refused document's pages are told that it is gone.
LEMMA RefusedAttends ==
    ASSUME SyncAssumption, BooksInv, CurrentInv, NEW x, NEW e, Shortened(x, e), e.doc \in Open(w),
           NEW y, Refuses(x, y, e.doc),
           NEW p \in Pages, page[p].st = "on", NEW q, q = page[p].port
    PROVE  Attended(page[p], of[p], y, q, [port[q] EXCEPT !.down = Joined(@, y.out[q])],
                    Frames(of[p]))
  <1> DEFINE g == page[p]
             d == of[p]
             c == e.doc
             u == port[q]
             out == y.out[q]
             l == w.meta[q]
             k == y.meta[q]
             fs == Frames(of[p])
             qs == w.subs[e.doc].ports
  <1>1. /\ q \in Ports /\ u \in PortRecords /\ d = DocOf(q) /\ d \in Docs /\ g \in StreamPages
        /\ Attended(g, d, w, q, u, fs) /\ w.out[q] = <<>> /\ c \in Docs
        /\ Listens(w, q) => q \in w.subs[d].ports
    BY PageOn DEF Open
  <1>2. /\ y \in Workers /\ y.state = w.state
        /\ y.subs = [w.subs EXCEPT ![c] = None]
        /\ y.stream = Trimmed(x.stream, c)
        /\ k = IF q \in qs THEN Quit(l) ELSE l
        /\ out = IF q \in qs THEN Append(<<>>, Msg("gone", 0, None, FALSE)) ELSE <<>>
    <2>1. x.state = w.state /\ x.subs = w.subs /\ x.meta = w.meta /\ x.out[q] = <<>>
      BY <1>1 DEF Shortened
    <2>2. /\ y \in Workers /\ y.state = x.state
          /\ y.subs = [x.subs EXCEPT ![c] = None]
          /\ y.stream = Trimmed(x.stream, c)
          /\ y.meta[q] = IF q \in x.subs[c].ports THEN Quit(x.meta[q]) ELSE x.meta[q]
          /\ y.out[q] = IF q \in x.subs[c].ports THEN Append(x.out[q], Msg("gone", 0, None, FALSE))
                        ELSE x.out[q]
      BY <1>1 DEF Refuses
    <2> QED BY <2>1, <2>2
  <1>3. CASE q \notin qs
    <2>1. Listens(w, q) => d # c
      BY <1>1, <1>3
    <2>2. \A a \in Docs : a # c => y.subs[a] = w.subs[a]
      <3>1. w.subs \in [Docs -> Subs \cup {None}]
        BY PortDocs DEF Workers
      <3> QED BY <1>2, <3>1
    <2>3. k = l /\ out = <<>>
      BY <1>2, <1>3
    <2>4. Elsewhere(x, y, e, q)
      BY <1>1, <1>2, <2>1, <2>2, <2>3 DEF Elsewhere
    <2> QED BY <1>1, <2>4, OtherStays
  <1>4. CASE q \in qs
    <2> DEFINE m == Msg("gone", 0, None, FALSE)
    <2>1. m \in DownMsgs /\ m.t = "gone"
      BY GoneMsg
    <2>2. l \in Metas
      BY <1>4, PortDocs, BooksSay DEF Listens
    <2>3. k # None /\ l # None /\ ~k.sub
      BY <1>2, <1>4, <2>2, MetaFacts
    <2> HIDE DEF m
    <2>4. out \in Seq(DownMsgs) /\ Elems(out) = {m}
      <3>1. out = Append(<<>>, m)
        BY <1>2, <1>4 DEF m
      <3> HIDE DEF out
      <3>2. out \in Seq(DownMsgs)
        BY <2>1, <3>1
      <3> QED BY <2>1, <3>1, <3>2, OneMessage
    <2>5. Visibly(g, l, u.up) /\ g.ready \in BOOLEAN
      BY <1>1 DEF Attended, StreamPages
    <2> HIDE DEF g, d, u, out, k, l, fs
    <2>6. Visibly(g, k, u.up)
      BY <2>3, <2>5, SMTT(30) DEF Visibly
    <2>7. Agrees(g, d, w, y, q, u, u.up, out, fs)
      BY <1>2, <2>1, <2>3, <2>4, <2>6, ZenonT(30) DEF Agrees, k, l
    <2>8. Attended(g, d, y, q, Goes(u, u.up, out), fs)
      <3>1. /\ u \in PortRecords /\ g.ready \in BOOLEAN /\ out \in Seq(DownMsgs)
            /\ Attended(g, d, w, q, u, fs)
        BY <1>1, <2>4, <2>5
      <3> QED BY <2>7, <3>1, GoesOn
    <2>9. Goes(u, u.up, out) = [u EXCEPT !.down = Joined(@, out)]
      BY <1>1, GoesWhere
    <2> QED BY <2>8, <2>9 DEF g, d, u, out, fs
  <1> QED BY <1>3, <1>4

\* What an event of its own document leaves a page with, for every frame f it has to have.
LEMMA EventKeeps ==
    ASSUME NEW g, NEW x, NEW e, Shortened(x, e), NEW y, NEW l, NEW k,
           NEW down \in Seq(DownMsgs), NEW out \in Seq(DownMsgs), NEW f, f.doc = e.doc,
           Reaches(g, w, l, down, f),
           Coming(w, f) => Carries(out, f) \/ KeptFor(k, y.subs[f.doc], f) \/ Coming(y, f),
           KeptFor(l, w.subs[f.doc], f) => Carries(out, f) \/ KeptFor(k, y.subs[f.doc], f)
    PROVE  Reaches(g, y, k, Joined(down, out), f)
  BY JoinedSays DEF Reaches

\* A cursor goes to every page of its document; one that says resync repairs it.
LEMMA CursorAttends ==
    ASSUME SyncAssumption, BooksInv, CurrentInv, NEW x, NEW e, Shortened(x, e), e.doc \in Open(w),
           e.t = "cursor", e.n \in Nat, e.r \in BOOLEAN,
           w.subs[e.doc].opened => e.n = w.subs[e.doc].since,
           NEW y, Cursors(x, y, e.doc, e.n, e.r),
           NEW p \in Pages, page[p].st = "on", NEW q, q = page[p].port
    PROVE  Attended(page[p], of[p], y, q, [port[q] EXCEPT !.down = Joined(@, y.out[q])],
                    Frames(of[p]))
  <1> DEFINE g == page[p]
             d == of[p]
             c == e.doc
             u == port[q]
             out == y.out[q]
             l == w.meta[q]
             k == y.meta[q]
             fs == Frames(of[p])
             qs == w.subs[e.doc].ports
             sub == w.subs[e.doc]
             new == Answered(sub, e.n, e.r)
  <1>1. /\ q \in Ports /\ u \in PortRecords /\ d = DocOf(q) /\ d \in Docs /\ g \in StreamPages
        /\ Attended(g, d, w, q, u, fs) /\ w.out[q] = <<>> /\ c \in Docs
        /\ u.down \in Seq(DownMsgs)
        /\ Listens(w, q) => q \in w.subs[d].ports
    BY PageOn DEF Open
  <1>2. /\ y \in Workers /\ y.state = w.state /\ y.stream = x.stream
        /\ y.subs = [w.subs EXCEPT ![c] = new]
        /\ k = IF q \in qs THEN Resumed(l) ELSE l
        /\ q \notin qs => out = <<>>
        /\ q \in qs => \E m \in DownMsgs : /\ m.t = "cursor" /\ m.n = e.n /\ (e.r => m.r)
                                           /\ out = Append(<<>>, m)
    <2>1. x.state = w.state /\ x.subs = w.subs /\ x.meta = w.meta /\ x.out[q] = <<>>
      BY <1>1, SMTT(30) DEF Shortened
    <2>2. /\ y \in Workers /\ y.state = x.state /\ y.stream = x.stream
          /\ y.subs = [x.subs EXCEPT ![c] = Answered(@, e.n, e.r)]
          /\ y.meta[q] = IF q \in x.subs[c].ports THEN Resumed(x.meta[q]) ELSE x.meta[q]
          /\ q \notin x.subs[c].ports => y.out[q] = x.out[q]
          /\ q \in x.subs[c].ports =>
                \E m \in DownMsgs : /\ m.t = "cursor" /\ m.n = e.n /\ (e.r => m.r)
                                    /\ y.out[q] = Append(x.out[q], m)
      BY <1>1 DEF Cursors
    <2> HIDE DEF new
    <2>3. [x.subs EXCEPT ![c] = Answered(@, e.n, e.r)] = [w.subs EXCEPT ![c] = new]
      BY <2>1 DEF new
    <2> QED BY <2>1, <2>2, <2>3
  <1>3. CASE q \notin qs
    <2>1. Listens(w, q) => d # c
      BY <1>1, <1>3
    <2>2. \A a \in Docs : a # c => y.subs[a] = w.subs[a]
      <3>1. w.subs \in [Docs -> Subs \cup {None}]
        BY PortDocs DEF Workers
      <3> HIDE DEF new
      <3> QED BY <1>2, <3>1
    <2>3. k = l /\ out = <<>>
      BY <1>2, <1>3
    <2>4. Elsewhere(x, y, e, q)
      BY <1>1, <1>2, <2>1, <2>2, <2>3 DEF Elsewhere
    <2> QED BY <1>1, <2>4, OtherStays
  <1>4. CASE q \in qs
    <2>1. PICK m \in DownMsgs : /\ m.t = "cursor" /\ m.n = e.n /\ (e.r => m.r)
                                /\ out = Append(<<>>, m)
      BY <1>2, <1>4
    <2>2. l \in Metas /\ l # None /\ l.sub /\ d = c /\ sub \in Subs
      BY <1>1, <1>4, PortDocs, BooksSay DEF Listens
    <2>3. /\ k # None /\ k.cursored /\ k.sub = l.sub /\ k.visible = l.visible /\ k.seen = l.seen
      <3>1. k = Resumed(l)
        BY <1>2, <1>4
      <3> HIDE DEF k, l
      <3>2. /\ Resumed(l) # None /\ Resumed(l).cursored /\ Resumed(l).sub = l.sub
            /\ Resumed(l).visible = l.visible /\ Resumed(l).seen = l.seen
        BY <2>2, ResumedFacts
      <3> QED BY <3>1, <3>2
    <2>4. /\ new.opened /\ new.since = e.n
          /\ new.content = IF e.r THEN NoContent ELSE sub.content
      BY <2>2, AnsweredFacts
    <2> HIDE DEF new
    <2>5. y.subs[c] = new
      <3>1. w.subs \in [Docs -> Subs \cup {None}]
        BY PortDocs DEF Workers
      <3> QED BY <1>1, <1>2, <3>1
    <2>6. out \in Seq(DownMsgs) /\ Elems(out) = {m}
      <3> HIDE DEF out
      <3>1. out \in Seq(DownMsgs)
        BY <2>1
      <3> QED BY <2>1, <3>1, OneMessage
    <2>7. /\ Visibly(g, l, u.up) /\ g.ready \in BOOLEAN
          /\ Phased(g, l, w.subs[d], u.up, u.down)
      BY <1>1 DEF Attended, StreamPages
    <2>8. \A f \in fs : f.doc = d /\ f.t = "frame"
      BY FramesAre
    <2> HIDE DEF g, d, u, out, k, l, fs, sub, qs
    <2>9. Visibly(g, k, u.up)
      BY <2>2, <2>3, <2>7 DEF Visibly
    <2>10. ASSUME ~Asking(g), NEW f \in fs, Reaches(g, w, l, u.down, f)
           PROVE  Reaches(g, y, k, Joined(u.down, out), f)
      <3>1. f.doc = c /\ f.doc = d /\ f.t = "frame"
        BY <2>2, <2>8, <2>10
      <3>2. sub.opened /\ e.n = sub.since
        <4>1. l.cursored \in BOOLEAN /\ sub.opened \in BOOLEAN
          BY <2>2 DEF Metas, Subs
        <4>2. sub.opened
          BY <2>2, <2>7, <2>10, <4>1 DEF Phased, sub
        <4> QED BY <4>2 DEF sub
      <3>3. ASSUME Coming(w, f) PROVE Carries(out, f) \/ Coming(y, f)
        <4>1. CASE e.r
          BY <2>1, <2>6, <4>1 DEF Carries
        <4>2. CASE ~e.r
          <5>1. Coming(x, f)
            BY <3>1, <3>3, <4>2, ShortComing DEF Repairs
          <5>2. y.subs[f.doc].since = x.subs[f.doc].since
            BY <2>4, <2>5, <3>1, <3>2 DEF Shortened, sub
          <5> QED BY <1>2, <5>1, <5>2 DEF Coming
        <4> QED BY <4>1, <4>2
      <3>4. ASSUME KeptFor(l, w.subs[f.doc], f) PROVE Carries(out, f) \/ KeptFor(k, y.subs[f.doc], f)
        <4>1. CASE e.r
          BY <2>1, <2>6, <4>1 DEF Carries
        <4>2. CASE ~e.r
          BY <2>3, <2>4, <2>5, <3>1, <3>4, <4>2 DEF KeptFor, sub
        <4> QED BY <4>1, <4>2
      <3>5. /\ Coming(w, f) => Carries(out, f) \/ KeptFor(k, y.subs[f.doc], f) \/ Coming(y, f)
            /\ KeptFor(l, w.subs[f.doc], f) => Carries(out, f) \/ KeptFor(k, y.subs[f.doc], f)
        BY <3>3, <3>4
      <3>6. u.down \in Seq(DownMsgs) /\ f.doc = e.doc
        BY <1>1, <3>1 DEF u
      <3> DEFINE down == u.down
      <3> HIDE DEF down
      <3>7. Reaches(g, w, l, down, f) /\ down \in Seq(DownMsgs)
        BY <2>10, <3>6 DEF down
      <3>8. Reaches(g, y, k, Joined(down, out), f)
        BY <2>6, <3>5, <3>6, <3>7, EventKeeps, SMTT(30)
      <3> QED BY <3>8 DEF down
    <2>11. Agrees(g, d, w, y, q, u, u.up, out, fs)
      <3>1. k.cursored <=> y.subs[d].opened
        BY <2>2, <2>3, <2>4, <2>5
      <3> QED BY <1>2, <2>1, <2>2, <2>3, <2>6, <2>9, <2>10, <3>1, ZenonT(30) DEF Agrees, k, l
    <2>12. Attended(g, d, y, q, Goes(u, u.up, out), fs)
      <3>1. /\ u \in PortRecords /\ g.ready \in BOOLEAN /\ out \in Seq(DownMsgs)
            /\ Attended(g, d, w, q, u, fs)
        BY <1>1, <2>6, <2>7
      <3> QED BY <2>11, <3>1, GoesOn
    <2>13. Goes(u, u.up, out) = [u EXCEPT !.down = Joined(@, out)]
      BY <1>1, GoesWhere
    <2> QED BY <2>12, <2>13 DEF g, d, u, out, fs
  <1> QED BY <1>3, <1>4

\* A frame is shown to a port that is visible, and to no other.
ShowsTo(l, k, out, e) ==
    /\ k = IF l.visible THEN Shown(l, e.n) ELSE l
    /\ out = IF l.visible THEN Append(<<>>, Msg("frame", e.n, e.k, FALSE)) ELSE <<>>

\* What that comes to: the record keeps what it said, and who is visible gets the frame.
Showed(l, k, out, e) ==
    /\ k # None /\ k.sub = l.sub /\ k.visible = l.visible /\ k.cursored = l.cursored
    /\ ~l.visible => k.seen = l.seen
    /\ out \in Seq(DownMsgs)
    /\ \A f \in Elems(out) : f.t = "frame"
    /\ l.visible => \E f \in Elems(out) : f.t = "frame" /\ f.n = e.n /\ f.k = e.k

\* A port that a frame is shown to has been shown it.
LEMMA ShownTo ==
    ASSUME SyncAssumption, NEW l \in Metas, NEW k, NEW out,
           NEW e, e.n \in Nat, e.k \in Kinds, ShowsTo(l, k, out, e)
    PROVE  Showed(l, k, out, e)
  <1> DEFINE m == Msg("frame", e.n, e.k, FALSE)
             s == Shown(l, e.n)
  <1>1. m \in DownMsgs /\ m.t = "frame" /\ m.n = e.n /\ m.k = e.k
    BY FrameMsg, ZenonT(30)
  <1>2. s # None /\ s.sub = l.sub /\ s.visible = l.visible /\ s.cursored = l.cursored
    BY FedFacts
  <1>3. l # None
    BY MetaFacts
  <1> HIDE DEF m, s
  <1>4. CASE l.visible
    <2>1. k = s /\ out = Append(<<>>, m)
      BY <1>4 DEF m, s, ShowsTo
    <2>2. Append(<<>>, m) \in Seq(DownMsgs)
      BY <1>1
    <2>3. Elems(out) = {m}
      BY <1>1, <2>1, OneMessage
    <2> QED BY <1>1, <1>2, <1>4, <2>1, <2>2, <2>3 DEF Showed
  <1>5. CASE ~l.visible
    <2>1. k = l /\ out = <<>>
      BY <1>5 DEF ShowsTo
    <2> QED BY <1>3, <1>5, <2>1, NoElems DEF Showed
  <1> QED BY <1>4, <1>5

\* e is the first of the events left for its document, that are all frames.
Foremost(x, e) == \A f \in Elems(x.stream.q) : f.doc = e.doc => f.t = "frame" /\ e.n < f.n

\* A frame goes to every visible page of its document, and is kept for the hidden ones.
LEMMA FrameAttends ==
    ASSUME SyncAssumption, BooksInv, OrderInv, CurrentInv, NEW x, NEW e, Shortened(x, e),
           e.doc \in Open(w), e.t = "frame", e.n \in Nat, e.k \in Kinds,
           w.subs[e.doc].opened, w.subs[e.doc].since < e.n,
           e.doc \in x.stream.docs, x.stream.joined, Foremost(x, e),
           NEW y, Feeds(x, y, e.doc, e.n, e.k),
           NEW p \in Pages, page[p].st = "on", NEW q, q = page[p].port
    PROVE  Attended(page[p], of[p], y, q, [port[q] EXCEPT !.down = Joined(@, y.out[q])],
                    Frames(of[p]))
  <1> DEFINE g == page[p]
             d == of[p]
             c == e.doc
             u == port[q]
             out == y.out[q]
             l == w.meta[q]
             k == y.meta[q]
             fs == Frames(of[p])
             sub == w.subs[e.doc]
             qs == {r \in w.subs[e.doc].ports : w.meta[r].visible}
             new == Fed(sub, e.n, e.k)
             m == Msg("frame", e.n, e.k, FALSE)
  <1>1. /\ q \in Ports /\ u \in PortRecords /\ d = DocOf(q) /\ d \in Docs /\ g \in StreamPages
        /\ Attended(g, d, w, q, u, fs) /\ w.out[q] = <<>> /\ c \in Docs
        /\ u.down \in Seq(DownMsgs)
        /\ Listens(w, q) => q \in w.subs[d].ports
    BY PageOn DEF Open
  <1>2. sub \in Subs /\ Higher(e.n, sub.since) = e.n
    <2>1. sub \in Subs
      BY PortDocs, BooksSay
    <2> QED BY <2>1 DEF Subs, Higher
  <1>3. /\ y \in Workers /\ y.state = w.state /\ y.stream = x.stream
        /\ y.subs = [w.subs EXCEPT ![c] = new]
        /\ k = IF q \in qs THEN Shown(l, e.n) ELSE l
        /\ out = IF q \in qs THEN Append(<<>>, m) ELSE <<>>
    <2>1. x.state = w.state /\ x.subs = w.subs /\ x.meta = w.meta /\ x.out[q] = <<>>
      BY <1>1 DEF Shortened
    <2> DEFINE xs == {r \in x.subs[c].ports : x.meta[r].visible}
               id == Higher(e.n, x.subs[c].since)
    <2>2. /\ y \in Workers /\ y.state = x.state /\ y.stream = x.stream
          /\ y.subs = [x.subs EXCEPT ![c] = Fed(@, id, e.k)]
          /\ y.meta[q] = IF q \in xs THEN Shown(x.meta[q], id) ELSE x.meta[q]
          /\ y.out[q] = IF q \in xs THEN Append(x.out[q], m) ELSE x.out[q]
      BY <1>1 DEF Feeds
    <2>3. xs = qs /\ id = e.n
      BY <1>2, <2>1
    <2> HIDE DEF new, xs, id, m, qs
    <2>4. [x.subs EXCEPT ![c] = Fed(@, id, e.k)] = [w.subs EXCEPT ![c] = new]
      BY <2>1, <2>3 DEF new
    <2> QED BY <2>1, <2>2, <2>3, <2>4
  <1>4. w.subs \in [Docs -> Subs \cup {None}]
    BY PortDocs DEF Workers
  <1>5. y.subs[c] = new /\ \A a \in Docs : a # c => y.subs[a] = w.subs[a]
    <2> HIDE DEF new
    <2> QED BY <1>1, <1>3, <1>4
  <1>6. CASE ~Listens(w, q) \/ d # c
    <2>1. q \notin qs
      BY <1>1, <1>6, PortDocs, BooksSay
    <2>2. k = l /\ out = <<>>
      BY <1>3, <2>1
    <2>3. Elsewhere(x, y, e, q)
      BY <1>1, <1>3, <1>5, <1>6, <2>2 DEF Elsewhere
    <2> QED BY <1>1, <2>3, OtherStays
  <1>7. CASE Listens(w, q) /\ d = c
    <2>1. l \in Metas /\ l # None /\ l.sub /\ q \in sub.ports
      BY <1>1, <1>7, PortDocs, BooksSay DEF Listens
    <2>2. SubRight(sub) /\ SeenRight(l, sub)
      BY <1>1, <1>7, <2>1 DEF OrderInv, SubOrder
    <2>3. /\ \A b \in Kinds : sub.content[b] \in Nat /\ sub.content[b] <= sub.since
          /\ sub.since \in Nat /\ l.seen \in Nat /\ l.seen <= sub.since
      BY <1>2, <2>1, <2>2 DEF SubRight, SeenRight, Subs, Metas
    <2>4. /\ new.opened = sub.opened /\ new.since = e.n
          /\ new.content[e.k] = e.n /\ \A b \in Kinds : b # e.k => new.content[b] = sub.content[b]
      <3>1. sub \in Subs
        BY <1>2
      <3> HIDE DEF sub
      <3> QED BY <3>1, FedFields
    <2> HIDE DEF new
    <2>5. /\ k # None /\ k.sub = l.sub /\ k.visible = l.visible /\ k.cursored = l.cursored
          /\ ~l.visible => k.seen = l.seen
          /\ out \in Seq(DownMsgs)
          /\ \A b \in Elems(out) : b.t = "frame"
          /\ l.visible => \E b \in Elems(out) : b.t = "frame" /\ b.n = e.n /\ b.k = e.k
      <3>1. /\ k = IF l.visible THEN Shown(l, e.n) ELSE l
            /\ out = IF l.visible THEN Append(<<>>, m) ELSE <<>>
        BY <1>3, <2>1
      <3>2. ShowsTo(l, k, out, e)
        BY <3>1 DEF ShowsTo
      <3> HIDE DEF k, l, out
      <3>3. Showed(l, k, out, e)
        BY <2>1, <3>2, ShownTo
      <3> QED BY <3>3 DEF Showed
    <2>8. /\ Visibly(g, l, u.up) /\ g.ready \in BOOLEAN
          /\ Phased(g, l, w.subs[d], u.up, u.down)
      BY <1>1 DEF Attended, StreamPages
    <2>9. \A f \in fs : f.doc = d /\ f.t = "frame" /\ f.k \in Kinds /\ f.n \in Nat
      BY FramesAre
    <2> HIDE DEF g, d, u, out, k, l, fs, sub, qs
    <2>10. Visibly(g, k, u.up)
      BY <2>1, <2>5, <2>8 DEF Visibly
    <2>11. ASSUME ~Asking(g), NEW f \in fs, Reaches(g, w, l, u.down, f)
           PROVE  Reaches(g, y, k, Joined(u.down, out), f)
      <3>1. f.doc = e.doc /\ f.t = "frame" /\ f.k \in Kinds /\ f.n \in Nat
        BY <1>7, <2>9, <2>11
      <3>2. y.subs[f.doc] = new /\ w.subs[f.doc] = sub
        BY <1>5, <3>1 DEF sub
      <3>3. ASSUME Coming(w, f), e = f PROVE Carries(out, f) \/ KeptFor(k, new, f)
        <4>1. CASE l.visible
          BY <2>5, <3>1, <3>3, <4>1 DEF Carries
        <4>2. CASE ~l.visible
          <5>1. e.n <= new.content[e.k] /\ l.seen < new.content[e.k]
            BY <2>3, <2>4 DEF sub
          <5> QED BY <2>5, <3>3, <4>2, <5>1 DEF KeptFor
        <4> QED BY <4>1, <4>2
      <3>4. ASSUME Coming(w, f), e # f PROVE Coming(y, f)
        <4>1. Coming(x, f)
          BY <3>4, ShortComing DEF Repairs
        <4>2. f \in Elems(x.stream.q) /\ e.n < f.n
          BY <3>1, <4>1 DEF Coming, Repairs, Shortened, Foremost
        <4> QED BY <1>3, <2>4, <3>2, <4>2 DEF Coming
      <3>5. ASSUME KeptFor(l, sub, f) PROVE Carries(out, f) \/ KeptFor(k, new, f)
        <4>1. ~l.visible /\ f.n <= sub.content[f.k] /\ l.seen < sub.content[f.k]
          BY <3>5 DEF KeptFor
        <4>2. sub.content[f.k] \in Nat /\ sub.content[f.k] <= new.content[f.k] /\ new.content[f.k] \in Nat
          BY <2>3, <2>4, <3>1 DEF sub
        <4> QED BY <2>3, <2>5, <3>1, <4>1, <4>2 DEF KeptFor
      <3>6. /\ Coming(w, f) => Carries(out, f) \/ KeptFor(k, y.subs[f.doc], f) \/ Coming(y, f)
            /\ KeptFor(l, w.subs[f.doc], f) => Carries(out, f) \/ KeptFor(k, y.subs[f.doc], f)
        BY <3>2, <3>3, <3>4, <3>5
      <3> DEFINE down == u.down
      <3> HIDE DEF down
      <3>7. Reaches(g, w, l, down, f) /\ down \in Seq(DownMsgs)
        BY <1>1, <2>11 DEF down, u
      <3>8. Reaches(g, y, k, Joined(down, out), f)
        BY <2>5, <3>1, <3>6, <3>7, EventKeeps, SMTT(30)
      <3> QED BY <3>8 DEF down
    <2>12. Agrees(g, d, w, y, q, u, u.up, out, fs)
      <3>1. \A b \in Elems(out) : b.t # "status" /\ b.t # "cursor"
        BY <2>5
      <3>2. y.subs[d].opened = w.subs[d].opened
        BY <1>5, <1>7, <2>4 DEF sub
      <3>3. k.sub => (k.cursored <=> y.subs[d].opened)
        BY <2>1, <2>5, <2>8, <3>2 DEF Phased
      <3> QED BY <1>3, <2>1, <2>5, <2>10, <2>11, <3>1, <3>3, ZenonT(30) DEF Agrees, k, l
    <2>13. Attended(g, d, y, q, Goes(u, u.up, out), fs)
      <3>1. /\ u \in PortRecords /\ g.ready \in BOOLEAN /\ out \in Seq(DownMsgs)
            /\ Attended(g, d, w, q, u, fs)
        BY <1>1, <2>5, <2>8
      <3> QED BY <2>12, <3>1, GoesOn
    <2>14. Goes(u, u.up, out) = [u EXCEPT !.down = Joined(@, out)]
      BY <1>1, GoesWhere
    <2> QED BY <2>13, <2>14 DEF g, d, u, out, fs
  <1> QED BY <1>6, <1>7

\* Only the answer itself says that the stream was answered.
LEMMA ShortAnswers ==
    ASSUME SyncAssumption, CurrentInv, NEW x, NEW e, Shortened(x, e), e.t # "open",
           NEW y, y.state = w.state, NEW d, y.stream = x.stream \/ y.stream = Trimmed(x.stream, d)
    PROVE  Answering(y)
  <1>1. x.stream \in Streams \cup {None}
    BY DEF Shortened, Workers
  <1>2. LET t == Trimmed(x.stream, d)
        IN  t # None /\ t.joined = x.stream.joined /\ t.q = x.stream.q
    BY <1>1, TrimmedFacts DEF Shortened
  <1>3. /\ w.stream # None /\ x.stream.joined = w.stream.joined
        /\ Elems(w.stream.q) = Elems(x.stream.q) \cup {e}
    BY DEF Shortened
  <1>4. w.stream.joined => w.state = "open" \/ \E f \in Elems(w.stream.q) : f.t = "open"
    BY <1>3 DEF CurrentInv, Answering
  <1>5. x.stream.joined => w.state = "open" \/ \E f \in Elems(x.stream.q) : f.t = "open"
    BY <1>3, <1>4
  <1> QED BY <1>2, <1>5 DEF Answering

\* The answer tells every port that the stream is open.
LEMMA OpenAttends ==
    ASSUME SyncAssumption, BooksInv, CurrentInv, NEW x, NEW e, Shortened(x, e), e.t = "open",
           NEW y \in Workers, y.state = "open", y.meta = x.meta, y.subs = x.subs, y.stream = x.stream,
           Announces(x, y, "open"),
           NEW p \in Pages, page[p].st = "on", NEW q, q = page[p].port
    PROVE  Attended(page[p], of[p], y, q, [port[q] EXCEPT !.down = Joined(@, y.out[q])],
                    Frames(of[p]))
  <1> DEFINE m == Msg("status", 0, "open", FALSE)
             d == of[p]
  <1>1. m \in DownMsgs /\ m.t = "status" /\ m.k = "open"
    <2>1. "open" \in States
      BY DEF States
    <2> QED BY <2>1, StatusMsg
  <1>2. q \in Ports /\ w.out[q] = <<>>
    BY PageOn
  <1>3. /\ x.meta = w.meta /\ x.subs = w.subs /\ x.state = w.state /\ x.out[q] = <<>>
    BY <1>2 DEF Shortened
  <1>4. y.out[q] = IF w.state # "open" /\ w.meta[q] # None THEN Append(<<>>, m) ELSE <<>>
    BY <1>2, <1>3 DEF Announces
  <1> HIDE DEF m
  <1>5. /\ \A f \in Elems(y.out[q]) : f = m
        /\ w.meta[q] # None => w.state = "open" \/ \E f \in Elems(y.out[q]) : f.t = "status"
    <2>1. y.out[q] = <<>> \/ y.out[q] = Append(<<>>, m)
      BY <1>4
    <2>2. /\ \A f \in Elems(y.out[q]) : f = m
          /\ y.out[q] = Append(<<>>, m) => Elems(y.out[q]) = {m}
      BY <1>1, <2>1, OneMessage
    <2> QED BY <1>1, <1>4, <2>2
  <1>6. \A f \in Elems(y.out[q]) : f.t = "status" /\ (y.state = "open" => f.k = "open")
    BY <1>1, <1>5
  <1>7. Undisturbed(w, y, d, Frames(d))
    <2>1. ASSUME NEW f \in Frames(d), Coming(w, f) PROVE Coming(y, f)
      <3>1. e # f /\ ~Repairs(e)
        BY FramesAre DEF Repairs
      <3>2. Coming(x, f)
        BY <2>1, <3>1, ShortComing
      <3> QED BY <3>2 DEF Coming
    <2> QED BY <1>3, <2>1 DEF Undisturbed
  <1>8. y.meta[q] = w.meta[q]
    BY <1>3
  <1> QED BY <1>5, <1>6, <1>7, <1>8, StaysAttended

\* An event for no document of the worker passes unnoticed.
LEMMA PassedAttends ==
    ASSUME SyncAssumption, BooksInv, CurrentInv, NEW x, NEW e, Shortened(x, e), e.t # "open",
           e.doc \notin x.stream.docs,
           NEW p \in Pages, page[p].st = "on", NEW q, q = page[p].port
    PROVE  Attended(page[p], of[p], x, q, [port[q] EXCEPT !.down = Joined(@, x.out[q])],
                    Frames(of[p]))
  <1> DEFINE d == of[p]
  <1>1. q \in Ports /\ w.out[q] = <<>>
    BY PageOn
  <1>2. /\ x \in Workers /\ x.meta = w.meta /\ x.subs = w.subs /\ x.state = w.state
        /\ x.out[q] = <<>> /\ x.stream.docs = w.stream.docs
    BY <1>1 DEF Shortened
  <1>3. Elems(x.out[q]) = {}
    BY <1>2, NoElems
  <1>4. ASSUME NEW f \in Frames(d), Coming(w, f) PROVE Coming(x, f)
    <2>1. CASE f.doc \in x.stream.docs
      <3>1. e # f /\ e.doc # f.doc
        BY <2>1
      <3> QED BY <1>4, <3>1, ShortComing
    <2>2. CASE f.doc \notin x.stream.docs
      BY <1>2, <1>4, <2>2 DEF Coming
    <2> QED BY <2>1, <2>2
  <1>5. Undisturbed(w, x, d, Frames(d))
    BY <1>2, <1>4 DEF Undisturbed
  <1> QED BY <1>2, <1>3, <1>5, StaysAttended

\* The next event keeps the invariant.
LEMMA ListenCurrent == ASSUME SyncAssumption, BooksInv, OrderInv, CurrentInv, Listen PROVE CurrentInv'
  <1> DEFINE e == Head(w.stream.q)
             x == Shorter(w)
             y == TakeEvent(x, e)
             Attends(z) == \A p \in Pages : page[p].st = "on" =>
                LET q == page[p].port
                IN  Attended(page[p], of[p], z, q, [port[q] EXCEPT !.down = Joined(@, z.out[q])],
                             Frames(of[p]))
             Good(z) == z \in Workers /\ Answering(z) /\ Attends(z)
  <1>1. /\ w.stream # None /\ w.stream.q # <<>>
        /\ Returns(y, port) /\ UNCHANGED <<of, cap, page, seq, log>>
    BY DEF Listen, hostVars, Shorter
  <1>2. Shortened(x, e)
    BY <1>1, ShortenedFacts
  <1>3. /\ x \in Workers /\ Books(x) /\ x.subs = w.subs /\ x.state = w.state /\ Open(x) = Open(w)
        /\ e \in GoodEvents
    BY <1>1, PortDocs, ShorterFacts
  <1>4. /\ w.stream.joined /\ x.stream.joined = w.stream.joined /\ x.stream.docs = w.stream.docs
        /\ \A f \in Elems(x.stream.q) : f \in GoodEvents /\ <<e, f>> \in Following
        /\ Elems(w.stream.q) = Elems(x.stream.q) \cup {e}
    BY <1>1, <1>2, TailOrder DEF Shortened
  <1>5. x.stream.docs \subseteq Open(w)
    BY <1>2, <1>3, BooksSay DEF StreamOK, Shortened
  <1>6. /\ e.t \in EventTypes /\ e.n \in Nat /\ e.r \in BOOLEAN
        /\ e.t = "frame" => e.k \in Kinds
    BY <1>3 DEF GoodEvents, Events
  <1> HIDE DEF e, x
  <1>7. ASSUME NEW z, z = y, Good(z) PROVE CurrentInv'
    <2>1. port \in [Ports -> PortRecords]
      BY DEF BooksInv
    <2>2. Returns(z, port)
      BY <1>1, <1>7
    <2> HIDE DEF y
    <2>3. ASSUME NEW p \in Pages, page[p].st = "on", NEW q, q = page[p].port
          PROVE  /\ ~port[q].closed
                 /\ Attended(page[p], of[p], z, q, [port[q] EXCEPT !.down = Joined(@, z.out[q])],
                             Frames(of[p]))
      <3>1. ~port[q].closed
        BY <2>3, PageOn
      <3> QED BY <1>7, <2>3, <3>1
    <2>4. z \in Workers /\ Answering(z)
      BY <1>7
    <2> HIDE DEF Good
    <2> QED BY <1>1, <2>1, <2>2, <2>3, <2>4, WorkerCurrent
  <1>8. CASE e.t = "open"
    <2> DEFINE z == SetState(x, "open")
    <2>1. z = y
      BY <1>8 DEF TakeEvent
    <2>2. /\ z \in Workers /\ z.state = "open" /\ z.meta = x.meta /\ z.subs = x.subs
          /\ z.stream = x.stream /\ Announces(x, z, "open")
      <3>1. "open" \in States
        BY DEF States
      <3> QED BY <1>3, <3>1, SetStateFacts
    <2> HIDE DEF z
    <2>3. Attends(z)
      BY <1>2, <1>8, <2>2, OpenAttends
    <2>4. Answering(z)
      BY <2>2 DEF Answering
    <2> QED BY <1>7, <2>1, <2>2, <2>3, <2>4
  <1>9. CASE e.t # "open" /\ e.doc \notin x.stream.docs
    <2>1. x = y
      BY <1>9 DEF TakeEvent
    <2>2. Attends(x)
      BY <1>2, <1>9, PassedAttends
    <2>3. Answering(x)
      BY <1>2, <1>3, <1>9, ShortAnswers
    <2> QED BY <1>3, <1>7, <2>1, <2>2, <2>3
  <1>10. ASSUME e.t # "open", e.doc \in x.stream.docs
         PROVE  CurrentInv'
    <2> DEFINE d == e.doc
    <2>1. /\ d \in Open(w) /\ d \in Docs /\ x.subs[d] # None
          /\ \A q \in x.subs[d].ports : x.meta[q] # None /\ DocOf(q) = d
      BY <1>3, <1>5, <1>10, BooksSay DEF Listens
    <2>2. Foremost(x, e) \/ e.t = "error"
      BY <1>3, <1>4, <1>10, BehindFacts DEF Foremost
    <2>3. ~Due(x.stream, d)
      BY <1>3, <1>4, <1>10, BehindFacts
    <2>4. EntryOrder(w.stream, d, w.subs[d]) /\ e \in Elems(w.stream.q)
      BY <1>1, <1>4, <1>10 DEF OrderInv, StreamOrder
    <2>5. CASE e.t = "error"
      <3> DEFINE z == Refused(x, d)
      <3>1. z = y
        BY <1>10, <2>5 DEF TakeEvent
      <3>2. Refuses(x, z, d)
        <4>1. x \in Workers /\ d \in Docs /\ x.subs[d] # None /\ \A q \in x.subs[d].ports : x.meta[q] # None
          BY <1>3, <2>1
        <4> HIDE DEF d
        <4> QED BY <4>1, RefusedFacts
      <3> HIDE DEF z
      <3>3. Attends(z)
        BY <1>2, <2>1, <3>2, RefusedAttends
      <3>4. z \in Workers /\ z.state = w.state /\ z.stream = Trimmed(x.stream, d)
        BY <1>3, <3>2 DEF Refuses
      <3>5. Answering(z)
        BY <1>2, <1>10, <3>4, ShortAnswers
      <3> QED BY <1>7, <3>1, <3>3, <3>4, <3>5
    <2>6. CASE e.t = "cursor"
      <3> DEFINE z == Cursored(x, d, e.n, e.r)
      <3>1. z = y
        BY <1>10, <2>6 DEF TakeEvent
      <3>2. Cursors(x, z, d, e.n, e.r)
        <4>1. e.n \in Nat /\ e.r \in BOOLEAN
          BY <1>6
        <4>2. x \in Workers /\ d \in Docs /\ x.subs[d] # None
          BY <1>3, <2>1
        <4> HIDE DEF d
        <4> QED BY <2>1, <4>1, <4>2, CursoredFacts
      <3>3. w.subs[d].opened => e.n = w.subs[d].since
        BY <2>4, <2>6 DEF EntryOrder
      <3> HIDE DEF z
      <3>4. Attends(z)
        BY <1>2, <1>6, <2>1, <2>6, <3>2, <3>3, CursorAttends
      <3>5. z \in Workers /\ z.state = w.state /\ z.stream = x.stream
        BY <1>3, <3>2 DEF Cursors
      <3>6. Answering(z)
        BY <1>2, <1>10, <3>5, ShortAnswers
      <3> QED BY <1>7, <3>1, <3>4, <3>5, <3>6
    <2>7. CASE e.t = "frame"
      <3> DEFINE z == Framed(x, d, e.n, e.k)
      <3>1. z = y
        BY <1>10, <2>7 DEF TakeEvent
      <3>2. Feeds(x, z, d, e.n, e.k)
        <4>1. e.n \in Nat /\ e.k \in Kinds
          BY <1>6, <2>7
        <4>2. \A q \in x.subs[d].ports : x.meta[q] # None
          BY <2>1
        <4> HIDE DEF d
        <4> QED BY <1>3, <2>1, <4>1, <4>2, FramedFacts
      <3>3. ~Due(w.stream, d)
        BY <1>4, <2>3, <2>7 DEF Due, IsAnswer
      <3>4. w.subs[d].opened /\ w.subs[d].since < e.n
        <4>1. w.subs[d].opened \in BOOLEAN
          BY <1>3, <2>1, BooksSay DEF Subs
        <4> QED BY <1>4, <2>4, <2>7, <3>3, <4>1 DEF EntryOrder
      <3>5. Foremost(x, e) /\ x.stream.joined /\ e.k \in Kinds
        BY <1>4, <1>6, <2>2, <2>7
      <3> HIDE DEF z
      <3>6. Attends(z)
        BY <1>2, <1>6, <1>10, <2>1, <2>7, <3>2, <3>4, <3>5, FrameAttends
      <3>7. z \in Workers /\ z.state = w.state /\ z.stream = x.stream
        BY <1>3, <3>2 DEF Feeds
      <3>8. Answering(z)
        BY <1>2, <1>10, <3>7, ShortAnswers
      <3> QED BY <1>7, <3>1, <3>6, <3>7, <3>8
    <2> QED BY <1>6, <1>10, <2>5, <2>6, <2>7 DEF EventTypes
  <1> QED BY <1>8, <1>9, <1>10

-----------------------------------------------------------------------------
(* The host's steps.                                                       *)

FramesIn(l, d) == {f \in Elems(l) : f.doc = d}

\* Of an answered document every frame comes that came, or that is new.
Feeding(x, y, d, fs, gs) ==
    x.subs[d].opened => \A f \in gs : f \notin fs \/ Coming(x, f) => Coming(y, f)

\* The host keeps the invariant when what it does to the stream brings every frame.
LEMMA HostCurrent ==
    ASSUME SyncAssumption, BooksInv, CurrentInv, UNCHANGED <<of, page, port>>,
           w'.state = w.state, w'.subs = w.subs, w'.meta = w.meta, Answering(w'),
           \A d \in Open(w) : Feeding(w, w', d, FramesIn(log, d), FramesIn(log', d))
    PROVE  CurrentInv'
  <1>1. Answering(w)'
    BY DEF Answering
  <1>2. ASSUME NEW p \in Pages PROVE PageCurrent(p)'
    <2> DEFINE g == page[p]
               q == page[p].port
               d == of[p]
               m == w.meta[q]
               u == port[q]
               fs == FramesIn(log, d)
               gs == FramesIn(log', d)
    <2>1. g.st \in {"away", "suspended"} => Asking(g)
      BY DEF CurrentInv, PageCurrent
    <2>2. ASSUME g.st = "on" PROVE Attended(g, d, w', q, u, gs)
      <3>1. /\ Attended(g, d, w, q, u, fs)
            /\ Listens(w, q) => d \in Open(w) /\ w.subs[d] \in Subs
            /\ m # None => m \in Metas
        BY <2>2, PageOn, ZenonT(30) DEF Frames, FramesIn
      <3>2. \A f \in gs : f.doc = d
        BY DEF FramesIn
      <3>3. m # None /\ m.sub => Feeding(w, w', d, fs, gs) /\ w.subs[d] \in Subs
        BY <3>1 DEF Listens
      <3>4. m = w.meta[q] /\ m = w'.meta[q]
        OBVIOUS
      <3> HIDE DEF g, q, d, m, u, fs, gs
      <3>5. ASSUME ~Asking(g), m # None, m.sub, NEW f \in gs PROVE Reaches(g, w', m, u.down, f)
        <4>1. w.subs[d].opened
          BY <3>1, <3>3, <3>4, <3>5 DEF Attended, Phased, Metas, Subs
        <4>2. f \notin fs \/ Coming(w, f) => Coming(w', f)
          BY <3>3, <3>5, <4>1 DEF Feeding
        <4>3. f \in fs => Reaches(g, w, m, u.down, f)
          BY <3>1, <3>4, <3>5 DEF Attended, Complete
        <4> QED BY <4>2, <4>3 DEF Reaches
      <3>6. Complete(g, w', m, u.down, gs)
        BY <3>5 DEF Complete
      <3> QED BY <3>1, <3>4, <3>6 DEF Attended
    <2>3. page'[p] = g /\ of'[p] = d /\ port'[q] = u /\ FramesIn(log', d) = {f \in Elems(log') : f.doc = d}
      BY DEF FramesIn
    <2> HIDE DEF g, d, u
    <2> QED BY <2>1, <2>2, <2>3 DEF PageCurrent, Frames
  <1> QED BY <1>1, <1>2 DEF CurrentInv

\* The host's answer for a document brings every frame behind the position asked for.
LEMMA EntryBrings ==
    ASSUME LogOK, NEW d \in Docs, w.stream.asked[d] \in Nat, NEW how \in {"replay", "refused", "resync"},
           NEW f \in Elems(log), f.doc = d, Base(d) < f.n
    PROVE  \E e \in Elems(Entry(d, how)) : e = f \/ (e.doc = f.doc /\ Repairs(e))
  <1> DEFINE a == Answered1(d, how)
             s == FramesOf(d, Base(d))
  <1>1. /\ a \in GoodEvents /\ a.doc = d
        /\ a.t = IF how = "refused" THEN "error" ELSE "cursor"
        /\ a.r = (how = "resync")
        /\ how # "replay" => Entry(d, how) = <<a>>
        /\ how = "replay" => Entry(d, how) = <<a>> \o s
        /\ Base(d) \in Nat
    BY EntryFacts
  <1>2. s \in Seq(GoodEvents) /\ Elems(s) = {e \in Elems(log) : e.doc = d /\ e.n > Base(d)}
    BY FramesOfFacts
  <1>3. f \in GoodEvents /\ f.n \in Nat
    <2>1. f \in GoodEvents
      BY DEF LogOK, Elems
    <2> QED BY <2>1 DEF GoodEvents, Events
  <1> HIDE DEF a, s
  <1>4. CASE how = "replay"
    <2> DEFINE b == <<a>>
    <2>1. b \in Seq(GoodEvents)
      BY <1>1, OneElem
    <2>2. f \in Elems(s) /\ Entry(d, how) = b \o s
      BY <1>1, <1>2, <1>3, <1>4
    <2> HIDE DEF b
    <2>3. Elems(b \o s) = Elems(b) \cup Elems(s)
      BY <1>2, <2>1, ConcatElems
    <2> QED BY <2>2, <2>3
  <1>5. CASE how # "replay"
    <2>1. Elems(<<a>>) = {a}
      BY <1>1, OneElem
    <2>2. Repairs(a)
      BY <1>1, <1>5 DEF Repairs
    <2> QED BY <1>1, <1>5, <2>1, <2>2
  <1> QED BY <1>4, <1>5

\* A stream that is answered has its answer for every document.
LEMMA AcceptCurrent == ASSUME SyncAssumption, BooksInv, OrderInv, CurrentInv, Accept PROVE CurrentInv'
  <1> DEFINE o == Event("open", None, 0, None, FALSE)
             s == w.stream
  <1>1. PICK how \in [DOMAIN w.stream.asked -> Answers] :
           w' = [w EXCEPT !.stream.joined = TRUE, !.stream.q = <<o>> \o Entries(how)]
    BY DEF Accept
  <1>2. s # None /\ ~s.joined /\ UNCHANGED <<of, cap, page, port>> /\ UNCHANGED <<seq, log>>
    BY DEF Accept, pageVars, hostVars
  <1> DEFINE t == <<o>> \o Entries(how)
  <1>3. /\ w \in Workers /\ s \in Streams /\ s.docs \subseteq Open(w) /\ s.docs \subseteq DOMAIN s.asked
        /\ LogOK /\ seq \in Nat
    BY <1>2, PortDocs, BooksSay DEF StreamOK, Workers, BooksInv, LogOK
  <1>4. \A d \in DOMAIN s.asked : d \in Docs /\ s.asked[d] \in Nat
    BY <1>3, StreamParts
  <1>5. /\ Entries(how) \in Seq(GoodEvents)
        /\ \A e : e \in Elems(Entries(how)) <=> \E d \in DOMAIN how : e \in Elems(Entry(d, how[d]))
    BY <1>2, EntriesFacts
  <1>6. o \in GoodEvents /\ o.t = "open"
    BY DEF Event, GoodEvents, Events, EventTypes
  <1> HIDE DEF o
  <1>7. t \in Seq(GoodEvents) /\ Elems(t) = {o} \cup Elems(Entries(how))
    <2> DEFINE a == <<o>>
               b == Entries(how)
    <2>1. a \in Seq(GoodEvents) /\ Elems(a) = {o} /\ b \in Seq(GoodEvents) /\ t = a \o b
      BY <1>5, <1>6, OneElem
    <2> HIDE DEF a, b, t
    <2>2. a \o b \in Seq(GoodEvents) /\ Elems(a \o b) = Elems(a) \cup Elems(b)
      BY <2>1, ConcatElems
    <2> QED BY <2>1, <2>2 DEF b
  <1> HIDE DEF t
  <1> DEFINE z == w'.stream
  <1>8. /\ w'.state = w.state /\ w'.subs = w.subs /\ w'.meta = w.meta
        /\ z # None /\ z.docs = s.docs /\ z.joined /\ z.q = t
    <2>1. w' = [w EXCEPT !.stream.joined = TRUE, !.stream.q = t]
      BY <1>1 DEF t
    <2>2. w' = [w EXCEPT !.stream = Requeued(@, TRUE, t)]
      BY <1>3, <2>1 DEF Requeued, Workers, Streams
    <2>3. /\ w'.subs = w.subs /\ w'.meta = w.meta
          /\ z # None /\ z.docs = s.docs /\ z.joined /\ z.q = t
      BY <1>2, <1>7, <2>2, RequeuedFacts
    <2>4. w'.state = w.state
      BY <1>3, <2>2 DEF Workers
    <2> QED BY <2>3, <2>4
  <1> HIDE DEF z
  <1>9. Answering(w')
    BY <1>6, <1>7, <1>8 DEF Answering, z
  <1>10. ASSUME NEW d \in Open(w), w.subs[d].opened, NEW f \in FramesIn(log, d), Coming(w, f)
         PROVE  Coming(w', f)
    <2>1. f \in Elems(log) /\ f.doc = d /\ d \in Docs /\ w.subs[d] \in Subs
      BY <1>10, PortDocs, BooksSay DEF FramesIn
    <2>2. w.subs[d].since < f.n
      BY <1>10, <2>1 DEF Coming
    <2>3. ASSUME d \in s.docs PROVE \E e \in Elems(t) : e = f \/ (e.doc = f.doc /\ Repairs(e))
      <3>1. d \in DOMAIN how /\ how[d] \in {"replay", "refused", "resync"} /\ s.asked[d] \in Nat
        BY <1>3, <1>4, <2>3 DEF Answers
      <3>2. EntryOrder(s, d, w.subs[d]) /\ SubRight(w.subs[d])
        BY <1>2, <2>3 DEF OrderInv, StreamOrder, SubOrder
      <3>3. s.asked[d] = w.subs[d].since /\ 0 < w.subs[d].since /\ w.subs[d].since \in Nat
        BY <1>2, <1>10, <2>1, <3>2 DEF EntryOrder, SubRight, Subs
      <3>4. Base(d) = w.subs[d].since
        BY <3>3 DEF Base
      <3>5. \E e \in Elems(Entry(d, how[d])) : e = f \/ (e.doc = f.doc /\ Repairs(e))
        BY <1>3, <2>1, <2>2, <3>1, <3>4, EntryBrings
      <3> QED BY <1>5, <1>7, <3>1, <3>5
    <2> QED BY <1>8, <2>1, <2>2, <2>3 DEF Coming, z
  <1>11. \A d \in Open(w) : Feeding(w, w', d, FramesIn(log, d), FramesIn(log', d))
    <2>1. log' = log
      BY <1>2
    <2> QED BY <1>10, <2>1 DEF Feeding
  <1> QED BY <1>2, <1>8, <1>9, <1>11, HostCurrent

\* A published frame comes with the stream, or with the next one.
LEMMA PublishCurrent ==
    ASSUME SyncAssumption, BooksInv, OrderInv, CurrentInv, NEW d \in Docs, NEW k \in Kinds, Publish(d, k)
    PROVE  CurrentInv'
  <1> DEFINE f == Event("frame", d, seq + 1, k, FALSE)
             s == w.stream
             t == Append(w.stream.q, f)
             due == w.stream # None /\ w.stream.joined /\ d \in DOMAIN w.stream.asked
  <1>1. /\ f \in GoodEvents /\ f.t = "frame" /\ f.doc = d /\ f.n = seq + 1
        /\ Elems(log') = Elems(log) \cup {f}
    BY PublishFacts
  <1>2. UNCHANGED <<of, cap, page, port>> /\ w' = IF due THEN [w EXCEPT !.stream.q = t] ELSE w
    BY DEF Publish, pageVars
  <1>3. /\ w \in Workers /\ StreamOK(w) /\ s \in Streams \cup {None} /\ seq \in Nat
        /\ \A c \in Open(w) : w.subs[c].since <= seq /\ w.subs[c].since \in Nat
        /\ Answering(w)
    <2>1. /\ w \in Workers /\ StreamOK(w) /\ seq \in Nat /\ SubOrder(w)
          /\ \A c \in Open(w) : w.subs[c] \in Subs
      BY PortDocs, BooksSay DEF OrderInv, BooksInv, LogOK
    <2> QED BY <2>1 DEF SubOrder, SubRight, Subs, Workers, CurrentInv
  <1> HIDE DEF f
  <1>4. s # None => s.q \in Seq(GoodEvents) /\ s.docs \subseteq DOMAIN s.asked
    BY <1>3 DEF StreamOK
  <1> DEFINE z == w'.stream
  <1>5. /\ w'.state = w.state /\ w'.subs = w.subs /\ w'.meta = w.meta
        /\ z = None <=> s = None
        /\ s # None => /\ z.docs = s.docs /\ z.joined = s.joined
                       /\ Elems(s.q) \subseteq Elems(z.q)
                       /\ s.joined /\ d \in s.docs => f \in Elems(z.q)
    <2>1. CASE ~due
      <3>1. w' = w
        BY <1>2, <2>1
      <3> QED BY <1>4, <2>1, <3>1
    <2>2. CASE due
      <3>1. s # None /\ s \in Streams /\ s.joined /\ s.q \in Seq(GoodEvents)
        BY <1>3, <1>4, <2>2
      <3>2. t \in Seq(GoodEvents) /\ Elems(t) = Elems(s.q) \cup {f}
        BY <1>1, <3>1, AppendElems
      <3>3. w' = [w EXCEPT !.stream.q = t]
        BY <1>2, <2>2
      <3> HIDE DEF t
      <3>4. w' = [w EXCEPT !.stream = Requeued(@, TRUE, t)]
        <4>1. Requeued(s, TRUE, t) = [s EXCEPT !.q = t]
          BY <3>1 DEF Requeued, Streams
        <4> QED BY <1>3, <3>3, <4>1 DEF Workers
      <3>5. /\ w'.subs = w.subs /\ w'.meta = w.meta /\ z # None
            /\ z.docs = s.docs /\ z.joined /\ z.q = t
        BY <3>1, <3>2, <3>4, RequeuedFacts
      <3>6. w'.state = w.state
        BY <1>3, <3>4 DEF Workers
      <3> QED BY <3>1, <3>2, <3>5, <3>6
    <2> QED BY <2>1, <2>2
  <1> HIDE DEF due, t, s, z
  <1>6. Answering(w')
    BY <1>3, <1>5 DEF Answering, s, z
  <1>7. ASSUME NEW c \in Open(w), NEW e \in FramesIn(log', c),
               e \notin FramesIn(log, c) \/ Coming(w, e)
        PROVE  Coming(w', e)
    <2>1. CASE Coming(w, e)
      <3>1. /\ z # None => /\ s # None /\ z.joined = s.joined /\ z.docs = s.docs
                           /\ Elems(s.q) \subseteq Elems(z.q)
            /\ w'.subs = w.subs
        BY <1>5
      <3> QED BY <2>1, <3>1 DEF Coming, s, z
    <2>2. CASE e \notin FramesIn(log, c)
      <3>1. e = f /\ e.doc = c
        BY <1>1, <2>2 DEF FramesIn
      <3>2. w.subs[e.doc].since < e.n
        BY <1>1, <1>3, <3>1
      <3> QED BY <1>1, <1>5, <3>1, <3>2 DEF Coming, z
    <2> QED BY <1>7, <2>1, <2>2
  <1>8. \A c \in Open(w) : Feeding(w, w', c, FramesIn(log, c), FramesIn(log', c))
    BY <1>7 DEF Feeding
  <1> QED BY <1>2, <1>5, <1>6, <1>8, HostCurrent

-----------------------------------------------------------------------------
(* The pages' steps.                                                       *)

\* A page's step leaves the other pages as they were.
LEMMA PageStepCurrent ==
    ASSUME SyncAssumption, BooksInv, CurrentInv, NEW p \in Pages, NEW pg \in StreamPages,
           page' = [page EXCEPT ![p] = pg], UNCHANGED <<of, cap, w, seq, log>>,
           \A r \in Ports : \/ port'[r] = port[r]
                            \/ Stirs(p, port[r], port'[r])
                            \/ Dials(p, port[r], port'[r]),
           pg.st \in {"away", "suspended"} => Asking(pg),
           pg.st = "on" => Attended(pg, of[p], w, pg.port, port'[pg.port], Frames(of[p]))
    PROVE  CurrentInv'
  <1>1. Answering(w)'
    <2>1. Answering(w) /\ w' = w
      BY DEF CurrentInv
    <2> QED BY <2>1 DEF Answering
  <1>2. /\ page'[p] = pg /\ \A r \in Pages : r # p => page'[r] = page[r]
        /\ \A r \in Pages : page[r] \in StreamPages
    BY DEF BooksInv, PagesOK
  <1>3. \A d : Frames(d)' = Frames(d)
    BY DEF Frames
  <1>4. ASSUME NEW r \in Pages PROVE PageCurrent(r)'
    <2>1. CASE r = p
      <3>1. pg.st = "on" => Attended(pg, of[p], w, pg.port, port'[pg.port], {f \in Elems(log) : f.doc = of[p]})
        BY DEF Frames
      <3> QED BY <1>2, <2>1, <3>1 DEF PageCurrent, Frames
    <2>2. CASE r # p
      <3>1. PageCurrent(r) /\ page'[r] = page[r]
        BY <1>2, <2>2 DEF CurrentInv
      <3>2. ASSUME page[r].st = "on" PROVE port'[page[r].port] = port[page[r].port]
        <4>1. page[r].port \in Ports /\ port[page[r].port].page = r
          BY <3>2, PagePort
        <4> QED BY <2>2, <4>1 DEF Stirs, Dials, SyncAssumption
      <3> QED BY <3>1, <3>2 DEF PageCurrent, Frames
    <2> QED BY <2>1, <2>2
  <1> QED BY <1>1, <1>4 DEF CurrentInv

\* A page that keeps its port, or gives it up.
LEMMA MoveCurrent ==
    ASSUME SyncAssumption, BooksInv, CurrentInv, NEW p \in Pages, NEW g \in StreamPages, NEW v,
           page[p].st = "on", Stirs(p, port[page[p].port], v),
           g.st \in {"away", "suspended"} => Asking(g),
           g.st = "on" => /\ g.port = page[p].port
                          /\ Attended(g, of[p], w, page[p].port, v, Frames(of[p])),
           Moves1(p, g, v), UNCHANGED <<of, cap, w, seq, log>>
    PROVE  CurrentInv'
  <1> DEFINE o == page[p].port
             fs == Frames(of[p])
  <1>1. o \in Ports /\ port \in [Ports -> PortRecords]
    BY PagePort DEF BooksInv
  <1>2. page' = [page EXCEPT ![p] = g] /\ port' = [port EXCEPT ![o] = v]
    BY DEF Moves1
  <1>3. Stirs(p, port[o], v)
    OBVIOUS
  <1>4. g.st = "on" => g.port = o /\ Attended(g, of[p], w, o, v, fs)
    OBVIOUS
  <1> HIDE DEF o, fs
  <1>5. port'[o] = v /\ \A r \in Ports : r # o => port'[r] = port[r]
    BY <1>1, <1>2
  <1>6. \A r \in Ports : \/ port'[r] = port[r]
                         \/ Stirs(p, port[r], port'[r])
    BY <1>3, <1>5
  <1>7. g.st = "on" => Attended(g, of[p], w, g.port, port'[g.port], fs)
    BY <1>4, <1>5
  <1> QED BY <1>2, <1>6, <1>7, PageStepCurrent DEF fs

\* A visible page that dials says so.
Frank(g, visible) == g.hidden \/ visible

\* A page that dials says whether it is visible, and takes nothing for current.
LEMMA OpenCurrent ==
    ASSUME SyncAssumption, BooksInv, CurrentInv, NEW p \in Pages, NEW q \in Ports, NEW g \in StreamPages,
           NEW v \in BOOLEAN, g.st = "on", g.port = q, Asking(g), Frank(g, v),
           page' = [page EXCEPT ![p] = g], UNCHANGED <<of, cap, w, seq, log>>,
           port[q].page = None, port'[q] = Call(p, v),
           \A r \in Ports : r # q => port'[r] = port[r] \/ Stirs(p, port[r], port'[r])
    PROVE  CurrentInv'
  <1>1. page[p].since \in Nat
    BY PortDocs DEF StreamPages
  <1> DEFINE c == Call(p, v)
             m == Msg("connect", page[p].since, None, v)
             fs == Frames(of[p])
  <1>2. Dials(p, port[q], c) /\ c.down = <<>> /\ c.up = <<m>>
    BY <1>1, CallFacts
  <1>3. m.t = "connect" /\ m.r = v
    BY DEF Msg
  <1> HIDE DEF c, m, fs
  <1>4. Elems(<<m>>) = {m} /\ DOMAIN <<m>> = {1} /\ <<m>>[1] = m
    BY OneElem
  <1>5. port'[q] = c
    BY DEF c
  <1>6. w.meta[q] = None
    BY PortDocs DEF PortOK
  <1>7. Reappears(<<m>>)
    BY <1>3, <1>4 DEF Reappears
  <1>8. Attended(g, of[p], w, q, c, fs)
    <2>1. Visibly(g, w.meta[q], <<m>>)
      BY <1>3, <1>4, <1>6, <1>7 DEF Visibly, Frank
    <2>2. Phased(g, w.meta[q], w.subs[of[p]], <<m>>, c.down)
      BY <1>3, <1>4, <1>6 DEF Phased
    <2> QED BY <1>2, <1>6, <2>1, <2>2 DEF Attended, Readily, Complete
  <1>9. \A r \in Ports : \/ port'[r] = port[r]
                         \/ Stirs(p, port[r], port'[r])
                         \/ Dials(p, port[r], port'[r])
    BY <1>2, <1>5
  <1>10. g.st = "on" => Attended(g, of[p], w, g.port, port'[g.port], fs)
    BY <1>5, <1>8
  <1>11. g.st \in {"away", "suspended"} => Asking(g)
    OBVIOUS
  <1> QED BY <1>9, <1>10, <1>11, PageStepCurrent DEF fs

\* A page that opens a port it did not have.
LEMMA DialCurrent ==
    ASSUME SyncAssumption, BooksInv, CurrentInv, NEW p \in Pages, NEW q \in Ports,
           Start(p, q) \/ Resume(p, q) \/ Reopen(p, q)
    PROVE  CurrentInv'
  <1> DEFINE e == Opening(p, q)
  <1>1. page[p] \in StreamPages /\ (~page[p].hidden) \in BOOLEAN /\ port \in [Ports -> PortRecords]
    <2>1. page[p] \in StreamPages
      BY PortDocs
    <2> QED BY <2>1 DEF StreamPages, BooksInv
  <1>2. /\ e \in StreamPages /\ e.st = "on" /\ e.port = q /\ e.hidden = page[p].hidden
        /\ Asking(e) <=> Asking(page[p])
    BY <1>1, OpeningFacts DEF Asking
  <1>3. ASSUME NEW g \in StreamPages, NEW v \in BOOLEAN, Opens1(p, q, g, v)
        PROVE  /\ page' = [page EXCEPT ![p] = g] /\ port[q].page = None
               /\ port'[q] = Call(p, v) /\ \A r \in Ports : r # q => port'[r] = port[r]
    BY <1>1, <1>3 DEF Opens1
  <1>4. page[p].st \in {"away", "suspended"} => Asking(page[p])
    BY DEF CurrentInv, PageCurrent
  <1>5. CASE Start(p, q)
    <2>1. Opens1(p, q, e, ~page[p].hidden) /\ UNCHANGED <<of, cap, w, seq, log>> /\ page[p].st = "away"
      BY <1>5, StartFacts
    <2> HIDE DEF e
    <2>2. /\ page' = [page EXCEPT ![p] = e] /\ port[q].page = None
          /\ port'[q] = Call(p, ~page[p].hidden) /\ \A r \in Ports : r # q => port'[r] = port[r]
      BY <1>1, <1>2, <1>3, <2>1
    <2>3. Asking(e) /\ Frank(e, ~page[p].hidden)
      BY <1>2, <1>4, <2>1 DEF Frank
    <2>4. \A r \in Ports : r # q => port'[r] = port[r] \/ Stirs(p, port[r], port'[r])
      BY <2>2
    <2> QED BY <1>1, <1>2, <2>1, <2>2, <2>3, <2>4, OpenCurrent
  <1>6. CASE Resume(p, q)
    <2> DEFINE g == [e EXCEPT !.hidden = FALSE]
    <2>1. Opens1(p, q, g, TRUE) /\ UNCHANGED <<of, cap, w, seq, log>> /\ page[p].st = "suspended"
      BY <1>6, ResumeFacts
    <2> HIDE DEF e
    <2>2. g \in StreamPages /\ g.st = "on" /\ g.port = q /\ (Asking(g) <=> Asking(e))
      BY <1>2 DEF StreamPages, Asking
    <2> HIDE DEF g
    <2>3. /\ page' = [page EXCEPT ![p] = g] /\ port[q].page = None
          /\ port'[q] = Call(p, TRUE) /\ \A r \in Ports : r # q => port'[r] = port[r]
      BY <1>3, <2>1, <2>2
    <2>4. Asking(g) /\ Frank(g, TRUE)
      BY <1>2, <1>4, <2>1, <2>2 DEF Frank
    <2>5. \A r \in Ports : r # q => port'[r] = port[r] \/ Stirs(p, port[r], port'[r])
      BY <2>3
    <2> QED BY <2>1, <2>2, <2>3, <2>4, <2>5, OpenCurrent
  <1>7. CASE Reopen(p, q)
    <2> DEFINE g == [e EXCEPT !.repair = TRUE]
               o == page[p].port
    <2>1. /\ UNCHANGED <<of, cap, w, seq, log>> /\ page' = [page EXCEPT ![p] = g]
          /\ port[q].page = None /\ port'[q] = Call(p, ~page[p].hidden)
          /\ \A r \in Ports : r \notin {o, q} => port'[r] = port[r]
          /\ Stirs(p, port[o], port'[o])
      BY <1>7, ReopenFacts
    <2> HIDE DEF e
    <2>2. g \in StreamPages /\ g.st = "on" /\ g.port = q /\ g.hidden = e.hidden /\ Asking(g)
      BY <1>2 DEF StreamPages, Asking
    <2> HIDE DEF g
    <2>3. \A r \in Ports : r # q => port'[r] = port[r] \/ Stirs(p, port[r], port'[r])
      BY <2>1
    <2>4. Frank(g, ~page[p].hidden)
      BY <1>2, <2>2 DEF Frank
    <2> QED BY <1>1, <2>1, <2>2, <2>3, <2>4, OpenCurrent
  <1> QED BY <1>5, <1>6, <1>7

\* g is hidden, or shown again, and is h.
Turns(g, h, t) ==
    /\ h.st = g.st /\ h.port = g.port /\ h.hidden = (t = "hidden") /\ h.ready = g.ready
    /\ h.got = g.got /\ h.repair = g.repair /\ h.startup = g.startup

\* What a page that is hidden, or shown again, tells the worker.
LEMMA TellsAttended ==
    ASSUME NEW g, NEW h, NEW d, NEW x, NEW q, NEW u \in PortRecords, NEW v, NEW fs,
           NEW t \in {"hidden", "visible"}, Attended(g, d, x, q, u, fs),
           v.up = Append(u.up, Say(t)), v.down = u.down, Turns(g, h, t)
    PROVE  Attended(h, d, x, q, v, fs)
  <1>1. u.up \in Seq(UpMsgs) /\ Say(t) \in UpMsgs /\ Say(t).t = t
    BY SayFacts DEF PortRecords, UpTypes
  <1>2. Elems(v.up) = Elems(u.up) \cup {Say(t)}
    BY <1>1, AppendElems
  <1>3. Visibly(h, x.meta[q], v.up)
    <2>1. CASE t = "hidden"
      BY <2>1 DEF Visibly, Turns
    <2>2. CASE t = "visible"
      <3> DEFINE n == Len(u.up)
      <3>1. /\ n \in Nat /\ DOMAIN v.up = 1..(n + 1) /\ v.up[n + 1].t = "visible"
        BY <1>1, <2>2
      <3>2. ASSUME NEW i \in DOMAIN v.up, v.up[i].t = "hidden"
            PROVE  \E j \in DOMAIN v.up : i < j /\ v.up[j].t = "visible"
        <4>1. i < n + 1 /\ n + 1 \in DOMAIN v.up
          BY <3>1, <3>2
        <4> QED BY <3>1, <4>1
      <3>3. Reappears(v.up)
        BY <3>2 DEF Reappears
      <3> QED BY <1>1, <1>2, <2>2, <3>3 DEF Visibly
    <2> QED BY <2>1, <2>2
  <1>4. Asking(h) <=> Asking(g)
    BY DEF Asking, Turns
  <1>5. Phased(h, x.meta[q], x.subs[d], v.up, v.down)
    <2>1. Phased(g, x.meta[q], x.subs[d], u.up, u.down)
      BY DEF Attended
    <2> QED BY <1>1, <1>2, <1>4, <2>1 DEF Phased
  <1>6. Complete(h, x, x.meta[q], v.down, fs)
    BY <1>4 DEF Attended, Complete, Reaches, Turns
  <1> QED BY <1>3, <1>5, <1>6 DEF Attended, Readily, Turns

\* A page that keeps its port and reads nothing, or gives the port up.
LEMMA MovesCurrent ==
    ASSUME SyncAssumption, BooksInv, CurrentInv, NEW p \in Pages,
           Hide(p) \/ Show(p) \/ Suspend(p) \/ GoDirect(p) \/ Close(p) \/ Kill(p)
    PROVE  CurrentInv'
  <1> DEFINE c == page[p]
             u == port[c.port]
             fs == Frames(of[p])
  <1>1. c \in StreamPages
    BY PagePort
  <1>2. c.st = "on" => u \in PortRecords /\ u.page = p
    BY PagePort
  <1>3. c.st = "on" => /\ \A t \in UpTypes \ {"connect"} :
                             /\ Stirs(p, u, Tells(u, t)) /\ Tells(u, t).down = u.down
                             /\ Tells(u, t).up = Append(u.up, Say(t))
                       /\ Stirs(p, u, HungUp(u)) /\ Stirs(p, u, Dies(u))
    BY <1>2, PortMoves
  <1>4. "hidden" \in UpTypes \ {"connect"} /\ "visible" \in UpTypes \ {"connect"}
    BY DEF UpTypes
  <1>5. c.st = "on" => Attended(c, of[p], w, c.port, u, fs)
    BY PageOn
  <1>6. ASSUME NEW g \in StreamPages, NEW t \in {"hidden", "visible"}, c.st = "on",
               Turns(c, g, t), Moves1(p, g, Tells(u, t)), UNCHANGED <<of, cap, w, seq, log>>
        PROVE  CurrentInv'
    <2> DEFINE v == Tells(u, t)
    <2>1. Stirs(p, u, v) /\ v.down = u.down /\ v.up = Append(u.up, Say(t)) /\ u \in PortRecords
      BY <1>2, <1>3, <1>4, <1>6
    <2> HIDE DEF v, fs
    <2>2. Attended(g, of[p], w, c.port, v, fs) /\ g.st = "on" /\ g.port = c.port
      BY <1>5, <1>6, <2>1, TellsAttended DEF Turns
    <2>3. Moves1(p, g, v)
      BY <1>6 DEF v
    <2> QED BY <1>1, <1>6, <2>1, <2>2, <2>3, MoveCurrent DEF fs
  <1>7. ASSUME NEW g \in StreamPages, NEW v, c.st = "on", g.st \notin {"on", "away"},
               g.st = "suspended" => Asking(g),
               Stirs(p, u, v), Moves1(p, g, v), UNCHANGED <<of, cap, w, seq, log>>
        PROVE  CurrentInv'
    BY <1>1, <1>7, MoveCurrent
  <1>8. CASE Hide(p)
    <2> DEFINE g == [c EXCEPT !.hidden = TRUE]
    <2>1. c.st = "on" /\ Moves1(p, g, Tells(u, "hidden")) /\ UNCHANGED <<of, cap, w, seq, log>>
      BY <1>8, HideFacts
    <2>2. g \in StreamPages /\ Turns(c, g, "hidden")
      BY <1>1 DEF StreamPages, Turns
    <2> HIDE DEF g, c, u
    <2> QED BY <1>6, <2>1, <2>2
  <1>9. CASE Show(p)
    <2> DEFINE g == [c EXCEPT !.hidden = FALSE]
    <2>1. c.st = "on" /\ Moves1(p, g, Tells(u, "visible")) /\ UNCHANGED <<of, cap, w, seq, log>>
      BY <1>9, ShowFacts
    <2>2. g \in StreamPages /\ Turns(c, g, "visible")
      BY <1>1 DEF StreamPages, Turns
    <2> HIDE DEF g, c, u
    <2> QED BY <1>6, <2>1, <2>2
  <1>10. CASE Suspend(p)
    <2> DEFINE g == Suspended(p)
    <2>1. c.st = "on" /\ Moves1(p, g, HungUp(u)) /\ UNCHANGED <<of, cap, w, seq, log>>
      BY <1>10, SuspendFacts
    <2>2. g \in StreamPages /\ g.st = "suspended" /\ Asking(g)
      BY <1>1 DEF StreamPages, PageStates, Suspended, Asking
    <2> HIDE DEF g, c, u
    <2> QED BY <1>3, <1>7, <2>1, <2>2
  <1>11. CASE GoDirect(p)
    <2> DEFINE g == [c EXCEPT !.st = "direct", !.repair = TRUE, !.port = None]
    <2>1. c.st = "on" /\ Moves1(p, g, HungUp(u)) /\ UNCHANGED <<of, cap, w, seq, log>>
      BY <1>11, GoDirectFacts
    <2>2. g \in StreamPages /\ g.st = "direct"
      BY <1>1 DEF StreamPages, PageStates
    <2> HIDE DEF g, c, u
    <2> QED BY <1>3, <1>7, <2>1, <2>2
  <1>12. CASE Close(p)
    <2> DEFINE g == GoneFrom(c)
    <2>1. /\ page' = [page EXCEPT ![p] = g] /\ UNCHANGED <<of, cap, w, seq, log>>
          /\ c.st = "on" => Moves1(p, g, HungUp(u))
          /\ c.st # "on" => port' = port
      BY <1>12, CloseFacts
    <2>2. g \in StreamPages /\ g.st = "gone"
      BY <1>1 DEF StreamPages, PageStates, GoneFrom
    <2>3. CASE c.st = "on"
      <3> HIDE DEF g, c, u
      <3> QED BY <1>3, <1>7, <2>1, <2>2, <2>3
    <2> HIDE DEF g
    <2>4. CASE c.st # "on"
      <3>1. \A r \in Ports : port'[r] = port[r]
        BY <2>1, <2>4
      <3> QED BY <1>1, <2>1, <2>2, <3>1, PageStepCurrent
    <2> QED BY <2>3, <2>4
  <1>13. CASE Kill(p)
    <2> DEFINE g == [c EXCEPT !.st = "dead", !.ready = FALSE, !.port = None]
    <2>1. c.st = "on" /\ Moves1(p, g, Dies(u)) /\ UNCHANGED <<of, cap, w, seq, log>>
      BY <1>13, KillFacts
    <2>2. g \in StreamPages /\ g.st = "dead"
      BY <1>1 DEF StreamPages, PageStates
    <2> HIDE DEF g, c, u
    <2> QED BY <1>3, <1>7, <2>1, <2>2
  <1> QED BY <1>8, <1>9, <1>10, <1>11, <1>12, <1>13

\* g read m, the first of down, and is h.
Hearing(g, h, m, down) ==
    /\ h.hidden = g.hidden /\ m.t \in DownTypes \ {"gone"} /\ m.n \in Nat
    /\ m.t \in {"status", "frame"} => (Asking(h) <=> Asking(g))
    /\ m.t \in {"cursor", "frame"} => h.ready = g.ready
    /\ m.t = "status" => /\ h.got = g.got
                         /\ h.ready = CASE m.k = "open" -> TRUE
                                        [] m.k = "connecting" -> FALSE
                                        [] OTHER -> g.ready
    /\ m.t = "cursor" => /\ ~Asking(h)
                         /\ IF m.r \/ Asking(g) THEN \A k \in Kinds : h.got[k] = seq
                            ELSE h.got = g.got
    /\ m.t = "frame" => /\ \A k \in Kinds : g.got[k] <= h.got[k]
                        /\ m.n <= h.got[m.k]
    /\ Elems(down) = Elems(Tail(down)) \cup {m}

\* What a page does with a message is one of these.
LEMMA TakeMsgHearing ==
    ASSUME SyncAssumption, BooksInv, NEW p \in Pages, page[p].st = "on",
           port[page[p].port].down # <<>>, Head(port[page[p].port].down).t # "gone"
    PROVE  LET down == port[page[p].port].down
           IN  Hearing(page[p], Heard1(p), Head(down), down)
  <1> DEFINE c == page[p]
             down == port[c.port].down
             m == Head(down)
             g == Heard1(p)
  <1>1. /\ m \in DownMsgs /\ Elems(down) = Elems(Tail(down)) \cup {m} /\ seq \in Nat
        /\ c \in StreamPages /\ c.port # None
    BY HeadFacts
  <1>2. m.t \in DownTypes \ {"gone"} /\ m.n \in Nat /\ (m.t = "frame" => m.k \in Kinds)
    BY <1>1 DEF DownMsgs
  <1>3. c.got \in [Kinds -> Nat]
    BY <1>1, SMTT(30) DEF StreamPages
  <1> HIDE DEF m, down
  <1>4. /\ g.hidden = c.hidden
        /\ m.t = "status" => /\ g.got = c.got /\ g.repair = c.repair /\ g.startup = c.startup
                             /\ g.ready = CASE m.k = "open" -> TRUE
                                            [] m.k = "connecting" -> FALSE
                                            [] OTHER -> c.ready
        /\ m.t = "cursor" => /\ ~g.repair /\ ~g.startup /\ g.ready = c.ready
                             /\ g.got = IF m.r \/ c.repair \/ c.startup THEN Whole ELSE c.got
        /\ m.t = "frame" => /\ g.repair = c.repair /\ g.startup = c.startup /\ g.ready = c.ready
                            /\ g.got = [c.got EXCEPT ![m.k] = Higher(@, m.n)]
    BY <1>1, TakeMsgFacts, ZenonT(30) DEF Heard1, m, down
  <1> HIDE DEF c, g
  <1>5. m.t = "cursor" => IF m.r \/ Asking(c) THEN \A k \in Kinds : g.got[k] = seq ELSE g.got = c.got
    BY <1>4 DEF Whole, Asking
  <1>6. m.t = "frame" => (\A k \in Kinds : c.got[k] <= g.got[k]) /\ m.n <= g.got[m.k]
    <2>1. ASSUME m.t = "frame" PROVE (\A k \in Kinds : c.got[k] <= g.got[k]) /\ m.n <= g.got[m.k]
      <3>1. g.got = [c.got EXCEPT ![m.k] = Higher(@, m.n)]
        BY <1>4, <2>1
      <3>2. m.k \in Kinds /\ m.n \in Nat
        BY <1>2, <2>1
      <3> QED BY <1>3, <3>1, <3>2 DEF Higher
    <2> QED BY <2>1
  <1>7. /\ m.t \in {"status", "frame"} => (Asking(g) <=> Asking(c))
        /\ m.t = "cursor" => ~Asking(g)
    BY <1>4 DEF Asking
  <1>8. m.t \in {"cursor", "frame"} => g.ready = c.ready
    BY <1>4
  <1>9. Elems(down) = Elems(Tail(down)) \cup {m}
    BY <1>1
  <1>10. g.hidden = c.hidden
    BY <1>4
  <1>11. m.t = "status" => /\ g.got = c.got
                           /\ g.ready = CASE m.k = "open" -> TRUE
                                          [] m.k = "connecting" -> FALSE
                                          [] OTHER -> c.ready
    BY <1>4
  <1>12. Hearing(c, g, m, down)
    BY <1>2, <1>5, <1>6, <1>7, <1>8, <1>9, <1>10, <1>11, Zenon DEF Hearing
  <1> QED BY <1>12 DEF c, g, m, down

\* What reached the page reaches it still, when it has read a message.
LEMMA HearingReaches ==
    ASSUME SyncAssumption, seq \in Nat, NEW g, NEW h, NEW m, NEW down, Hearing(g, h, m, down),
           NEW x, NEW l, NEW f, f.k \in Kinds, f.n \in Nat, f.n <= seq,
           g.got \in [Kinds -> Nat], h.got \in [Kinds -> Nat],
           ~Asking(g) => Reaches(g, x, l, down, f), ~Asking(h)
    PROVE  Reaches(h, x, l, Tail(down), f)
  <1>1. Elems(down) = Elems(Tail(down)) \cup {m} /\ m.t \in DownTypes \ {"gone"} /\ m.n \in Nat
    BY DEF Hearing
  <1>2. CASE m.t = "cursor" /\ (m.r \/ Asking(g))
    <2>1. h.got[f.k] = seq
      BY <1>2 DEF Hearing
    <2> QED BY <2>1 DEF Reaches
  <1>3. CASE ~(m.t = "cursor" /\ (m.r \/ Asking(g)))
    <2>1. ~Asking(g) /\ g.got[f.k] <= h.got[f.k]
      <3>1. CASE m.t = "cursor"
        BY <1>3, <3>1 DEF Hearing
      <3>2. CASE m.t = "status"
        BY <3>2 DEF Hearing
      <3>3. CASE m.t = "frame"
        BY <3>3 DEF Hearing
      <3> QED BY <1>1, <3>1, <3>2, <3>3 DEF DownTypes
    <2>2. ASSUME Carries(down, f) PROVE Carries(Tail(down), f) \/ f.n <= h.got[f.k]
      <3>1. PICK e \in Elems(down) : \/ e.t = "frame" /\ e.k = f.k /\ f.n <= e.n
                                     \/ e.t = "cursor" /\ e.r
        BY <2>2 DEF Carries
      <3>2. CASE e \in Elems(Tail(down))
        BY <3>1, <3>2 DEF Carries
      <3>3. CASE e = m
        <4>1. m.t = "frame" /\ m.k = f.k /\ f.n <= m.n
          BY <1>3, <3>1, <3>3
        <4> QED BY <1>1, <4>1 DEF Hearing
      <3> QED BY <1>1, <3>2, <3>3
    <2>3. f.n <= g.got[f.k] => f.n <= h.got[f.k]
      BY <2>1
    <2> QED BY <2>1, <2>2, <2>3 DEF Reaches
  <1> QED BY <1>2, <1>3

\* A page that has read a message is attended to as before.
LEMMA HearsAttended ==
    ASSUME SyncAssumption, seq \in Nat, NEW g \in StreamPages, NEW h \in StreamPages, NEW d, NEW x, NEW q,
           NEW u, u.up \in Seq(UpMsgs), u.down \in Seq(DownMsgs), u.down # <<>>,
           NEW m, m = Head(u.down), Hearing(g, h, m, u.down),
           NEW v, v.up = u.up, v.down = Tail(u.down),
           \A e \in Elems(u.up) : e.t # "connect",
           NEW fs, \A f \in fs : f.k \in Kinds /\ f.n \in Nat /\ f.n <= seq,
           Attended(g, d, x, q, u, fs)
    PROVE  Attended(h, d, x, q, v, fs)
  <1> DEFINE l == x.meta[q]
             down == u.down
             t == Tail(u.down)
  <1>1. /\ Visibly(g, l, u.up) /\ Readily(g, x.state, l, down)
        /\ Phased(g, l, x.subs[d], u.up, down) /\ Complete(g, x, l, down, fs)
    BY DEF Attended
  <1>2. Elems(down) = Elems(t) \cup {m} /\ m.t \in DownTypes \ {"gone"}
    BY DEF Hearing
  <1>3. /\ Calm(down) => Calm(t) /\ ~IsConnecting(m)
        /\ Opens(down) => Opens(t) \/ (IsOpen(m) /\ Calm(t))
    BY OpensTail
  <1>4. g.ready \in BOOLEAN /\ g.got \in [Kinds -> Nat] /\ h.got \in [Kinds -> Nat] /\ m = Head(down)
    BY DEF StreamPages
  <1>5. Hearing(g, h, m, down)
    OBVIOUS
  <1> HIDE DEF l, down, t
  <1>6. Heeds(down, g.ready) => Heeds(t, h.ready)
    <2>1. IsOpen(m) => h.ready
      BY <1>5 DEF Hearing, IsOpen
    <2>2. g.ready /\ ~IsConnecting(m) => h.ready
      BY <1>2, <1>5 DEF Hearing, IsConnecting, DownTypes
    <2> QED BY <1>3, <2>1, <2>2 DEF Heeds
  <1>7. Readily(h, x.state, l, t)
    BY <1>1, <1>6 DEF Readily
  <1>8. Visibly(h, l, u.up)
    BY <1>1, <1>5 DEF Visibly, Hearing
  <1>9. Phased(h, l, x.subs[d], u.up, t)
    <2>1. ~Asking(h) \/ (\E e \in Elems(t) : e.t = "cursor")
             <=> ~Asking(g) \/ (\E e \in Elems(down) : e.t = "cursor")
      <3>1. CASE m.t = "cursor"
        BY <1>2, <1>5, <3>1 DEF Hearing
      <3>2. CASE m.t # "cursor"
        <4>1. Asking(h) <=> Asking(g)
          BY <1>2, <1>5, <3>2 DEF Hearing, DownTypes
        <4> QED BY <1>2, <3>2, <4>1
      <3> QED BY <3>1, <3>2
    <2>2. (\E e \in Elems(t) : e.t = "gone") <=> \E e \in Elems(down) : e.t = "gone"
      BY <1>2
    <2> QED BY <1>1, <2>1, <2>2 DEF Phased
  <1>10. Complete(h, x, l, t, fs)
    <2>1. ASSUME ~Asking(h), l # None, l.sub, NEW f \in fs PROVE Reaches(h, x, l, t, f)
      <3>1. ~Asking(g) => Reaches(g, x, l, down, f)
        BY <1>1, <2>1 DEF Complete
      <3> QED BY <1>4, <1>5, <2>1, <3>1, HearingReaches DEF t, down
    <2> QED BY <2>1 DEF Complete
  <1> QED BY <1>7, <1>8, <1>9, <1>10 DEF Attended, l, t

\* A page that reads a message has the rest to read.
LEMMA HearCurrent == ASSUME SyncAssumption, BooksInv, CurrentInv, NEW p \in Pages, Hear(p) PROVE CurrentInv'
  <1> DEFINE c == page[p]
             q == c.port
             u == port[q]
             m == Head(u.down)
             g == Heard1(p)
             fs == Frames(of[p])
  <1>1. /\ c.st = "on" /\ UNCHANGED <<of, cap, w, seq, log>> /\ u.down # <<>>
        /\ m.t # "gone" => Moves1(p, g, Hears(u))
        /\ m.t = "gone" => Moves1(p, g, HungUp(Hears(u)))
    BY HearFacts
  <1>2. u \in PortRecords /\ u.page = p /\ q # None /\ q \in Ports /\ c \in StreamPages
    BY <1>1, PagePort DEF SyncAssumption
  <1>3. /\ Stirs(p, u, Hears(u)) /\ Hears(u).down = Tail(u.down) /\ Hears(u).up = u.up
        /\ Stirs(p, u, HungUp(Hears(u)))
    <2>1. u.down # <<>>
      BY <1>1
    <2> HIDE DEF u
    <2> QED BY <1>2, <2>1, PortMoves
  <1>4. u.down \in Seq(DownMsgs) /\ u.up \in Seq(UpMsgs) /\ m \in DownMsgs /\ seq \in Nat
    <2>1. c.st = "on" /\ u.down # <<>>
      <3> HIDE DEF c, q, u, m, g
      <3> QED BY <1>1
    <2>2. u.up \in Seq(UpMsgs)
      BY <1>2 DEF PortRecords
    <2> QED BY <2>1, <2>2, HeadFacts
  <1>5. /\ g \in StreamPages
        /\ m.t = "gone" => g.st = "gone"
        /\ m.t # "gone" => g.st = "on" /\ g.port = q
    BY <1>1, <1>2, <1>4, TakeMsgFacts DEF Heard1
  <1>6. CASE m.t = "gone"
    <2>1. g.st \notin {"on", "away", "suspended"}
      BY <1>5, <1>6
    <2> HIDE DEF g, m
    <2> QED BY <1>1, <1>3, <1>5, <1>6, <2>1, MoveCurrent
  <1>7. CASE m.t # "gone"
    <2>1. Hearing(c, g, m, u.down)
      BY <1>1, <1>7, TakeMsgHearing
    <2>2. Attended(c, of[p], w, q, u, fs)
      BY <1>1, PageOn
    <2>3. \A e \in Elems(u.up) : e.t # "connect"
      <3>1. ~Dialling(q)
        BY <1>1, <1>2, PortDocs DEF PortOK
      <3> QED BY <3>1, DiallingElems
    <2>4. \A f \in fs : f.k \in Kinds /\ f.n \in Nat /\ f.n <= seq
      BY FramesAre
    <2> DEFINE v == Hears(u)
    <2>5. v.up = u.up /\ v.down = Tail(u.down) /\ m = Head(u.down) /\ u.down # <<>>
      BY <1>1, <1>3
    <2> HIDE DEF v, g, m, fs, u, c, q
    <2>6. Attended(g, of[p], w, q, v, fs)
      BY <1>2, <1>4, <1>5, <2>1, <2>2, <2>3, <2>4, <2>5, <1>7, HearsAttended
    <2>7. g.st = "on" => g.port = page[p].port /\ Attended(g, of[p], w, page[p].port, v, Frames(of[p]))
      BY <1>5, <1>7, <2>6 DEF fs, q, c
    <2>8. Stirs(p, port[page[p].port], v) /\ Moves1(p, g, v) /\ page[p].st = "on"
      BY <1>1, <1>3, <1>7 DEF v, u, q, c
    <2>9. g.st \notin {"away", "suspended"}
      BY <1>5, <1>7
    <2> QED BY <1>1, <1>5, <2>7, <2>8, <2>9, MoveCurrent
  <1> QED BY <1>6, <1>7

-----------------------------------------------------------------------------
(* The invariant of the specification.                                     *)

\* At the start every page has yet to ask.
LEMMA InitCurrent == ASSUME SyncAssumption, Init PROVE CurrentInv
  <1>1. page = [p \in Pages |-> FreshPage] /\ w.stream = None
    BY DEF Init, NewWorker
  <1>2. ASSUME NEW p \in Pages PROVE page[p].st = "away" /\ Asking(page[p])
    BY <1>1 DEF FreshPage, Asking
  <1>3. ASSUME NEW p \in Pages PROVE PageCurrent(p)
    BY <1>2 DEF PageCurrent
  <1>4. Answering(w)
    BY <1>1 DEF Answering
  <1> QED BY <1>3, <1>4 DEF CurrentInv

\* And every step keeps the pages current.
LEMMA CurrentStays ==
    ASSUME SyncAssumption, BooksInv, OrderInv, CurrentInv, [Next]_vars PROVE CurrentInv'
  <1>1. CASE \E p \in Pages, q \in Ports : Start(p, q) \/ Resume(p, q) \/ Reopen(p, q)
    BY <1>1, DialCurrent
  <1>2. CASE \E p \in Pages : Hide(p) \/ Suspend(p) \/ Show(p) \/ GoDirect(p) \/ Close(p) \/ Kill(p)
    BY <1>2, MovesCurrent
  <1>3. CASE \E p \in Pages : Hear(p)
    BY <1>3, HearCurrent
  <1>4. CASE \E q \in Ports : Handle(q) \/ Sweep(q)
    BY <1>4, HandleCurrent, SweepCurrent
  <1>5. CASE Rebuild \/ Listen \/ Break \/ Accept
    BY <1>5, RebuildCurrent, ListenCurrent, BreakCurrent, AcceptCurrent
  <1>6. CASE \E d \in Lively, k \in Kinds : Publish(d, k)
    <2>1. Lively \subseteq Docs
      BY DEF SyncAssumption
    <2> QED BY <1>6, <2>1, PublishCurrent
  <1>7. CASE UNCHANGED vars
    <2>1. page' = page /\ port' = port /\ w' = w /\ log' = log /\ of' = of
      BY <1>7 DEF vars
    <2>2. Answering(w)'
      BY <2>1 DEF CurrentInv, Answering
    <2>3. ASSUME NEW p \in Pages PROVE PageCurrent(p)'
      <3>1. PageCurrent(p)
        BY ZenonT(20) DEF CurrentInv
      <3> QED BY <2>1, <3>1 DEF PageCurrent, Frames
    <2> QED BY <2>2, <2>3 DEF CurrentInv
  <1> QED BY <1>1, <1>2, <1>3, <1>4, <1>5, <1>6, <1>7 DEF Next

\* Where nothing is on its way to a page or from it, its document's stream is answered
\* and the page was sent where it starts.
LEMMA IdleServed ==
    ASSUME SyncAssumption, BooksInv, OrderInv, CurrentInv, NEW p \in Pages, Idle(p)
    PROVE  LET q == page[p].port
               m == w.meta[q]
               d == of[p]
           IN  /\ page[p].st = "on" /\ Elems(port[q].up) = {} /\ port[q].down = <<>>
               /\ m # None /\ m.sub /\ w.subs[d].opened
               /\ w.stream # None /\ w.stream.joined /\ d \in w.stream.docs
               /\ Elems(w.stream.q) = {}
  <1> DEFINE q == page[p].port
             m == w.meta[q]
             d == of[p]
  <1>1. /\ page[p].st = "on" /\ port[q].up = <<>> /\ port[q].down = <<>>
        /\ ~w.rebuild /\ ~w.reconnect /\ m # None
        /\ w.stream # None => w.stream.joined /\ w.stream.q = <<>>
    BY DEF Idle, Lost
  <1>2. /\ Attended(page[p], d, w, q, port[q], Frames(d))
        /\ Listens(w, q) => d \in Open(w) /\ w.subs[d] \in Subs
    BY <1>1, PageOn
  <1>3. Elems(port[q].up) = {} /\ Elems(port[q].down) = {}
    BY <1>1, NoElems
  <1>4. m.sub
    BY <1>1, <1>2, <1>3 DEF Attended, Phased
  <1>5. d \in Open(w) /\ w.subs[d] \in Subs
    BY <1>1, <1>2, <1>4 DEF Listens
  <1>6. Listed(w)
    BY PortDocs, BooksSay
  <1>7. w.stream # None /\ w.stream.docs = Open(w)
    BY <1>1, <1>5, <1>6 DEF Listed
  <1>8. w.stream.joined /\ Elems(w.stream.q) = {}
    BY <1>1, <1>7, NoElems
  <1>9. w.subs[d].opened
    <2>1. EntryOrder(w.stream, d, w.subs[d])
      BY <1>5, <1>7 DEF OrderInv, StreamOrder
    <2>2. ~Due(w.stream, d)
      BY <1>8 DEF Due
    <2> QED BY <1>5, <1>8, <2>1, <2>2 DEF EntryOrder, Subs
  <1> QED BY <1>1, <1>3, <1>4, <1>5, <1>7, <1>8, <1>9

\* What a run checks of the pages follows.
LEMMA CurrentTells ==
    ASSUME SyncAssumption, BooksInv, OrderInv, CurrentInv PROVE VisibleIsCurrent
  <1> SUFFICES ASSUME NEW p \in Pages, Idle(p), ~page[p].hidden PROVE Current(p) /\ page[p].ready
    BY DEF VisibleIsCurrent
  <1> DEFINE g == page[p]
             q == page[p].port
             m == w.meta[q]
             d == of[p]
             u == port[q]
  <1>1. /\ g.st = "on" /\ Elems(u.up) = {} /\ u.down = <<>>
        /\ m # None /\ m.sub /\ w.subs[d].opened
        /\ w.stream # None /\ w.stream.joined /\ d \in w.stream.docs
        /\ Elems(w.stream.q) = {}
    BY IdleServed
  <1>2. Attended(g, d, w, q, u, Frames(d)) /\ g \in StreamPages /\ m \in Metas
    BY <1>1, PageOn
  <1>3. Elems(u.down) = {} /\ DOMAIN u.down = {}
    BY <1>1, NoElems
  <1>4. m = w.meta[q] /\ ~g.hidden /\ Answering(w)
    BY DEF CurrentInv
  <1>5. g.got \in [Kinds -> Nat]
    BY <1>2 DEF StreamPages
  <1> HIDE DEF g, q, m, d, u
  <1>6. g.ready
    <2>1. w.state = "open"
      BY <1>1, <1>4 DEF Answering
    <2>2. Heeds(u.down, g.ready)
      BY <1>1, <1>2, <1>4, <2>1 DEF Attended, Readily
    <2> QED BY <1>3, <2>2 DEF Heeds, Opens
  <1>7. m.visible
    BY <1>1, <1>2, <1>4 DEF Attended, Visibly
  <1>8. ~Asking(g)
    BY <1>1, <1>2, <1>3, <1>4 DEF Attended, Phased
  <1>9. ASSUME NEW f \in Frames(d) PROVE f.n <= g.got[f.k]
    <2>1. Reaches(g, w, m, u.down, f)
      BY <1>1, <1>2, <1>4, <1>8, <1>9 DEF Attended, Complete
    <2>2. ~Carries(u.down, f)
      BY <1>3 DEF Carries
    <2>3. ~Coming(w, f)
      BY <1>1, <1>9 DEF Coming, Frames
    <2> QED BY <1>7, <2>1, <2>2, <2>3 DEF Reaches, KeptFor
  <1>10. Current(p)
    <2>1. ASSUME NEW i \in DOMAIN log, log[i].doc = d PROVE g.got[log[i].k] >= log[i].n
      <3>1. log[i] \in Frames(d)
        BY <2>1 DEF Frames, Elems
      <3>2. log[i].n <= g.got[log[i].k] /\ log[i].k \in Kinds /\ log[i].n \in Nat
        BY <1>9, <3>1, FramesAre
      <3> QED BY <1>5, <3>2
    <2> QED BY <2>1 DEF Current, g, d
  <1> QED BY <1>6, <1>10 DEF g

\* A visible page that nothing is on its way to has the newest frame of each kind of its
\* document, or was told to fetch the document after it, and takes the stream for open
\* (sync-worker.js: rebuild, subscribe, deliverLatest, sendCursors; stream.js: suspend,
\* resume, failover): whatever streams broke or were refused, whatever ports were closed,
\* swept or lost, for any number of pages, documents, kinds and ports.
THEOREM VisibleAlwaysCurrent == Spec => []VisibleIsCurrent
  <1>1. Init => BooksInv /\ OrderInv /\ CurrentInv
    BY SyncAssumption, InitBooks, InitOrder, InitCurrent
  <1>2. BooksInv /\ OrderInv /\ CurrentInv /\ [Next]_vars => (BooksInv /\ OrderInv /\ CurrentInv)'
    BY SyncAssumption, BooksStay, OrderStays, CurrentStays
  <1>3. BooksInv /\ OrderInv /\ CurrentInv => VisibleIsCurrent
    BY SyncAssumption, CurrentTells
  <1> QED BY <1>1, <1>2, <1>3, PTL DEF Spec
=============================================================================
