-------------------------- MODULE SharedSyncProofs --------------------------
(***************************************************************************)
(* Theorems about SharedSync, for any pages, documents, ports and caps,    *)
(* any placement of the pages, and everything that may happen to them.     *)
(***************************************************************************)
EXTENDS SharedSync, PickingProofs

-----------------------------------------------------------------------------
(* The books: what the worker's record says of its ports, documents and    *)
(* stream, and the messages between it and the pages.                      *)

UpTypes == {"connect", "unsubscribe", "visible", "hidden"}
DownTypes == {"status", "cursor", "frame", "gone"}
UpMsgs == [t : UpTypes, n : Nat, k : {None}, r : BOOLEAN]
DownMsgs == {m \in [t : DownTypes, n : Nat, k : Kinds \cup States \cup {None}, r : BOOLEAN] :
                m.t = "frame" => m.k \in Kinds}
GoodEvents == {e \in Events : /\ e.t # "open" => e.doc \in Docs
                              /\ e.t = "frame" => e.k \in Kinds}
Workers == [state : States, subs : [Docs -> Subs \cup {None}], stream : Streams \cup {None},
            rebuild : BOOLEAN, reconnect : BOOLEAN, meta : [Ports -> Metas \cup {None}],
            out : [Ports -> Seq(DownMsgs)]]
PortRecords == [page : Pages \cup {None}, closed : BOOLEAN, up : Seq(UpMsgs),
                down : Seq(DownMsgs)]

\* A connection is the first message of its port, and waits to be handled.
Dialling(q) == \E i \in DOMAIN port[q].up : port[q].up[i].t = "connect"

\* A port nobody holds is nobody's, and the worker learns of a port from its connection.
PortOK(q) ==
    /\ port[q].page = None => port[q] = NoPort /\ w.meta[q] = None
    /\ \A i \in DOMAIN port[q].up : port[q].up[i].t = "connect" => i = 1
    /\ Dialling(q) => w.meta[q] = None /\ port[q].down = <<>>

\* What was published, in order.
LogOK ==
    /\ seq \in Nat \ {0} /\ log \in Seq(GoodEvents)
    /\ \A f \in Elems(log) : f.t = "frame" /\ f.n <= seq
    /\ \A i, j \in DOMAIN log : i < j => log[i].n < log[j].n

\* The ports whose record says that they are subscribed to d.
Holders(x, d) == {q \in Ports : x.meta[q] # None /\ x.meta[q].sub /\ DocOf(q) = d}

StreamOK(x) ==
    x.stream # None => /\ x.stream.docs \subseteq Open(x)
                       /\ x.stream.docs \subseteq DOMAIN x.stream.asked
                       /\ IsFiniteSet(DOMAIN x.stream.asked)
                       /\ x.stream.q \in Seq(GoodEvents)

\* Unless a rebuild or a reconnection is due, the stream lists what is open.
Listed(x) ==
    ~x.rebuild /\ ~x.reconnect =>
       IF x.stream = None THEN Open(x) = {} /\ x.state = "closed"
       ELSE x.stream.docs = Open(x) /\ DOMAIN x.stream.asked = Open(x)

Books(x) ==
    /\ x \in Workers
    /\ \A d \in Docs : Holders(x, d) = IF x.subs[d] = None THEN {} ELSE x.subs[d].ports
    /\ \A d \in Open(x) : x.subs[d].ports # {}
    /\ IsFiniteSet(Open(x)) /\ Cardinality(Open(x)) <= cap
    /\ StreamOK(x) /\ Listed(x)

PagesOK ==
    /\ page \in [Pages -> StreamPages]
    /\ \A p \in Pages : page[p].st = "on" <=> page[p].port # None
    /\ \A p \in Pages : page[p].st = "on" =>
          port[page[p].port].page = p /\ ~port[page[p].port].closed

BooksInv ==
    /\ of \in Placements /\ cap \in Caps
    /\ w.out = NewWorker.out
    /\ PagesOK /\ LogOK
    /\ port \in [Ports -> PortRecords]
    /\ \A q \in Ports : PortOK(q)
    /\ Books(w)

-----------------------------------------------------------------------------
(* Messages and their queues.                                              *)

IsOpen(m) == m.t = "status" /\ m.k = "open"
IsConnecting(m) == m.t = "status" /\ m.k = "connecting"

\* No message says that the stream is not open, and the last word of s is that it is.
Calm(s) == \A e \in Elems(s) : ~IsConnecting(e)
Opens(s) == \E i \in DOMAIN s : /\ IsOpen(s[i])
                                /\ \A j \in DOMAIN s : i < j => ~IsConnecting(s[j])

\* Who has s to read ends up taking the stream for open.
Heeds(s, ready) == Opens(s) \/ (ready /\ Calm(s))

\* What a message to a page can be.
LEMMA StatusMsg == ASSUME NEW s \in States
                   PROVE  LET m == Msg("status", 0, s, FALSE)
                          IN  m \in DownMsgs /\ m.t = "status" /\ m.k = s
  BY DEF Msg, DownMsgs, DownTypes

\* A cursor: its number and whether it tells to resync.
LEMMA CursorMsg == ASSUME NEW n \in Nat, NEW r \in BOOLEAN
                   PROVE  LET m == Msg("cursor", n, None, r)
                          IN  m \in DownMsgs /\ m.t = "cursor" /\ m.n = n /\ m.r = r
  BY DEF Msg, DownMsgs, DownTypes

\* A frame: its number and its kind.
LEMMA FrameMsg == ASSUME NEW n \in Nat, NEW k \in Kinds
                  PROVE  LET m == Msg("frame", n, k, FALSE)
                         IN  m \in DownMsgs /\ m.t = "frame" /\ m.n = n /\ m.k = k
  BY DEF Msg, DownMsgs, DownTypes

\* The message a port is dropped with.
LEMMA GoneMsg == LET m == Msg("gone", 0, None, FALSE) IN m \in DownMsgs /\ m.t = "gone"
  BY DEF Msg, DownMsgs, DownTypes

\* A sequence of one element.
LEMMA OneElem ==
    ASSUME NEW V, NEW m \in V
    PROVE  <<m>> \in Seq(V) /\ Elems(<<m>>) = {m} /\ DOMAIN <<m>> = {1} /\ <<m>>[1] = m
           /\ Len(<<m>>) = 1
  <1>1. <<m>> \in Seq(V) /\ DOMAIN <<m>> = 1 .. 1 /\ <<m>>[1] = m /\ Len(<<m>>) = 1
    OBVIOUS
  <1>2. 1 .. 1 = {1}
    OBVIOUS
  <1> QED BY <1>1, <1>2 DEF Elems

\* And what Append makes of one, and of none.
LEMMA AppendOne == ASSUME NEW l, NEW m PROVE Append(<<l>>, m) = <<l, m>> /\ Append(<<>>, m) = <<m>>
  <1> DEFINE a == Append(<<l>>, m)
  <1>1. a \in Seq({l, m}) /\ Len(a) = 2 /\ a[1] = l /\ a[2] = m
    OBVIOUS
  <1> HIDE DEF a
  <1>2. a = <<l, m>>
    BY <1>1
  <1>3. Append(<<>>, m) = <<m>>
    OBVIOUS
  <1> QED BY <1>2, <1>3 DEF a

\* A sequence of two elements.
LEMMA TwoElems ==
    ASSUME NEW V, NEW l \in V, NEW m \in V
    PROVE  /\ <<l, m>> \in Seq(V)
           /\ Elems(<<l, m>>) = {l, m} /\ DOMAIN <<l, m>> = {1, 2}
           /\ <<l, m>>[1] = l /\ <<l, m>>[2] = m
  <1>1. <<l, m>> \in Seq(V)
    OBVIOUS
  <1>2. DOMAIN <<l, m>> = 1 .. 2 /\ <<l, m>>[1] = l /\ <<l, m>>[2] = m
    OBVIOUS
  <1>3. 1 .. 2 = {1, 2}
    OBVIOUS
  <1> QED BY <1>1, <1>2, <1>3 DEF Elems

\* The empty sequence has none.
LEMMA NoElems == Elems(<<>>) = {} /\ DOMAIN <<>> = {}
  BY DEF Elems

\* What one sequence says behind another.
LEMMA OpensConcat ==
    ASSUME NEW V, NEW s \in Seq(V), NEW t \in Seq(V)
    PROVE  /\ Calm(s) /\ Calm(t) => Calm(s \o t)
           /\ Opens(s) /\ Calm(t) => Opens(s \o t)
           /\ Opens(t) => Opens(s \o t)
  <1> DEFINE r == s \o t
  <1>1. /\ Len(s) \in Nat /\ Len(t) \in Nat
        /\ DOMAIN s = 1 .. Len(s) /\ DOMAIN t = 1 .. Len(t)
        /\ DOMAIN r = 1 .. Len(s) + Len(t)
        /\ \A i \in 1 .. Len(s) + Len(t) : r[i] = IF i <= Len(s) THEN s[i] ELSE t[i - Len(s)]
    OBVIOUS
  <1>2. Elems(r) = Elems(s) \cup Elems(t)
    BY ConcatElems
  <1> HIDE DEF r
  <1>3. Calm(s) /\ Calm(t) => Calm(r)
    BY <1>2 DEF Calm
  <1>4. ASSUME Opens(s), Calm(t)
        PROVE  Opens(r)
    <2>1. PICK i \in DOMAIN s : /\ IsOpen(s[i])
                                /\ \A j \in DOMAIN s : i < j => ~IsConnecting(s[j])
      BY <1>4 DEF Opens
    <2>2. i \in DOMAIN r /\ r[i] = s[i]
      BY <1>1
    <2>3. ASSUME NEW j \in DOMAIN r, i < j
          PROVE  ~IsConnecting(r[j])
      <3>1. CASE j \in DOMAIN s
        BY <1>1, <2>1, <2>3, <3>1
      <3>2. CASE j \notin DOMAIN s
        <4>1. j - Len(s) \in DOMAIN t /\ r[j] = t[j - Len(s)]
          BY <1>1, <3>2
        <4> QED BY <1>4, <4>1 DEF Calm, Elems
      <3> QED BY <3>1, <3>2
    <2> QED BY <2>1, <2>2, <2>3 DEF Opens
  <1>5. ASSUME Opens(t)
        PROVE  Opens(r)
    <2>1. PICK i \in DOMAIN t : /\ IsOpen(t[i])
                                /\ \A j \in DOMAIN t : i < j => ~IsConnecting(t[j])
      BY <1>5 DEF Opens
    <2>2. i + Len(s) \in DOMAIN r /\ r[i + Len(s)] = t[i]
      BY <1>1
    <2>3. ASSUME NEW j \in DOMAIN r, i + Len(s) < j
          PROVE  ~IsConnecting(r[j])
      <3>1. j - Len(s) \in DOMAIN t /\ r[j] = t[j - Len(s)] /\ i < j - Len(s)
        BY <1>1, <2>3
      <3> QED BY <2>1, <3>1
    <2> QED BY <2>1, <2>2, <2>3 DEF Opens
  <1> QED BY <1>3, <1>4, <1>5 DEF r

\* What is left to say when the first message is read.
LEMMA OpensTail ==
    ASSUME NEW V, NEW s \in Seq(V), s # <<>>
    PROVE  /\ Calm(s) => Calm(Tail(s)) /\ ~IsConnecting(Head(s))
           /\ Opens(s) => Opens(Tail(s)) \/ (IsOpen(Head(s)) /\ Calm(Tail(s)))
  <1> DEFINE r == Tail(s)
  <1>1. Elems(s) = Elems(r) \cup {Head(s)}
    BY TailElems
  <1>2. /\ Len(s) \in Nat /\ Len(s) > 0 /\ Head(s) = s[1]
        /\ DOMAIN s = 1 .. Len(s) /\ DOMAIN r = 1 .. Len(s) - 1
        /\ \A i \in 1 .. Len(s) - 1 : r[i] = s[i + 1]
    OBVIOUS
  <1> HIDE DEF r
  <1>3. Calm(s) => Calm(r) /\ ~IsConnecting(Head(s))
    BY <1>1 DEF Calm
  <1>4. ASSUME Opens(s)
        PROVE  Opens(r) \/ (IsOpen(Head(s)) /\ Calm(r))
    <2>1. PICK i \in DOMAIN s : /\ IsOpen(s[i])
                                /\ \A j \in DOMAIN s : i < j => ~IsConnecting(s[j])
      BY <1>4 DEF Opens
    <2>2. ASSUME NEW j \in DOMAIN r, i < j + 1
          PROVE  ~IsConnecting(r[j])
      BY <1>2, <2>1, <2>2
    <2>3. CASE i = 1
      <3>1. Calm(r)
        BY <1>2, <2>2, <2>3 DEF Calm, Elems
      <3> QED BY <1>2, <2>1, <2>3, <3>1
    <2>4. CASE i # 1
      <3>1. i - 1 \in DOMAIN r /\ r[i - 1] = s[i]
        BY <1>2, <2>4
      <3>2. \A j \in DOMAIN r : i - 1 < j => i < j + 1
        BY <1>2
      <3> QED BY <2>1, <2>2, <3>1, <3>2 DEF Opens
    <2> QED BY <2>3, <2>4
  <1> QED BY <1>3, <1>4 DEF r

\* Messages that are all news of an open stream leave whoever has them to read with it.
LEMMA OpenNews ==
    ASSUME NEW V, NEW s \in Seq(V), \A e \in Elems(s) : e.t = "status" => e.k = "open"
    PROVE  Calm(s) /\ ((\E e \in Elems(s) : e.t = "status") => Opens(s))
  <1>1. \A e \in Elems(s) : e.t = "status" => IsOpen(e) /\ ~IsConnecting(e)
    BY DEF IsOpen, IsConnecting
  <1>2. Calm(s)
    BY DEF Calm, IsConnecting
  <1> QED BY <1>1, <1>2 DEF Opens, Calm, Elems

\* What a page has to read after a handler: all of both, but for a status at the seam,
\* in the same order.
LEMMA JoinedElems ==
    ASSUME NEW down \in Seq(DownMsgs), NEW out \in Seq(DownMsgs)
    PROVE  LET r == Joined(down, out)
           IN  /\ r \in Seq(DownMsgs)
               /\ \A e \in Elems(r) : e \in Elems(down) \/ e \in Elems(out)
               /\ \A e \in Elems(down) \cup Elems(out) : e.t = "status" \/ e \in Elems(r)
               /\ \A R : SortedBy(down, R) /\ SortedBy(out, R)
                         /\ (\A e \in Elems(down), f \in Elems(out) : <<e, f>> \in R)
                         => SortedBy(r, R)
               /\ \A ready \in BOOLEAN :
                     /\ \A e \in Elems(out) : e.t = "status" => e.k = "open"
                     /\ Heeds(down, ready) \/ \E e \in Elems(out) : e.t = "status"
                     => Heeds(r, ready)
  <1> DEFINE seam == down # <<>> /\ out # <<>> /\ down[Len(down)].t = "status" /\ out[1].t = "status"
             front == SubSeq(down, 1, Len(down) - 1)
             s == IF seam THEN front ELSE down
             r == Joined(down, out)
  <1>1. r = s \o out
    BY DEF Joined
  <1>2. /\ s \in Seq(DownMsgs)
        /\ Elems(s) \subseteq Elems(down)
        /\ \A e \in Elems(down) : e.t = "status" \/ e \in Elems(s)
        /\ \A R : SortedBy(down, R) => SortedBy(s, R)
    <2>1. CASE seam
      <3>1. front \in Seq(DownMsgs) /\ Elems(down) = Elems(front) \cup {down[Len(down)]}
            /\ \A R : SortedBy(down, R) => SortedBy(front, R)
        BY <2>1, FrontElems
      <3> HIDE DEF front
      <3> QED BY <2>1, <3>1
    <2>2. CASE ~seam
      BY <2>2
    <2> QED BY <2>1, <2>2
  <1>3. ~seam => s = down
    OBVIOUS
  <1>4. seam => \E e \in Elems(out) : e.t = "status"
    <2>1. out # <<>> => 1 \in DOMAIN out
      OBVIOUS
    <2> QED BY <2>1 DEF Elems
  <1> HIDE DEF s, seam, front, r
  <1>5. r \in Seq(DownMsgs) /\ Elems(r) = Elems(s) \cup Elems(out)
    BY <1>1, <1>2, ConcatElems
  <1>8. ASSUME NEW R, SortedBy(s, R), SortedBy(out, R),
               \A e \in Elems(s), f \in Elems(out) : <<e, f>> \in R
        PROVE  SortedBy(r, R)
    BY <1>1, <1>2, <1>8, ConcatElems
  <1>6. \A R : SortedBy(down, R) /\ SortedBy(out, R)
               /\ (\A e \in Elems(down), f \in Elems(out) : <<e, f>> \in R)
               => SortedBy(r, R)
    BY <1>2, <1>8
  <1>7. ASSUME NEW ready \in BOOLEAN, \A e \in Elems(out) : e.t = "status" => e.k = "open",
               Heeds(down, ready) \/ \E e \in Elems(out) : e.t = "status"
        PROVE  Heeds(r, ready)
    <2>1. Calm(out) /\ ((\E e \in Elems(out) : e.t = "status") => Opens(out))
      BY <1>7, OpenNews
    <2>2. CASE \E e \in Elems(out) : e.t = "status"
      BY <1>1, <1>2, <2>1, <2>2, OpensConcat DEF Heeds
    <2>3. CASE ~\E e \in Elems(out) : e.t = "status"
      <3>1. s = down /\ Heeds(s, ready)
        BY <1>3, <1>4, <1>7, <2>3
      <3> QED BY <1>1, <1>2, <2>1, <3>1, OpensConcat DEF Heeds
    <2> QED BY <2>2, <2>3
  <1> QED BY <1>2, <1>5, <1>6, <1>7 DEF r

\* Of two frames the first has the lower number.
Rising == {p \in DownMsgs \X DownMsgs :
             p[1].t = "frame" /\ p[2].t = "frame" => p[1].n < p[2].n}

Distinct(sub) == \A k, l \in Kinds : sub.content[k] = sub.content[l] => k = l \/ sub.content[k] = 0

\* The number of the last frame of a document.
LEMMA LatestFacts ==
    ASSUME SyncAssumption, NEW sub \in Subs
    PROVE  /\ Latest(sub) \in Nat
           /\ \E k \in Kinds : Latest(sub) = sub.content[k]
           /\ \A k \in Kinds : sub.content[k] <= Latest(sub)
  <1>1. \A k \in Kinds : sub.content[k] \in Nat
    BY DEF Subs
  <1>2. PICK k \in Kinds : \A l \in Kinds : sub.content[l] <= sub.content[k]
    BY <1>1, HighestOf DEF SyncAssumption
  <1> DEFINE n == {sub.content[l] : l \in Kinds}
  <1>3. sub.content[k] \in n /\ \A l \in n : l <= sub.content[k]
    BY <1>2
  <1>4. Latest(sub) \in n /\ \A l \in n : l <= Latest(sub)
    BY <1>3 DEF Latest
  <1> QED BY <1>1, <1>4

\* What is repeated to a port that has seen frames up to n.
LEMMA RepeatsFacts ==
    ASSUME SyncAssumption, NEW sub \in Subs, NEW n \in Nat
    PROVE  LET r == Repeats(sub, n)
           IN  /\ r \in Seq(DownMsgs)
               /\ \A e \in Elems(r) : e.t = "frame" /\ e.k \in Kinds /\ e.n = sub.content[e.k] /\ n < e.n
               /\ \A k \in Kinds : n < sub.content[k] =>
                     \E e \in Elems(r) : e.t = "frame" /\ e.k = k /\ e.n = sub.content[k]
               /\ Distinct(sub) => SortedBy(r, Rising)
  <1> DEFINE S == Missed(sub, n)
             first == [ks \in (SUBSET Kinds) \ {{}} |->
                         CHOOSE k \in ks : \A l \in ks : sub.content[k] <= sub.content[l]]
             part == [k \in Kinds |-> <<Msg("frame", sub.content[k], k, FALSE)>>]
             r == Strung(S, first, part)
  <1>1. Repeats(sub, n) = r
    BY DEF Repeats
  <1>2. \A k \in Kinds : sub.content[k] \in Nat
    BY DEF Subs
  <1>3. S \subseteq Kinds /\ IsFiniteSet(S) /\ \A k \in Kinds : k \in S <=> n < sub.content[k]
    <2>1. S \subseteq Kinds
      BY DEF Missed
    <2>2. IsFiniteSet(S)
      BY <2>1, FS_Subset DEF SyncAssumption
    <2> QED BY <1>2, <2>1, <2>2 DEF Missed
  <1> HIDE DEF S
  <1>4. ASSUME NEW T \in SUBSET S, T # {}
        PROVE  first[T] \in T /\ \A l \in T : sub.content[first[T]] <= sub.content[l]
    <2>1. T \in (SUBSET Kinds) \ {{}}
      <3>1. S \subseteq Kinds
        BY <1>3
      <3> HIDE DEF S
      <3>2. T \in SUBSET Kinds
        BY <3>1, <1>4
      <3>3. T \notin {{}}
        BY <1>4
      <3> QED BY <3>2, <3>3
    <2> DEFINE ns == {sub.content[l] : l \in T}
    <2>2. ns \subseteq Nat /\ ns # {}
      BY <1>2, <1>4, <2>1
    <2>3. \E m \in ns : \A l \in ns : m <= l
      BY <2>2, LeastNumber
    <2>4. \E k \in T : \A l \in T : sub.content[k] <= sub.content[l]
      BY <2>3
    <2> QED BY <2>1, <2>4
  <1>5. ASSUME NEW k \in Kinds
        PROVE  /\ part[k] \in Seq(DownMsgs) /\ SortedBy(part[k], Rising)
               /\ Elems(part[k]) = {Msg("frame", sub.content[k], k, FALSE)}
    <2> DEFINE m == Msg("frame", sub.content[k], k, FALSE)
    <2>1. m \in DownMsgs
      BY <1>2, FrameMsg
    <2>2. part[k] = <<m>>
      OBVIOUS
    <2> HIDE DEF m, part
    <2>3. DOMAIN part[k] = {1} /\ part[k] \in Seq(DownMsgs) /\ Elems(part[k]) = {m}
      BY <2>1, <2>2, OneElem
    <2>4. SortedBy(part[k], Rising)
      BY <2>3 DEF SortedBy
    <2> QED BY <2>3, <2>4 DEF m
  <1> HIDE DEF first, part
  <1>13. Leads(S, first) /\ \A k \in S : part[k] \in Seq(DownMsgs)
    BY <1>3, <1>4, <1>5 DEF Leads
  <1>6. /\ r \in Seq(DownMsgs)
        /\ \A e : e \in Elems(r) <=> \E k \in S : e \in Elems(part[k])
        /\ Chained(S, first, part, Rising) => SortedBy(r, Rising)
    <2>1. IsFiniteSet(S) /\ \A k \in S : part[k] \in Seq(DownMsgs)
      BY <1>3, <1>13
    <2>2. Leads(S, first)
      BY <1>13
    <2> QED BY <2>1, <2>2, StrungOrdered
  <1>7. \A e \in Elems(r) : \E k \in S : e = Msg("frame", sub.content[k], k, FALSE)
    <2> SUFFICES ASSUME NEW e \in Elems(r)
                 PROVE  \E k \in S : e = Msg("frame", sub.content[k], k, FALSE)
      OBVIOUS
    <2>1. PICK k \in S : e \in Elems(part[k])
      BY <1>6
    <2>2. Elems(part[k]) = {Msg("frame", sub.content[k], k, FALSE)}
      BY <1>3, <1>5
    <2> QED BY <2>1, <2>2
  <1>8. \A k \in S : Msg("frame", sub.content[k], k, FALSE) \in Elems(r)
    BY <1>3, <1>5, <1>6
  <1>9. ASSUME Distinct(sub)
        PROVE  SortedBy(r, Rising)
    <2>1. ASSUME NEW T \in SUBSET S, NEW k \in T, k # first[T],
                 NEW e \in Elems(part[first[T]]), NEW f \in Elems(part[k])
          PROVE  <<e, f>> \in Rising
      <3> DEFINE l == first[T]
      <3>1. l \in Kinds /\ k \in Kinds /\ l # k /\ n < sub.content[l] /\ sub.content[l] <= sub.content[k]
        BY <1>3, <1>4, <2>1
      <3> HIDE DEF l
      <3>2. e = Msg("frame", sub.content[l], l, FALSE) /\ f = Msg("frame", sub.content[k], k, FALSE)
        BY <1>5, <2>1, <3>1 DEF l
      <3>3. e \in DownMsgs /\ f \in DownMsgs /\ e.n = sub.content[l] /\ f.n = sub.content[k]
        BY <1>2, <3>1, <3>2, FrameMsg
      <3>4. sub.content[l] < sub.content[k]
        BY <1>2, <1>9, <3>1 DEF Distinct
      <3> QED BY <3>3, <3>4 DEF Rising
    <2>2. \A k \in S : SortedBy(part[k], Rising)
      BY <1>3, <1>5
    <2>3. Chained(S, first, part, Rising)
      BY <2>1, <2>2 DEF Chained
    <2> QED BY <1>6, <2>3
  <1>10. \A k \in S : LET m == Msg("frame", sub.content[k], k, FALSE)
                      IN  m.t = "frame" /\ m.n = sub.content[k] /\ m.k = k
    BY <1>2, <1>3, FrameMsg
  <1> HIDE DEF r
  <1>11. \A e \in Elems(r) : e.t = "frame" /\ e.k \in Kinds /\ e.n = sub.content[e.k] /\ n < e.n
    <2> SUFFICES ASSUME NEW e \in Elems(r)
                 PROVE  e.t = "frame" /\ e.k \in Kinds /\ e.n = sub.content[e.k] /\ n < e.n
      OBVIOUS
    <2>1. PICK k \in S : e = Msg("frame", sub.content[k], k, FALSE)
      BY <1>7
    <2>2. e.t = "frame" /\ e.n = sub.content[k] /\ e.k = k
      BY <1>10, <2>1
    <2> QED BY <1>3, <2>2
  <1>12. \A k \in Kinds : n < sub.content[k] =>
            \E e \in Elems(r) : e.t = "frame" /\ e.k = k /\ e.n = sub.content[k]
    BY <1>3, <1>8, <1>10
  <1> QED BY <1>1, <1>6, <1>9, <1>11, <1>12

-----------------------------------------------------------------------------
(* What the worker's operations do to its record.                          *)

\* The stream without d's record.
LEMMA TrimmedFacts ==
    ASSUME SyncAssumption, NEW s \in Streams \cup {None}, NEW d
    PROVE  LET t == Trimmed(s, d)
           IN  /\ t \in Streams \cup {None}
               /\ t = None <=> s = None
               /\ s # None => /\ t.docs = s.docs \ {d} /\ t.asked = s.asked
                              /\ t.joined = s.joined /\ t.q = s.q
  <1>1. CASE s = None
    BY <1>1 DEF Trimmed
  <1>2. CASE s # None
    <2> DEFINE t == [s EXCEPT !.docs = @ \ {d}]
    <2>1. s \in Streams
      BY <1>2
    <2>3. Trimmed(s, d) = t
      BY <1>2 DEF Trimmed
    <2> DEFINE A == UNION {[ds -> Nat] : ds \in SUBSET Docs}
    <2>4. s \in [docs : SUBSET Docs, asked : A, joined : BOOLEAN, q : Seq(Events)]
      BY <2>1 DEF Streams
    <2> HIDE DEF A
    <2>5. t \in [docs : SUBSET Docs, asked : A, joined : BOOLEAN, q : Seq(Events)]
      BY <2>4
    <2>6. t.docs = s.docs \ {d} /\ t.asked = s.asked /\ t.joined = s.joined /\ t.q = s.q
      BY <2>4
    <2> HIDE DEF t
    <2>2. t \in Streams
      BY <2>5 DEF Streams, A
    <2> QED BY <1>2, <2>2, <2>3, <2>6 DEF SyncAssumption
  <1> QED BY <1>1, <1>2

\* A document's record goes with its place in the stream, and a rebuild is due.
LEMMA DeletedFacts ==
    ASSUME SyncAssumption, NEW x \in Workers, NEW d \in Docs
    PROVE  LET y == Deleted(x, d)
           IN  /\ y \in Workers
               /\ y.state = x.state /\ y.reconnect = x.reconnect /\ y.rebuild
               /\ y.meta = x.meta /\ y.out = x.out
               /\ y.subs = [x.subs EXCEPT ![d] = None]
               /\ y.stream = Trimmed(x.stream, d)
  <1> DEFINE t == Trimmed(x.stream, d)
             y == [x EXCEPT !.subs[d] = None, !.rebuild = TRUE, !.stream = Trimmed(@, d)]
  <1>1. Deleted(x, d) = y
    BY DEF Deleted
  <1>2. t \in Streams \cup {None}
    BY TrimmedFacts DEF Workers
  <1> HIDE DEF t
  <1>5. y = [x EXCEPT !.subs[d] = None, !.rebuild = TRUE, !.stream = t]
    BY DEF t, Workers
  <1> HIDE DEF y
  <1>3. y \in Workers
    BY <1>2, <1>5 DEF Workers
  <1>4. /\ y.state = x.state /\ y.reconnect = x.reconnect /\ y.rebuild
        /\ y.meta = x.meta /\ y.out = x.out
        /\ y.subs = [x.subs EXCEPT ![d] = None]
        /\ y.stream = t
    BY <1>5 DEF Workers
  <1> QED BY <1>1, <1>3, <1>4 DEF t, y

\* The record of a port that gives up its subscription.
Quit(m) == [m EXCEPT !.sub = FALSE]

\* A port's record once it has unsubscribed.
LEMMA MetaFacts ==
    ASSUME SyncAssumption, NEW m \in Metas
    PROVE  /\ m # None
           /\ Quit(m) \in Metas /\ ~Quit(m).sub /\ Quit(m).visible = m.visible
           /\ Quit(m).seen = m.seen /\ Quit(m).cursored = m.cursored
  BY DEF SyncAssumption, Metas, Quit

\* The record of a document that one port leaves, or joins.
Left(sub, q) == [sub EXCEPT !.ports = @ \ {q}]
With(sub, q) == [sub EXCEPT !.ports = @ \cup {q}]

\* A document's record when a port leaves it or joins it.
LEMMA SubFacts ==
    ASSUME SyncAssumption, NEW sub \in Subs, NEW q \in Ports
    PROVE  /\ sub # None
           /\ Left(sub, q) \in Subs /\ Left(sub, q).ports = sub.ports \ {q}
           /\ Left(sub, q).since = sub.since /\ Left(sub, q).opened = sub.opened
           /\ Left(sub, q).content = sub.content /\ Left(sub, q).needsResync = sub.needsResync
           /\ With(sub, q) \in Subs /\ With(sub, q).ports = sub.ports \cup {q}
           /\ With(sub, q).since = sub.since /\ With(sub, q).opened = sub.opened
           /\ With(sub, q).content = sub.content /\ With(sub, q).needsResync = sub.needsResync
  BY DEF SyncAssumption, Subs, Left, With

\* A port that gives up its subscription to d leaves the document to the others, and
\* takes it along when there are none.
Leaves(x, y, q, d) ==
    /\ y \in Workers
    /\ y.state = x.state /\ y.reconnect = x.reconnect /\ y.out = x.out
    /\ y.meta = [x.meta EXCEPT ![q] = Quit(@)]
    /\ \/ /\ x.subs[d].ports \ {q} = {} /\ y.rebuild
          /\ y.subs = [x.subs EXCEPT ![d] = None]
          /\ y.stream = Trimmed(x.stream, d)
       \/ /\ x.subs[d].ports \ {q} # {} /\ y.rebuild = x.rebuild
          /\ y.subs = [x.subs EXCEPT ![d] = Left(@, q)]
          /\ y.stream = x.stream

\* Only a port that is subscribed leaves anything.
LEMMA UnsubscribeFacts ==
    ASSUME SyncAssumption, NEW x \in Workers, NEW q \in Ports
    PROVE  LET y == Unsubscribe(x, q)
           IN  /\ x.meta[q] = None \/ ~x.meta[q].sub => y = x
               /\ x.meta[q] # None /\ x.meta[q].sub /\ DocOf(q) \in Docs /\ x.subs[DocOf(q)] # None
                  => Leaves(x, y, q, DocOf(q))
  <1> DEFINE d == DocOf(q)
             z == [x EXCEPT !.meta[q].sub = FALSE, !.subs[d].ports = @ \ {q}]
             y == Unsubscribe(x, q)
  <1>1. x.meta[q] = None \/ ~x.meta[q].sub => y = x
    BY DEF Unsubscribe
  <1>2. ASSUME x.meta[q] # None, x.meta[q].sub, d \in Docs, x.subs[d] # None
        PROVE  Leaves(x, y, q, d)
    <2>1. x.meta[q] \in Metas /\ x.subs[d] \in Subs
      BY <1>2 DEF Workers
    <2>2. Quit(x.meta[q]) \in Metas /\ Left(x.subs[d], q) \in Subs
          /\ Left(x.subs[d], q).ports = x.subs[d].ports \ {q}
      BY <2>1, MetaFacts, SubFacts
    <2>3. z = [x EXCEPT !.meta = [x.meta EXCEPT ![q] = Quit(@)], !.subs = [x.subs EXCEPT ![d] = Left(@, q)]]
      BY <1>2, <2>1 DEF Workers, Quit, Left
    <2>4. y = IF z.subs[d].ports = {} THEN Deleted(z, d) ELSE z
      BY <1>2 DEF Unsubscribe
    <2> HIDE DEF z, y, d
    <2>5. /\ z \in Workers
          /\ z.state = x.state /\ z.reconnect = x.reconnect /\ z.out = x.out
          /\ z.rebuild = x.rebuild /\ z.stream = x.stream
          /\ z.meta = [x.meta EXCEPT ![q] = Quit(@)]
          /\ z.subs = [x.subs EXCEPT ![d] = Left(@, q)]
      <3>1. [x.meta EXCEPT ![q] = Quit(@)] \in [Ports -> Metas \cup {None}]
        BY <2>2 DEF Workers
      <3>2. [x.subs EXCEPT ![d] = Left(@, q)] \in [Docs -> Subs \cup {None}]
        BY <1>2, <2>2 DEF Workers
      <3> QED BY <2>3, <3>1, <3>2 DEF Workers
    <2>6. z.subs[d].ports = x.subs[d].ports \ {q}
      BY <1>2, <2>2, <2>5 DEF Workers
    <2>7. CASE z.subs[d].ports = {}
      <3>1. y = Deleted(z, d)
        BY <2>4, <2>7
      <3>2. /\ y \in Workers
            /\ y.state = z.state /\ y.reconnect = z.reconnect /\ y.rebuild
            /\ y.meta = z.meta /\ y.out = z.out
            /\ y.subs = [z.subs EXCEPT ![d] = None]
            /\ y.stream = Trimmed(z.stream, d)
        <4>1. z \in Workers /\ d \in Docs
          BY <1>2, <2>5
        <4> QED BY <3>1, <4>1, DeletedFacts
      <3>3. [z.subs EXCEPT ![d] = None] = [x.subs EXCEPT ![d] = None]
        BY <2>5 DEF Workers
      <3> QED BY <2>5, <2>6, <2>7, <3>2, <3>3 DEF Leaves
    <2>8. CASE z.subs[d].ports # {}
      <3>1. y = z
        BY <2>4, <2>8
      <3> QED BY <2>5, <2>6, <2>8, <3>1 DEF Leaves
    <2> QED BY <2>7, <2>8
  <1> QED BY <1>1, <1>2

\* A message more for one port.
LEMMA SendFacts ==
    ASSUME SyncAssumption, NEW x \in Workers, NEW q \in Ports, NEW m \in DownMsgs
    PROVE  LET y == Send(x, q, m)
           IN  /\ y \in Workers
               /\ y.state = x.state /\ y.reconnect = x.reconnect /\ y.rebuild = x.rebuild
               /\ y.meta = x.meta /\ y.subs = x.subs /\ y.stream = x.stream
               /\ y.out = [x.out EXCEPT ![q] = Append(@, m)]
  <1> DEFINE y == Send(x, q, m)
             o == [x.out EXCEPT ![q] = Append(@, m)]
  <1>1. o \in [Ports -> Seq(DownMsgs)]
    BY AppendElems DEF Workers
  <1>2. y = [x EXCEPT !.out = o]
    BY DEF Send, Workers
  <1> HIDE DEF o, y
  <1> QED
    <2>1. /\ y \in Workers
          /\ y.state = x.state /\ y.reconnect = x.reconnect /\ y.rebuild = x.rebuild
          /\ y.meta = x.meta /\ y.subs = x.subs /\ y.stream = x.stream
          /\ y.out = o
      BY <1>1, <1>2 DEF Workers
    <2> QED BY <2>1 DEF y, o

\* And for several.
LEMMA SendAllFacts ==
    ASSUME SyncAssumption, NEW x \in Workers, NEW qs, NEW m \in DownMsgs
    PROVE  LET y == SendAll(x, qs, m)
           IN  /\ y \in Workers
               /\ y.state = x.state /\ y.reconnect = x.reconnect /\ y.rebuild = x.rebuild
               /\ y.meta = x.meta /\ y.subs = x.subs /\ y.stream = x.stream
               /\ y.out = [q \in Ports |-> IF q \in qs THEN Append(x.out[q], m) ELSE x.out[q]]
  <1> DEFINE y == SendAll(x, qs, m)
             o == [q \in Ports |-> IF q \in qs THEN Append(x.out[q], m) ELSE x.out[q]]
  <1>1. o \in [Ports -> Seq(DownMsgs)]
    BY AppendElems DEF Workers
  <1>2. y = [x EXCEPT !.out = o]
    BY DEF SendAll, Workers
  <1> HIDE DEF o, y
  <1> QED
    <2>1. /\ y \in Workers
          /\ y.state = x.state /\ y.reconnect = x.reconnect /\ y.rebuild = x.rebuild
          /\ y.meta = x.meta /\ y.subs = x.subs /\ y.stream = x.stream
          /\ y.out = o
      BY <1>1, <1>2 DEF Workers
    <2> QED BY <2>1 DEF y, o

\* What every port is told when the state changes to s.
Announces(x, y, s) ==
    \A q \in Ports : y.out[q] = IF x.state # s /\ x.meta[q] # None
                                THEN Append(x.out[q], Msg("status", 0, s, FALSE)) ELSE x.out[q]

\* A new state is told to every port.
LEMMA SetStateFacts ==
    ASSUME SyncAssumption, NEW x \in Workers, NEW s \in States
    PROVE  LET y == SetState(x, s)
           IN  /\ y \in Workers
               /\ y.state = s /\ y.reconnect = x.reconnect /\ y.rebuild = x.rebuild
               /\ y.meta = x.meta /\ y.subs = x.subs /\ y.stream = x.stream
               /\ Announces(x, y, s)
  <1> DEFINE m == Msg("status", 0, s, FALSE)
             z == [x EXCEPT !.state = s]
             y == SetState(x, s)
  <1>1. CASE x.state = s
    BY <1>1 DEF SetState, Announces
  <1>2. CASE x.state # s
    <2>1. m \in DownMsgs
      BY StatusMsg
    <2>2. /\ z \in Workers
          /\ z.state = s /\ z.reconnect = x.reconnect /\ z.rebuild = x.rebuild
          /\ z.meta = x.meta /\ z.subs = x.subs /\ z.stream = x.stream /\ z.out = x.out
      BY DEF Workers
    <2>3. y = SendAll(z, Known(x), m)
      BY <1>2 DEF SetState
    <2> HIDE DEF z, m, y
    <2>4. /\ y \in Workers
          /\ y.state = z.state /\ y.reconnect = z.reconnect /\ y.rebuild = z.rebuild
          /\ y.meta = z.meta /\ y.subs = z.subs /\ y.stream = z.stream
          /\ y.out = [q \in Ports |-> IF q \in Known(x) THEN Append(z.out[q], m) ELSE z.out[q]]
      BY <2>1, <2>2, <2>3, SendAllFacts
    <2>5. \A q \in Ports : y.out[q] = IF x.meta[q] # None THEN Append(x.out[q], m) ELSE x.out[q]
      BY <2>2, <2>4 DEF Known
    <2>6. Announces(x, y, s)
      BY <1>2, <2>5 DEF Announces, m
    <2> QED BY <2>2, <2>4, <2>6 DEF y
  <1> QED BY <1>1, <1>2

\* The record of a port that is sent a cursor, and the cursor.
Resumed(m) == [m EXCEPT !.cursored = TRUE]
CursorFor(x, q, resync) ==
    Msg("cursor", x.subs[DocOf(q)].since, None, resync \/ Behind(x, q))

\* A port's record once it was sent its cursor.
LEMMA ResumedFacts ==
    ASSUME SyncAssumption, NEW m \in Metas
    PROVE  /\ Resumed(m) \in Metas /\ Resumed(m) # None /\ Resumed(m).cursored
           /\ Resumed(m).sub = m.sub /\ Resumed(m).visible = m.visible
           /\ Resumed(m).seen = m.seen
  BY DEF SyncAssumption, Metas, Resumed

\* Each of the ports qs is sent its cursor, at its document's position.
LEMMA SendCursorsFacts ==
    ASSUME SyncAssumption, NEW x \in Workers, NEW resync \in BOOLEAN, NEW qs \in SUBSET Ports,
           \A q \in qs : x.meta[q] # None /\ DocOf(q) \in Docs /\ x.subs[DocOf(q)] # None
    PROVE  LET y == SendCursors(x, qs, resync)
           IN  /\ y \in Workers
               /\ y.state = x.state /\ y.reconnect = x.reconnect /\ y.rebuild = x.rebuild
               /\ y.subs = x.subs /\ y.stream = x.stream
               /\ \A q \in Ports : y.meta[q] = IF q \in qs THEN Resumed(x.meta[q]) ELSE x.meta[q]
               /\ \A q \in Ports : y.out[q] = IF q \in qs THEN Append(x.out[q], CursorFor(x, q, resync))
                                              ELSE x.out[q]
               /\ \A q \in qs : /\ CursorFor(x, q, resync) \in DownMsgs
                                /\ CursorFor(x, q, resync).t = "cursor"
                                /\ CursorFor(x, q, resync).n = x.subs[DocOf(q)].since
                                /\ resync => CursorFor(x, q, resync).r
  <1> DEFINE y == SendCursors(x, qs, resync)
             M == [q \in Ports |-> IF q \in qs THEN Resumed(x.meta[q]) ELSE x.meta[q]]
             o == [q \in Ports |-> IF q \in qs THEN Append(x.out[q], CursorFor(x, q, resync))
                                   ELSE x.out[q]]
  <1>1. ASSUME NEW q \in qs
        PROVE  /\ CursorFor(x, q, resync) \in DownMsgs /\ CursorFor(x, q, resync).t = "cursor"
               /\ CursorFor(x, q, resync).n = x.subs[DocOf(q)].since
               /\ resync => CursorFor(x, q, resync).r
    <2> DEFINE n == x.subs[DocOf(q)].since
               b == Behind(x, q)
    <2>1. n \in Nat
      BY DEF Workers, Subs
    <2>2. b \in BOOLEAN
      BY DEF Behind
    <2> HIDE DEF b
    <2> DEFINE c == resync \/ b
               msg == CursorFor(x, q, resync)
    <2>3. c \in BOOLEAN /\ (resync => c)
      OBVIOUS
    <2>4. msg = Msg("cursor", n, None, c)
      BY DEF CursorFor, b
    <2> HIDE DEF n, c, msg
    <2>5. msg \in DownMsgs /\ msg.t = "cursor" /\ msg.n = n /\ msg.r = c
      BY <2>1, <2>3, <2>4, CursorMsg
    <2> QED BY <2>3, <2>5 DEF n, msg
  <1>2. M \in [Ports -> Metas \cup {None}]
    BY ResumedFacts DEF Workers
  <1>3. o \in [Ports -> Seq(DownMsgs)]
    <2>1. \A q \in Ports : x.out[q] \in Seq(DownMsgs)
      BY DEF Workers
    <2> QED BY <1>1, <2>1, AppendElems
  <1>4. y = [x EXCEPT !.meta = M, !.out = o]
    BY DEF SendCursors, Resumed, CursorFor
  <1>5. /\ \A q \in Ports : M[q] = IF q \in qs THEN Resumed(x.meta[q]) ELSE x.meta[q]
        /\ \A q \in Ports : o[q] = IF q \in qs THEN Append(x.out[q], CursorFor(x, q, resync))
                                   ELSE x.out[q]
    OBVIOUS
  <1> HIDE DEF M, o, y
  <1>6. /\ y \in Workers
        /\ y.state = x.state /\ y.reconnect = x.reconnect /\ y.rebuild = x.rebuild
        /\ y.subs = x.subs /\ y.stream = x.stream /\ y.meta = M /\ y.out = o
    BY <1>2, <1>3, <1>4 DEF Workers
  <1> QED BY <1>1, <1>5, <1>6 DEF y

\* The record of a port that has the frames of a document up to n.
Repeated(m, n) == [m EXCEPT !.seen = Higher(@, n)]

\* A port's record once the latest frames were repeated to it.
LEMMA RepeatedFacts ==
    ASSUME SyncAssumption, NEW m \in Metas, NEW n \in Nat
    PROVE  /\ Repeated(m, n) \in Metas /\ Repeated(m, n) # None
           /\ Repeated(m, n).seen = Higher(m.seen, n) /\ Repeated(m, n).cursored = m.cursored
           /\ Repeated(m, n).sub = m.sub /\ Repeated(m, n).visible = m.visible
  BY DEF SyncAssumption, Metas, Repeated, Higher

\* A visible subscriber gets what it has not seen; nobody else gets anything.
LEMMA DeliverLatestFacts ==
    ASSUME SyncAssumption, NEW x \in Workers, NEW q \in Ports, x.meta[q] # None,
           x.meta[q].sub => DocOf(q) \in Docs /\ x.subs[DocOf(q)] # None
    PROVE  LET y == DeliverLatest(x, q)
               m == x.meta[q]
               sub == x.subs[DocOf(q)]
           IN  /\ ~m.sub \/ ~m.visible => y = x
               /\ m.sub /\ m.visible =>
                  /\ y \in Workers
                  /\ y.state = x.state /\ y.reconnect = x.reconnect /\ y.rebuild = x.rebuild
                  /\ y.subs = x.subs /\ y.stream = x.stream
                  /\ y.meta = [x.meta EXCEPT ![q] = Repeated(@, Latest(sub))]
                  /\ y.out = [x.out EXCEPT ![q] = @ \o Repeats(sub, m.seen)]
  <1> DEFINE y == DeliverLatest(x, q)
             m == x.meta[q]
             sub == x.subs[DocOf(q)]
             M == [x.meta EXCEPT ![q] = Repeated(@, Latest(sub))]
             o == [x.out EXCEPT ![q] = @ \o Repeats(sub, m.seen)]
  <1>1. ~m.sub \/ ~m.visible => y = x
    BY DEF DeliverLatest
  <1>2. ASSUME m.sub, m.visible
        PROVE  /\ y \in Workers
               /\ y.state = x.state /\ y.reconnect = x.reconnect /\ y.rebuild = x.rebuild
               /\ y.subs = x.subs /\ y.stream = x.stream /\ y.meta = M /\ y.out = o
    <2>1. m \in Metas /\ sub \in Subs /\ m.seen \in Nat
      BY <1>2 DEF Workers, Metas
    <2>2. Latest(sub) \in Nat /\ Repeats(sub, m.seen) \in Seq(DownMsgs)
      <3> HIDE DEF m, sub
      <3> QED BY <2>1, LatestFacts, RepeatsFacts
    <2>3. y = [x EXCEPT !.meta = M, !.out = o]
      BY <1>2 DEF DeliverLatest, Repeated, Workers
    <2> HIDE DEF sub, y
    <2>4. Repeated(m, Latest(sub)) \in Metas
      BY <2>1, <2>2, RepeatedFacts
    <2>5. M \in [Ports -> Metas \cup {None}]
      BY <2>4 DEF Workers
    <2>6. x.out[q] \o Repeats(sub, m.seen) \in Seq(DownMsgs)
      <3>1. x.out[q] \in Seq(DownMsgs)
        BY DEF Workers
      <3> QED BY <2>2, <3>1, ConcatElems
    <2>7. o \in [Ports -> Seq(DownMsgs)]
      BY <2>6 DEF Workers
    <2> HIDE DEF M, o
    <2> QED BY <2>3, <2>5, <2>7 DEF Workers
  <1> QED BY <1>1, <1>2

-----------------------------------------------------------------------------
(* A port that connects and subscribes.                                    *)

\* The record of a port that connects, visible or not, and then subscribes from since.
FirstMeta(v) == [FreshMeta EXCEPT !.visible = v]
NewMeta(v, since) ==
    [FirstMeta(v) EXCEPT !.sub = TRUE, !.seen = 0, !.since = since, !.cursored = FALSE]

\* All but q's record, its document d's and what q is sent stays.
OnlyPort(x, y, q, d) ==
    /\ y \in Workers
    /\ y.state = x.state /\ y.reconnect = x.reconnect /\ y.stream = x.stream
    /\ \A r \in Ports : r # q => y.meta[r] = x.meta[r] /\ y.out[r] = x.out[r]
    /\ \A e \in Docs : e # d => y.subs[e] = x.subs[e]

Greeting(x) == Msg("status", 0, x.state, FALSE)

\* The worker holds all it can.
TurnedAway(x, y, q, d) ==
    /\ x.subs[d] = None /\ Cardinality(Open(x)) >= cap
    /\ y.subs[d] = None /\ y.rebuild = x.rebuild
    /\ y.meta[q] # None /\ ~y.meta[q].sub
    /\ y.out[q] = <<Greeting(x), Msg("gone", 0, None, FALSE)>>

\* The first port of a document.
Opened(x, y, q, d, v, since) ==
    /\ x.subs[d] = None /\ Cardinality(Open(x)) < cap
    /\ y.subs[d] = With(FreshSub(since), q) /\ y.rebuild
    /\ y.meta[q] = NewMeta(v, since)
    /\ y.out[q] = <<Greeting(x)>>

\* A document whose stream has not answered yet.
JoinedEarly(x, y, q, d, v, since) ==
    /\ x.subs[d] # None /\ ~x.subs[d].opened
    /\ y.subs[d] = With(Lowered(x.subs[d], since), q) /\ y.rebuild = x.rebuild
    /\ y.meta[q] = NewMeta(v, since)
    /\ y.out[q] = <<Greeting(x)>>

\* A document whose stream has: the port is sent where it is, and the last frames.
JoinedLate(x, y, q, d, v, since) ==
    /\ x.subs[d] # None /\ x.subs[d].opened
    /\ y.subs[d] = With(x.subs[d], q) /\ y.rebuild = x.rebuild
    /\ y.meta[q] # None /\ y.meta[q].sub /\ y.meta[q].visible = v /\ y.meta[q].cursored
    /\ y.meta[q].seen = IF v THEN Latest(x.subs[d]) ELSE 0
    /\ \E c \in DownMsgs :
          /\ c.t = "cursor" /\ c.n = x.subs[d].since /\ (x.subs[d].needsResync => c.r)
          /\ y.out[q] = <<Greeting(x), c>> \o (IF v THEN Repeats(x.subs[d], 0) ELSE <<>>)

Connects(x, y, q, v, since) ==
    LET d == DocOf(q)
    IN /\ OnlyPort(x, y, q, d)
       /\ \/ TurnedAway(x, y, q, d)
          \/ Opened(x, y, q, d, v, since)
          \/ JoinedEarly(x, y, q, d, v, since)
          \/ JoinedLate(x, y, q, d, v, since)

\* A port's record once it is connected, and once it is subscribed.
LEMMA NewMetaFacts ==
    ASSUME SyncAssumption, NEW v \in BOOLEAN, NEW since \in Nat
    PROVE  LET m == NewMeta(v, since)
           IN  /\ m \in Metas /\ m # None /\ m.sub /\ m.visible = v /\ m.seen = 0 /\ ~m.cursored
               /\ FirstMeta(v) \in Metas /\ FirstMeta(v) # None /\ ~FirstMeta(v).sub
               /\ FirstMeta(v).visible = v
  <1> DEFINE a == FirstMeta(v)
             m == NewMeta(v, since)
  <1>1. a \in Metas /\ a.visible = v /\ ~a.sub
    BY DEF Metas, FirstMeta, FreshMeta
  <1>2. m = [a EXCEPT !.sub = TRUE, !.seen = 0, !.since = since, !.cursored = FALSE]
    BY DEF NewMeta
  <1> HIDE DEF a, m
  <1>3. m \in Metas /\ m.sub /\ m.visible = v /\ m.seen = 0 /\ ~m.cursored
    BY <1>1, <1>2 DEF Metas
  <1>4. a # None /\ m # None
    BY <1>1, <1>3 DEF SyncAssumption
  <1> QED BY <1>1, <1>3, <1>4 DEF a, m

\* A position that is asked for lowers where a document resumes, and nothing else.
LEMMA LoweredFacts ==
    ASSUME SyncAssumption, NEW sub \in Subs, NEW since \in Nat
    PROVE  LET s == Lowered(sub, since)
           IN  /\ s \in Subs /\ s # None
               /\ s.opened = sub.opened /\ s.content = sub.content /\ s.ports = sub.ports
               /\ s.needsResync = sub.needsResync
               /\ s.since = sub.since \/ (~sub.opened /\ s.since = since)
               /\ sub.opened => s = sub
  <1> DEFINE lower == ~sub.opened /\ since > 0 /\ (sub.since = 0 \/ since < sub.since)
             t == [sub EXCEPT !.since = since]
  <1>1. Lowered(sub, since) = IF lower THEN t ELSE sub
    BY DEF Lowered
  <1>2. lower => ~sub.opened
    OBVIOUS
  <1>3. /\ t \in Subs
        /\ t.opened = sub.opened /\ t.content = sub.content /\ t.ports = sub.ports
        /\ t.needsResync = sub.needsResync /\ t.since = since
    BY DEF Subs
  <1> HIDE DEF lower, t
  <1>4. t # None /\ sub # None
    BY <1>3 DEF SyncAssumption
  <1> QED BY <1>1, <1>2, <1>3, <1>4

\* A document's record before its first answer.
LEMMA FreshSubFacts ==
    ASSUME SyncAssumption, NEW since \in Nat
    PROVE  LET s == FreshSub(since)
           IN  /\ s \in Subs /\ s # None
               /\ ~s.opened /\ s.content = NoContent /\ s.ports = {} /\ s.since = since
               /\ ~s.needsResync
  <1> DEFINE s == FreshSub(since)
  <1>1. NoContent \in [Kinds -> Nat]
    BY DEF NoContent
  <1>2. s \in Subs
    BY <1>1 DEF Subs, FreshSub
  <1>3. ~s.opened /\ s.content = NoContent /\ s.ports = {} /\ s.since = since /\ ~s.needsResync
    BY DEF FreshSub
  <1> HIDE DEF s
  <1>4. s # None
    BY <1>2 DEF SyncAssumption
  <1> QED BY <1>2, <1>3, <1>4 DEF s

\* What the subscription itself writes.
LEMMA SubscribedFacts ==
    ASSUME SyncAssumption, NEW x \in Workers, NEW q \in Ports, NEW v \in BOOLEAN, NEW since \in Nat,
           DocOf(q) \in Docs, x.meta[q] = FirstMeta(v),
           NEW sub \in Subs
    PROVE  LET y == Subscribed(x, q, sub, since)
           IN  /\ y \in Workers
               /\ y.state = x.state /\ y.reconnect = x.reconnect /\ y.rebuild = x.rebuild
               /\ y.stream = x.stream /\ y.out = x.out
               /\ y.subs = [x.subs EXCEPT ![DocOf(q)] = With(sub, q)]
               /\ y.meta = [x.meta EXCEPT ![q] = NewMeta(v, since)]
  <1> DEFINE d == DocOf(q)
             y == Subscribed(x, q, sub, since)
             M == [x.meta EXCEPT ![q] = NewMeta(v, since)]
             S == [x.subs EXCEPT ![d] = With(sub, q)]
             m == [x.meta[q] EXCEPT !.sub = TRUE, !.seen = 0, !.since = since, !.cursored = FALSE]
  <1>1. m = NewMeta(v, since)
    BY DEF NewMeta
  <1>2. y = [x EXCEPT !.subs = S, !.meta = M]
    <2> DEFINE z == [x EXCEPT !.subs[d] = With(sub, q)]
    <2>1. z = [x EXCEPT !.subs = S] /\ z.meta = x.meta
      BY DEF Workers
    <2>2. y = [z EXCEPT !.meta[q] = [@ EXCEPT !.sub = TRUE, !.seen = 0, !.since = since,
                                               !.cursored = FALSE]]
      BY DEF Subscribed, With
    <2> HIDE DEF y, z
    <2>3. y = [z EXCEPT !.meta[q] = m]
      BY <2>1, <2>2 DEF Workers
    <2> HIDE DEF m, S
    <2>4. [z EXCEPT !.meta[q] = m] = [x EXCEPT !.subs = S, !.meta = M]
      BY <1>1, <2>1 DEF Workers
    <2> QED BY <2>3, <2>4
  <1>3. M \in [Ports -> Metas \cup {None}]
    BY NewMetaFacts DEF Workers
  <1>4. S \in [Docs -> Subs \cup {None}]
    BY SubFacts DEF Workers
  <1> HIDE DEF M, S, y
  <1>5. /\ y \in Workers
        /\ y.state = x.state /\ y.reconnect = x.reconnect /\ y.rebuild = x.rebuild
        /\ y.stream = x.stream /\ y.out = x.out /\ y.subs = S /\ y.meta = M
    BY <1>2, <1>3, <1>4 DEF Workers
  <1> QED BY <1>5 DEF M, S, y

\* A port's connection greets it, and it is turned away or joins its document.
LEMMA ConnectFacts ==
    ASSUME SyncAssumption, NEW x \in Workers, NEW q \in Ports, NEW v \in BOOLEAN, NEW since \in Nat,
           DocOf(q) \in Docs, x.meta[q] = None, x.out[q] = <<>>,
           IsFiniteSet(Open(x)), cap \in Nat
    PROVE  Connects(x, Subscribe(Connected(x, q, v), q, since), q, v, since)
  <1> DEFINE d == DocOf(q)
             x1 == Connected(x, q, v)
             y == Subscribe(x1, q, since)
             sub == x.subs[d]
             g == Greeting(x)
             M1 == [x.meta EXCEPT ![q] = FirstMeta(v)]
             o1 == [x.out EXCEPT ![q] = <<g>>]
  <1>1. g \in DownMsgs /\ <<g>> \in Seq(DownMsgs)
    <2>1. x.state \in States
      BY DEF Workers
    <2>2. g \in DownMsgs
      BY <2>1, StatusMsg DEF Greeting
    <2> HIDE DEF g
    <2> QED BY <2>2, OneElem
  <1>2. /\ x1 \in Workers
        /\ x1.state = x.state /\ x1.reconnect = x.reconnect /\ x1.rebuild = x.rebuild
        /\ x1.stream = x.stream /\ x1.subs = x.subs
        /\ x1.meta = M1 /\ x1.out = o1
    <2> DEFINE z == [x EXCEPT !.meta[q] = FirstMeta(v)]
    <2>1. FirstMeta(v) \in Metas
      BY NewMetaFacts
    <2>2. /\ z \in Workers
          /\ z.state = x.state /\ z.reconnect = x.reconnect /\ z.rebuild = x.rebuild
          /\ z.stream = x.stream /\ z.subs = x.subs /\ z.out = x.out
          /\ z.meta = M1
      BY <2>1 DEF Workers
    <2>3. x1 = Send(z, q, g)
      BY DEF Connected, Greeting, FirstMeta
    <2> HIDE DEF z, x1, g, M1
    <2>4. /\ x1 \in Workers
          /\ x1.state = z.state /\ x1.reconnect = z.reconnect /\ x1.rebuild = z.rebuild
          /\ x1.meta = z.meta /\ x1.subs = z.subs /\ x1.stream = z.stream
          /\ x1.out = [z.out EXCEPT ![q] = Append(@, g)]
      <3>1. z \in Workers /\ g \in DownMsgs
        BY <1>1, <2>2
      <3> QED BY <2>3, <3>1, SendFacts
    <2>5. Append(<<>>, g) = <<g>>
      BY AppendOne
    <2>6. x1.out = o1
      BY <2>2, <2>4, <2>5 DEF Workers
    <2> QED BY <2>2, <2>4, <2>6
  <1>3. x1.meta[q] = FirstMeta(v) /\ x1.out[q] = <<g>>
        /\ \A r \in Ports : r # q => x1.meta[r] = x.meta[r] /\ x1.out[r] = x.out[r]
    BY <1>2 DEF Workers
  <1> HIDE DEF x1
  <1>4. Unsubscribe(x1, q) = x1
    BY <1>2, <1>3, NewMetaFacts, UnsubscribeFacts
  <1>5. Open(x1) = Open(x) /\ Cardinality(Open(x)) \in Nat
    BY <1>2, FS_CardinalityType DEF Open
  <1> DEFINE z == Subscribed(x1, q, Lowered(sub, since), since)
             full == Cardinality(Open(x)) >= cap
             a == Send(x1, q, Msg("gone", 0, None, FALSE))
             b == [Subscribed(x1, q, FreshSub(since), since) EXCEPT !.rebuild = TRUE]
             c == IF sub.opened THEN DeliverLatest(SendCursors(z, {q}, sub.needsResync), q) ELSE z
  <1>12. Cardinality(Open(x)) < cap <=> ~full
    BY <1>5
  <1>13. y = CASE sub = None /\ full -> a
               [] sub = None /\ Cardinality(Open(x)) < cap -> b
               [] OTHER -> c
    BY <1>2, <1>4, <1>5 DEF Subscribe
  <1> HIDE DEF y, a, b, c, full, sub
  <1>14. y = CASE sub = None /\ full -> a [] sub = None /\ ~full -> b [] OTHER -> c
    BY <1>12, <1>13
  <1>6. /\ sub = None /\ full => y = a
        /\ sub = None /\ ~full => y = b
        /\ sub # None => y = c
    BY <1>14
  <1> USE DEF a, b, c, full, sub
  <1>7. sub = None \/ sub \in Subs
    BY DEF Workers
  <1> HIDE DEF y, g, M1, o1
  <1>8. CASE sub = None /\ Cardinality(Open(x)) >= cap
    <2> DEFINE gone == Msg("gone", 0, None, FALSE)
    <2>1. y = Send(x1, q, gone)
      BY <1>6, <1>8
    <2>2. gone \in DownMsgs
      BY GoneMsg
    <2> HIDE DEF gone, d
    <2>3. /\ y \in Workers
          /\ y.state = x1.state /\ y.reconnect = x1.reconnect /\ y.rebuild = x1.rebuild
          /\ y.meta = x1.meta /\ y.subs = x1.subs /\ y.stream = x1.stream
          /\ y.out = [x1.out EXCEPT ![q] = Append(@, gone)]
      <3>1. x1 \in Workers
        BY <1>2
      <3> QED BY <2>1, <2>2, <3>1, SendFacts
    <2>4. Append(<<g>>, gone) = <<g, gone>>
      BY AppendOne
    <2>5. y.out[q] = <<g, gone>> /\ \A r \in Ports : r # q => y.out[r] = x.out[r]
      BY <1>2, <1>3, <2>3, <2>4 DEF Workers
    <2>6. y.meta[q] # None /\ ~y.meta[q].sub /\ \A r \in Ports : r # q => y.meta[r] = x.meta[r]
      BY <1>3, <2>3, NewMetaFacts
    <2>7. OnlyPort(x, y, q, d)
      BY <1>2, <2>3, <2>5, <2>6 DEF OnlyPort
    <2>8. TurnedAway(x, y, q, d)
      BY <1>2, <1>8, <2>3, <2>5, <2>6 DEF TurnedAway, gone, g
    <2> QED BY <2>7, <2>8 DEF Connects, y, x1, d
  <1>9. CASE sub = None /\ Cardinality(Open(x)) < cap
    <2> DEFINE s == Subscribed(x1, q, FreshSub(since), since)
    <2>1. y = [s EXCEPT !.rebuild = TRUE]
      BY <1>6, <1>9, <1>12
    <2>2. /\ s \in Workers
          /\ s.state = x1.state /\ s.reconnect = x1.reconnect /\ s.rebuild = x1.rebuild
          /\ s.stream = x1.stream /\ s.out = x1.out
          /\ s.subs = [x1.subs EXCEPT ![DocOf(q)] = With(FreshSub(since), q)]
          /\ s.meta = [x1.meta EXCEPT ![q] = NewMeta(v, since)]
      BY <1>2, <1>3, SubscribedFacts, FreshSubFacts
    <2> HIDE DEF s
    <2>3. /\ y \in Workers
          /\ y.state = s.state /\ y.reconnect = s.reconnect /\ y.rebuild
          /\ y.meta = s.meta /\ y.subs = s.subs /\ y.stream = s.stream /\ y.out = s.out
      BY <2>1, <2>2 DEF Workers
    <2>4. /\ y.subs[d] = With(FreshSub(since), q) /\ \A e \in Docs : e # d => y.subs[e] = x.subs[e]
          /\ y.meta[q] = NewMeta(v, since) /\ \A r \in Ports : r # q => y.meta[r] = x.meta[r]
          /\ y.out[q] = <<g>> /\ \A r \in Ports : r # q => y.out[r] = x.out[r]
      BY <1>2, <1>3, <2>2, <2>3 DEF Workers
    <2> HIDE DEF d
    <2>5. OnlyPort(x, y, q, d)
      BY <1>2, <2>2, <2>3, <2>4 DEF OnlyPort
    <2>6. Opened(x, y, q, d, v, since)
      BY <1>9, <2>3, <2>4 DEF Opened, g
    <2> QED BY <2>5, <2>6 DEF Connects, y, x1, d
  <1>10. CASE sub # None
    <2>1. y = IF sub.opened THEN DeliverLatest(SendCursors(z, {q}, sub.needsResync), q) ELSE z
      BY <1>6, <1>10
    <2> DEFINE low == Lowered(sub, since)
    <2>2. low \in Subs /\ low # None /\ (sub.opened => low = sub)
      BY <1>7, <1>10, LoweredFacts
    <2>3. /\ z \in Workers
          /\ z.state = x1.state /\ z.reconnect = x1.reconnect /\ z.rebuild = x1.rebuild
          /\ z.stream = x1.stream /\ z.out = x1.out
          /\ z.subs = [x1.subs EXCEPT ![DocOf(q)] = With(low, q)]
          /\ z.meta = [x1.meta EXCEPT ![q] = NewMeta(v, since)]
      <3> HIDE DEF low
      <3>1. z = Subscribed(x1, q, low, since)
        BY DEF low
      <3> HIDE DEF z
      <3> QED BY <1>2, <1>3, <2>2, <3>1, SubscribedFacts
    <2> HIDE DEF z
    <2>4. /\ z.subs[d] = With(low, q) /\ \A e \in Docs : e # d => z.subs[e] = x.subs[e]
          /\ z.meta[q] = NewMeta(v, since) /\ \A r \in Ports : r # q => z.meta[r] = x.meta[r]
          /\ z.out[q] = <<g>> /\ \A r \in Ports : r # q => z.out[r] = x.out[r]
      BY <1>2, <1>3, <2>3 DEF Workers
    <2>5. CASE ~sub.opened
      <3>1. y = z
        BY <2>1, <2>5
      <3> HIDE DEF d, low
      <3>2. OnlyPort(x, y, q, d)
        BY <1>2, <2>3, <2>4, <3>1 DEF OnlyPort
      <3>3. JoinedEarly(x, y, q, d, v, since)
        BY <1>2, <1>10, <2>3, <2>4, <2>5, <3>1 DEF JoinedEarly, g, low
      <3> QED BY <3>2, <3>3 DEF Connects, y, x1, d
    <2>6. CASE sub.opened
      <3> DEFINE k == SendCursors(z, {q}, sub.needsResync)
                 msg == CursorFor(z, q, sub.needsResync)
                 late == With(sub, q)
                 m2 == Resumed(NewMeta(v, since))
      <3>1. /\ late \in Subs /\ late # None /\ late.since = sub.since /\ late.opened = sub.opened
            /\ late.content = sub.content /\ z.subs[d] = late /\ sub.needsResync \in BOOLEAN
        <4>1. sub \in Subs /\ low = sub
          BY <1>7, <1>10, <2>2, <2>6
        <4>2. z.subs[d] = late
          BY <2>4, <4>1
        <4> HIDE DEF sub, d
        <4>3. sub.needsResync \in BOOLEAN
          BY <4>1 DEF Subs
        <4> QED BY <4>1, <4>2, <4>3, SubFacts
      <3>2. /\ m2 \in Metas /\ m2 # None /\ m2.sub /\ m2.visible = v /\ m2.seen = 0 /\ m2.cursored
            /\ z.meta[q] # None
        BY <2>4, NewMetaFacts, ResumedFacts
      <3> HIDE DEF k, msg, late, m2
      <3>3. /\ k \in Workers
            /\ k.state = z.state /\ k.reconnect = z.reconnect /\ k.rebuild = z.rebuild
            /\ k.subs = z.subs /\ k.stream = z.stream
            /\ k.meta[q] = m2 /\ \A r \in Ports : r # q => k.meta[r] = z.meta[r]
            /\ k.out[q] = Append(<<g>>, msg) /\ \A r \in Ports : r # q => k.out[r] = z.out[r]
            /\ msg \in DownMsgs /\ msg.t = "cursor" /\ msg.n = sub.since /\ (sub.needsResync => msg.r)
        <4> DEFINE qs == {q}
        <4>1. /\ qs \in SUBSET Ports
              /\ \A r \in qs : z.meta[r] # None /\ DocOf(r) \in Docs /\ z.subs[DocOf(r)] # None
          BY <3>1, <3>2
        <4>2. q \in qs /\ \A r : r \in qs <=> r = q
          OBVIOUS
        <4> HIDE DEF qs
        <4>3. k = SendCursors(z, qs, sub.needsResync)
          BY DEF k, qs
        <4>4. /\ k \in Workers
              /\ k.state = z.state /\ k.reconnect = z.reconnect /\ k.rebuild = z.rebuild
              /\ k.subs = z.subs /\ k.stream = z.stream
              /\ \A r \in Ports : k.meta[r] = IF r \in qs THEN Resumed(z.meta[r]) ELSE z.meta[r]
              /\ \A r \in Ports : k.out[r] = IF r \in qs THEN Append(z.out[r], CursorFor(z, r, sub.needsResync))
                                             ELSE z.out[r]
              /\ \A r \in qs : /\ CursorFor(z, r, sub.needsResync) \in DownMsgs
                               /\ CursorFor(z, r, sub.needsResync).t = "cursor"
                               /\ CursorFor(z, r, sub.needsResync).n = z.subs[DocOf(r)].since
                               /\ sub.needsResync => CursorFor(z, r, sub.needsResync).r
          <5>1. z \in Workers /\ sub.needsResync \in BOOLEAN
            BY <2>3, <3>1
          <5> HIDE DEF sub
          <5> QED BY <4>1, <4>3, <5>1, SendCursorsFacts
        <4>5. msg \in DownMsgs /\ msg.t = "cursor" /\ msg.n = sub.since /\ (sub.needsResync => msg.r)
          BY <3>1, <4>2, <4>4 DEF msg
        <4>6. k.meta[q] = m2 /\ k.out[q] = Append(<<g>>, msg)
          BY <2>4, <4>2, <4>4 DEF m2, msg
        <4> QED BY <4>2, <4>4, <4>5, <4>6
      <3>4. Append(<<g>>, msg) = <<g, msg>> /\ <<g, msg>> \in Seq(DownMsgs)
        <4>1. g \in DownMsgs /\ msg \in DownMsgs
          BY <1>1, <3>3
        <4> QED BY <4>1, AppendOne, TwoElems
      <3>5. y = DeliverLatest(k, q)
        BY <2>1, <2>6 DEF k
      <3>6. k.subs[d] = late /\ k.meta[q].sub /\ k.meta[q] # None
        BY <3>1, <3>2, <3>3
      <3>7. Latest(late) = Latest(sub) /\ \A n : Repeats(late, n) = Repeats(sub, n)
        BY <3>1 DEF Latest, Repeats, Missed
      <3>8. Latest(sub) \in Nat
        BY <1>7, <1>10, LatestFacts
      <3> HIDE DEF y
      <3>9. CASE v
        <4>1. /\ y \in Workers
              /\ y.state = k.state /\ y.reconnect = k.reconnect /\ y.rebuild = k.rebuild
              /\ y.subs = k.subs /\ y.stream = k.stream
              /\ y.meta = [k.meta EXCEPT ![q] = Repeated(@, Latest(late))]
              /\ y.out = [k.out EXCEPT ![q] = @ \o Repeats(late, k.meta[q].seen)]
          <5>1. /\ k \in Workers /\ k.meta[q] # None /\ DocOf(q) \in Docs /\ k.subs[DocOf(q)] # None
                /\ k.meta[q].sub /\ k.meta[q].visible
            BY <3>1, <3>2, <3>3, <3>6, <3>9
          <5>2. k.subs[DocOf(q)] = late
            BY <3>6
          <5> HIDE DEF d
          <5> QED BY <3>5, <5>1, <5>2, DeliverLatestFacts
        <4>2. /\ y.meta[q] = Repeated(m2, Latest(sub)) /\ \A r \in Ports : r # q => y.meta[r] = x.meta[r]
              /\ y.out[q] = <<g, msg>> \o Repeats(sub, 0) /\ \A r \in Ports : r # q => y.out[r] = x.out[r]
          <5>1. y.meta[q] = Repeated(m2, Latest(sub)) /\ \A r \in Ports : r # q => y.meta[r] = x.meta[r]
            BY <2>4, <3>3, <3>7, <4>1 DEF Workers
          <5>2. y.out[q] = <<g, msg>> \o Repeats(sub, 0) /\ \A r \in Ports : r # q => y.out[r] = x.out[r]
            BY <2>4, <3>2, <3>3, <3>4, <3>7, <4>1 DEF Workers
          <5> QED BY <5>1, <5>2
        <4>3. Higher(0, Latest(sub)) = Latest(sub)
          BY <3>8 DEF Higher
        <4>4. /\ y.meta[q] # None /\ y.meta[q].sub /\ y.meta[q].visible = v /\ y.meta[q].cursored
              /\ y.meta[q].seen = Latest(sub)
          <5>1. Repeated(m2, Latest(sub)).seen = Latest(sub)
            BY <3>2, <3>8, <4>3, RepeatedFacts
          <5> DEFINE r == Repeated(m2, Latest(sub))
          <5>2. r # None /\ r.cursored = m2.cursored /\ r.sub = m2.sub /\ r.visible = m2.visible
            BY <3>2, <3>8, RepeatedFacts
          <5>3. y.meta[q] = r /\ r.seen = Latest(sub)
            BY <4>2, <5>1
          <5> HIDE DEF r
          <5> QED BY <3>2, <5>2, <5>3
        <4> HIDE DEF d
        <4>5. OnlyPort(x, y, q, d)
          BY <1>2, <2>3, <2>4, <3>3, <4>1, <4>2 DEF OnlyPort
        <4>6. JoinedLate(x, y, q, d, v, since)
          <5>1. y.subs[d] = With(sub, q) /\ y.rebuild = x.rebuild
            BY <1>2, <2>3, <3>3, <3>6, <4>1 DEF late
          <5>2. \E cur \in DownMsgs :
                   /\ cur.t = "cursor" /\ cur.n = sub.since /\ (sub.needsResync => cur.r)
                   /\ y.out[q] = <<g, cur>> \o (IF v THEN Repeats(sub, 0) ELSE <<>>)
            BY <3>3, <3>9, <4>2
          <5> QED BY <1>10, <2>6, <3>9, <4>4, <5>1, <5>2 DEF JoinedLate, g
        <4> QED BY <4>5, <4>6 DEF Connects, y, x1, d
      <3>10. CASE ~v
        <4>1. y = k
          <5>1. /\ k \in Workers /\ k.meta[q] # None /\ DocOf(q) \in Docs /\ k.subs[DocOf(q)] # None
                /\ ~k.meta[q].visible
            BY <3>1, <3>2, <3>3, <3>6, <3>10
          <5> QED BY <3>5, <5>1, DeliverLatestFacts
        <4>2. y.out[q] = <<g, msg>> \o <<>>
          BY <3>3, <3>4, <4>1
        <4> HIDE DEF d
        <4>5. OnlyPort(x, y, q, d)
          <5>1. \A e \in Docs : e # d => y.subs[e] = x.subs[e]
            BY <2>4, <3>3, <4>1
          <5>2. \A r \in Ports : r # q => y.meta[r] = x.meta[r] /\ y.out[r] = x.out[r]
            BY <2>4, <3>3, <4>1
          <5> QED BY <1>2, <2>3, <3>3, <4>1, <5>1, <5>2 DEF OnlyPort
        <4>6. JoinedLate(x, y, q, d, v, since)
          <5>1. y.subs[d] = With(sub, q) /\ y.rebuild = x.rebuild
            BY <1>2, <2>3, <3>3, <3>6, <4>1 DEF late
          <5>2. \E cur \in DownMsgs :
                   /\ cur.t = "cursor" /\ cur.n = sub.since /\ (sub.needsResync => cur.r)
                   /\ y.out[q] = <<g, cur>> \o (IF v THEN Repeats(sub, 0) ELSE <<>>)
            BY <3>3, <3>10, <4>2
          <5>3. /\ y.meta[q] # None /\ y.meta[q].sub /\ y.meta[q].visible = v /\ y.meta[q].cursored
                /\ y.meta[q].seen = 0
            BY <3>2, <3>3, <4>1
          <5> QED BY <1>10, <2>6, <3>10, <5>1, <5>2, <5>3 DEF JoinedLate, g
        <4> QED BY <4>5, <4>6 DEF Connects, y, x1, d
      <3> QED BY <3>9, <3>10
    <2> QED BY <2>5, <2>6
  <1>11. Cardinality(Open(x)) >= cap \/ Cardinality(Open(x)) < cap
    BY <1>5
  <1> QED BY <1>8, <1>9, <1>10, <1>11

-----------------------------------------------------------------------------
(* The worker's stream, and what it reads from it.                         *)

\* The stream of a worker that opens it anew.
NewStream(x) == [docs |-> Open(x), asked |-> Asked(x), joined |-> FALSE, q |-> <<>>]

\* The stream a rebuild asks for: every open document at its position.
LEMMA NewStreamFacts ==
    ASSUME SyncAssumption, NEW x \in Workers
    PROVE  LET s == NewStream(x)
           IN  /\ s \in Streams /\ s # None
               /\ s.docs = Open(x) /\ ~s.joined /\ s.q = <<>>
               /\ DOMAIN s.asked = Open(x)
               /\ \A d \in Open(x) : s.asked[d] = x.subs[d].since
  <1> DEFINE a == Asked(x)
             s == NewStream(x)
             A == UNION {[ds -> Nat] : ds \in SUBSET Docs}
  <1>1. Open(x) \in SUBSET Docs
    BY DEF Open
  <1>2. a \in [Open(x) -> Nat] /\ DOMAIN a = Open(x) /\ \A d \in Open(x) : a[d] = x.subs[d].since
    BY DEF Asked, Open, Workers, Subs
  <1>3. a \in A
    BY <1>1, <1>2
  <1>4. s = [docs |-> Open(x), asked |-> a, joined |-> FALSE, q |-> <<>>]
    BY DEF NewStream
  <1> HIDE DEF a, s, A
  <1>5. s \in [docs : SUBSET Docs, asked : A, joined : BOOLEAN, q : Seq(Events)]
    BY <1>1, <1>3, <1>4
  <1>6. s.docs = Open(x) /\ ~s.joined /\ s.q = <<>> /\ s.asked = a
    BY <1>4
  <1>7. s \in Streams
    BY <1>5 DEF Streams, A
  <1>8. s # None
    BY <1>7 DEF SyncAssumption
  <1> QED BY <1>2, <1>6, <1>7, <1>8 DEF s

\* A rebuild makes a stream for what is open, or none, and says which.
LEMMA RebuiltFacts ==
    ASSUME SyncAssumption, NEW x \in Workers
    PROVE  LET y == Rebuilt(x)
           IN  /\ y \in Workers
               /\ ~y.rebuild /\ ~y.reconnect
               /\ y.meta = x.meta /\ y.subs = x.subs
               /\ Open(x) = {} => y.state = "closed" /\ y.stream = None /\ Announces(x, y, "closed")
               /\ Open(x) # {} => /\ y.state = "connecting" /\ y.stream = NewStream(x)
                                  /\ Announces(x, y, "connecting")
  <1> DEFINE y == Rebuilt(x)
             x1 == [x EXCEPT !.rebuild = FALSE, !.reconnect = FALSE, !.stream = None]
             x2 == [x1 EXCEPT !.stream = [docs |-> Open(x), asked |-> Asked(x),
                                          joined |-> FALSE, q |-> <<>>]]
  <1>1. y = IF Open(x) = {} THEN SetState(x1, "closed") ELSE SetState(x2, "connecting")
    BY DEF Rebuilt
  <1>2. /\ x1 \in Workers
        /\ x1.state = x.state /\ ~x1.reconnect /\ ~x1.rebuild
        /\ x1.meta = x.meta /\ x1.subs = x.subs /\ x1.stream = None /\ x1.out = x.out
    BY DEF Workers
  <1> HIDE DEF x1
  <1>3. /\ x2 \in Workers
        /\ x2.state = x.state /\ ~x2.reconnect /\ ~x2.rebuild
        /\ x2.meta = x.meta /\ x2.subs = x.subs /\ x2.stream = NewStream(x) /\ x2.out = x.out
    <2> DEFINE s == NewStream(x)
    <2>1. s \in Streams
      BY NewStreamFacts
    <2>2. x2 = [x1 EXCEPT !.stream = s]
      BY DEF NewStream
    <2> HIDE DEF s, x2
    <2> QED BY <1>2, <2>1, <2>2 DEF Workers, s
  <1>4. "closed" \in States /\ "connecting" \in States
    BY DEF States
  <1> HIDE DEF y, x2
  <1>5. CASE Open(x) = {}
    <2>1. y = SetState(x1, "closed")
      BY <1>1, <1>5
    <2>2. /\ y \in Workers
          /\ y.state = "closed" /\ y.reconnect = x1.reconnect /\ y.rebuild = x1.rebuild
          /\ y.meta = x1.meta /\ y.subs = x1.subs /\ y.stream = x1.stream
          /\ Announces(x1, y, "closed")
      <3>1. x1 \in Workers
        BY <1>2
      <3> QED BY <1>4, <2>1, <3>1, SetStateFacts
    <2>3. Announces(x, y, "closed")
      BY <1>2, <2>2 DEF Announces
    <2> QED BY <1>2, <1>5, <2>2, <2>3 DEF y
  <1>6. CASE Open(x) # {}
    <2>1. y = SetState(x2, "connecting")
      BY <1>1, <1>6
    <2>2. /\ y \in Workers
          /\ y.state = "connecting" /\ y.reconnect = x2.reconnect /\ y.rebuild = x2.rebuild
          /\ y.meta = x2.meta /\ y.subs = x2.subs /\ y.stream = x2.stream
          /\ Announces(x2, y, "connecting")
      <3>1. x2 \in Workers
        BY <1>3
      <3> QED BY <1>4, <2>1, <3>1, SetStateFacts
    <2>3. Announces(x, y, "connecting")
      BY <1>3, <2>2 DEF Announces
    <2> QED BY <1>3, <1>6, <2>2, <2>3 DEF y
  <1> QED BY <1>5, <1>6

\* A broken stream is given up, and a reconnection is due.
LEMMA BrokenFacts ==
    ASSUME SyncAssumption, NEW x \in Workers
    PROVE  LET y == Broken(x)
           IN  /\ y \in Workers
               /\ y.state = "connecting" /\ y.reconnect /\ y.rebuild = x.rebuild
               /\ y.meta = x.meta /\ y.subs = x.subs /\ y.stream = None
               /\ Announces(x, y, "connecting")
  <1> DEFINE y == Broken(x)
             z == [x EXCEPT !.stream = None, !.reconnect = TRUE]
  <1>1. y = SetState(z, "connecting") /\ "connecting" \in States
    BY DEF Broken, States
  <1>2. /\ z \in Workers
        /\ z.state = x.state /\ z.reconnect /\ z.rebuild = x.rebuild
        /\ z.meta = x.meta /\ z.subs = x.subs /\ z.stream = None /\ z.out = x.out
    BY DEF Workers
  <1> HIDE DEF y, z
  <1>3. /\ y \in Workers
        /\ y.state = "connecting" /\ y.reconnect = z.reconnect /\ y.rebuild = z.rebuild
        /\ y.meta = z.meta /\ y.subs = z.subs /\ y.stream = z.stream
        /\ Announces(z, y, "connecting")
    <2>1. z \in Workers
      BY <1>2
    <2> QED BY <1>1, <2>1, SetStateFacts
  <1>4. Announces(x, y, "connecting")
    <2>1. z.state = x.state /\ z.meta = x.meta /\ z.out = x.out
      BY <1>2
    <2>2. Announces(z, y, "connecting")
      BY <1>3
    <2> QED BY <2>1, <2>2 DEF Announces
  <1> QED BY <1>2, <1>3, <1>4 DEF y

\* y is x without d's document, whose ports are told.
Refuses(x, y, d) ==
    LET qs == x.subs[d].ports
    IN  /\ y \in Workers
        /\ y.state = x.state /\ y.reconnect = x.reconnect /\ y.rebuild
        /\ y.subs = [x.subs EXCEPT ![d] = None]
        /\ y.stream = Trimmed(x.stream, d)
        /\ \A q \in Ports : y.meta[q] = IF q \in qs THEN Quit(x.meta[q]) ELSE x.meta[q]
        /\ \A q \in Ports : y.out[q] = IF q \in qs
                                       THEN Append(x.out[q], Msg("gone", 0, None, FALSE))
                                       ELSE x.out[q]

\* A document that is refused takes its ports along.
LEMMA RefusedFacts ==
    ASSUME SyncAssumption, NEW x \in Workers, NEW d \in Docs, x.subs[d] # None,
           \A q \in x.subs[d].ports : x.meta[q] # None
    PROVE  Refuses(x, Refused(x, d), d)
  <1> DEFINE y == Refused(x, d)
             qs == x.subs[d].ports
             M == [q \in Ports |-> IF q \in qs THEN Quit(x.meta[q]) ELSE x.meta[q]]
             z == [x EXCEPT !.meta = M]
             v == Deleted(z, d)
             m == Msg("gone", 0, None, FALSE)
  <1>1. y = SendAll(v, qs, m)
    BY DEF Refused, Quit
  <1>2. M \in [Ports -> Metas \cup {None}]
    <2>1. \A q \in qs : q \in Ports => x.meta[q] \in Metas
      BY DEF Workers
    <2>2. \A q \in qs : q \in Ports => Quit(x.meta[q]) \in Metas
      BY <2>1, MetaFacts
    <2> HIDE DEF qs
    <2> QED BY <2>2 DEF Workers
  <1>3. \A q \in Ports : M[q] = IF q \in qs THEN Quit(x.meta[q]) ELSE x.meta[q]
    OBVIOUS
  <1>4. m \in DownMsgs
    BY GoneMsg
  <1> HIDE DEF y, qs, M, v, m
  <1>5. /\ z \in Workers
        /\ z.state = x.state /\ z.reconnect = x.reconnect
        /\ z.meta = M /\ z.subs = x.subs /\ z.stream = x.stream /\ z.out = x.out
    BY <1>2 DEF Workers
  <1> HIDE DEF z
  <1>6. /\ v \in Workers
        /\ v.state = z.state /\ v.reconnect = z.reconnect /\ v.rebuild
        /\ v.meta = z.meta /\ v.out = z.out
        /\ v.subs = [z.subs EXCEPT ![d] = None]
        /\ v.stream = Trimmed(z.stream, d)
    <2>1. z \in Workers
      BY <1>5
    <2> QED BY <2>1, DeletedFacts DEF v
  <1>7. /\ y \in Workers
        /\ y.state = v.state /\ y.reconnect = v.reconnect /\ y.rebuild = v.rebuild
        /\ y.meta = v.meta /\ y.subs = v.subs /\ y.stream = v.stream
        /\ y.out = [q \in Ports |-> IF q \in qs THEN Append(v.out[q], m) ELSE v.out[q]]
    <2>1. v \in Workers
      BY <1>6
    <2> QED BY <1>1, <1>4, <2>1, SendAllFacts
  <1>8. \A q \in Ports : y.out[q] = IF q \in qs THEN Append(x.out[q], m) ELSE x.out[q]
    BY <1>5, <1>6, <1>7
  <1>9. /\ y.subs = [x.subs EXCEPT ![d] = None] /\ y.stream = Trimmed(x.stream, d)
        /\ y.state = x.state /\ y.reconnect = x.reconnect /\ y.rebuild /\ y.meta = M
    BY <1>5, <1>6, <1>7
  <1> QED BY <1>3, <1>7, <1>8, <1>9 DEF y, qs, m, Refuses

\* The record of a document whose stream answers at n.
Answered(sub, n, resync) ==
    [sub EXCEPT !.opened = TRUE, !.since = n, !.content = IF resync THEN NoContent ELSE @,
                !.needsResync = @ \/ resync]

\* A document's record after the host's answer.
LEMMA AnsweredFacts ==
    ASSUME SyncAssumption, NEW sub \in Subs, NEW n \in Nat, NEW resync \in BOOLEAN
    PROVE  LET s == Answered(sub, n, resync)
           IN  /\ s \in Subs /\ s # None /\ s.opened /\ s.since = n /\ s.ports = sub.ports
               /\ s.content = IF resync THEN NoContent ELSE sub.content
               /\ s.needsResync = (sub.needsResync \/ resync)
  <1> DEFINE c == IF resync THEN NoContent ELSE sub.content
             b == sub.needsResync \/ resync
             s == Answered(sub, n, resync)
  <1>1. c \in [Kinds -> Nat] /\ b \in BOOLEAN
    BY DEF Subs, NoContent
  <1>2. s = [sub EXCEPT !.opened = TRUE, !.since = n, !.content = c, !.needsResync = b]
    BY DEF Answered, Subs
  <1> HIDE DEF c, b, s
  <1>3. s \in Subs /\ s.opened /\ s.since = n /\ s.ports = sub.ports /\ s.content = c /\ s.needsResync = b
    BY <1>1, <1>2 DEF Subs
  <1> QED BY <1>3 DEF c, b, s, SyncAssumption

\* y is x with d's document answered, and a cursor for its ports.
Cursors(x, y, d, n, resync) ==
    LET qs == x.subs[d].ports
    IN  /\ y \in Workers
        /\ y.state = x.state /\ y.reconnect = x.reconnect /\ y.rebuild = x.rebuild
        /\ y.stream = x.stream
        /\ y.subs = [x.subs EXCEPT ![d] = Answered(@, n, resync)]
        /\ \A q \in Ports : y.meta[q] = IF q \in qs THEN Resumed(x.meta[q]) ELSE x.meta[q]
        /\ \A q \in Ports : q \notin qs => y.out[q] = x.out[q]
        /\ \A q \in qs : \E c \in DownMsgs : /\ c.t = "cursor" /\ c.n = n /\ (resync => c.r)
                                             /\ y.out[q] = Append(x.out[q], c)

\* The answer reaches every port of the document.
LEMMA CursoredFacts ==
    ASSUME SyncAssumption, NEW x \in Workers, NEW d \in Docs, x.subs[d] # None,
           NEW n \in Nat, NEW resync \in BOOLEAN,
           \A q \in x.subs[d].ports : x.meta[q] # None /\ DocOf(q) = d
    PROVE  Cursors(x, Cursored(x, d, n, resync), d, n, resync)
  <1> DEFINE y == Cursored(x, d, n, resync)
             qs == x.subs[d].ports
             a == Answered(x.subs[d], n, resync)
             S == [x.subs EXCEPT ![d] = Answered(@, n, resync)]
             z == [x EXCEPT !.subs[d] = a]
  <1>1. x.subs[d] \in Subs
    BY DEF Workers
  <1>2. a \in Subs /\ a # None /\ a.since = n /\ a.ports = qs
    BY <1>1, AnsweredFacts
  <1>3. y = SendCursors(z, qs, resync)
    <2>1. y = SendCursors(z, a.ports, resync)
      BY DEF Cursored, Answered
    <2> QED BY <1>2, <2>1
  <1>4. qs \in SUBSET Ports
    <2> HIDE DEF qs
    <2> QED BY <1>1 DEF Subs, qs
  <1> HIDE DEF y, qs, a
  <1>5. /\ z \in Workers
        /\ z.state = x.state /\ z.reconnect = x.reconnect /\ z.rebuild = x.rebuild
        /\ z.stream = x.stream /\ z.meta = x.meta /\ z.out = x.out
        /\ z.subs = S /\ z.subs[d] = a
    <2>1. z = [x EXCEPT !.subs = S] /\ S[d] = a
      BY DEF Workers, a
    <2>2. S \in [Docs -> Subs \cup {None}]
      BY <1>2 DEF Workers, a
    <2> HIDE DEF S, z
    <2> QED BY <2>1, <2>2 DEF Workers
  <1> HIDE DEF z
  <1>6. \A q \in qs : z.meta[q] # None /\ DocOf(q) = d /\ DocOf(q) \in Docs /\ z.subs[DocOf(q)] # None
    BY <1>2, <1>5 DEF qs
  <1>7. /\ y \in Workers
        /\ y.state = z.state /\ y.reconnect = z.reconnect /\ y.rebuild = z.rebuild
        /\ y.subs = z.subs /\ y.stream = z.stream
        /\ \A q \in Ports : y.meta[q] = IF q \in qs THEN Resumed(z.meta[q]) ELSE z.meta[q]
        /\ \A q \in Ports : y.out[q] = IF q \in qs THEN Append(z.out[q], CursorFor(z, q, resync))
                                       ELSE z.out[q]
        /\ \A q \in qs : /\ CursorFor(z, q, resync) \in DownMsgs
                         /\ CursorFor(z, q, resync).t = "cursor"
                         /\ CursorFor(z, q, resync).n = z.subs[DocOf(q)].since
                         /\ resync => CursorFor(z, q, resync).r
    <2>1. z \in Workers /\ \A q \in qs : z.meta[q] # None /\ DocOf(q) \in Docs /\ z.subs[DocOf(q)] # None
      BY <1>5, <1>6
    <2> QED BY <1>3, <1>4, <2>1, SendCursorsFacts
  <1>8. ASSUME NEW q \in qs
        PROVE  \E c \in DownMsgs : /\ c.t = "cursor" /\ c.n = n /\ (resync => c.r)
                                   /\ y.out[q] = Append(x.out[q], c)
    <2>1. q \in Ports /\ z.subs[DocOf(q)].since = n
      BY <1>2, <1>4, <1>5, <1>6
    <2> DEFINE c == CursorFor(z, q, resync)
    <2>2. c \in DownMsgs /\ c.t = "cursor" /\ c.n = n /\ (resync => c.r)
      BY <1>7, <2>1
    <2>3. y.out[q] = Append(x.out[q], c)
      BY <1>5, <1>7, <2>1
    <2> HIDE DEF c
    <2> QED BY <2>2, <2>3
  <1>9. \A q \in Ports : q \notin qs => y.out[q] = x.out[q]
    BY <1>5, <1>7
  <1>10. \A q \in Ports : y.meta[q] = IF q \in qs THEN Resumed(x.meta[q]) ELSE x.meta[q]
    BY <1>5, <1>7
  <1>11. /\ y.state = x.state /\ y.reconnect = x.reconnect /\ y.rebuild = x.rebuild
         /\ y.stream = x.stream /\ y.subs = S
    BY <1>5, <1>7
  <1> QED BY <1>7, <1>8, <1>9, <1>10, <1>11 DEF y, qs, Cursors

\* The records of a document that has a frame of kind k at n, and of a port that is sent it.
Fed(sub, n, k) == [sub EXCEPT !.since = n, !.content[k] = n]
Shown(m, n) == [m EXCEPT !.seen = n]

\* A document's and a port's record after a frame.
LEMMA FedFacts ==
    ASSUME SyncAssumption, NEW n \in Nat
    PROVE  /\ \A sub \in Subs, k \in Kinds :
                 LET s == Fed(sub, n, k)
                 IN  /\ s \in Subs /\ s # None /\ s.opened = sub.opened /\ s.since = n
                     /\ s.ports = sub.ports /\ s.needsResync = sub.needsResync
                     /\ s.content[k] = n /\ \A l \in Kinds : l # k => s.content[l] = sub.content[l]
           /\ \A m \in Metas :
                 LET s == Shown(m, n)
                 IN  /\ s \in Metas /\ s # None /\ s.seen = n
                     /\ s.sub = m.sub /\ s.visible = m.visible /\ s.cursored = m.cursored
  <1>1. ASSUME NEW sub \in Subs, NEW k \in Kinds
        PROVE  LET s == Fed(sub, n, k)
               IN  /\ s \in Subs /\ s # None /\ s.opened = sub.opened /\ s.since = n
                   /\ s.ports = sub.ports /\ s.needsResync = sub.needsResync
                   /\ s.content[k] = n /\ \A l \in Kinds : l # k => s.content[l] = sub.content[l]
    <2> DEFINE c == [sub.content EXCEPT ![k] = n]
               s == Fed(sub, n, k)
    <2>1. c \in [Kinds -> Nat] /\ c[k] = n /\ \A l \in Kinds : l # k => c[l] = sub.content[l]
      BY DEF Subs
    <2>2. s = [sub EXCEPT !.since = n, !.content = c]
      BY DEF Fed, Subs
    <2> HIDE DEF c, s
    <2>3. /\ s \in Subs /\ s.opened = sub.opened /\ s.since = n
          /\ s.ports = sub.ports /\ s.needsResync = sub.needsResync /\ s.content = c
      BY <2>1, <2>2 DEF Subs
    <2> QED BY <2>1, <2>3 DEF s, SyncAssumption
  <1>2. ASSUME NEW m \in Metas
        PROVE  LET s == Shown(m, n)
               IN  /\ s \in Metas /\ s # None /\ s.seen = n
                   /\ s.sub = m.sub /\ s.visible = m.visible /\ s.cursored = m.cursored
    BY DEF Shown, Metas, SyncAssumption
  <1> QED BY <1>1, <1>2

\* y is x with d's document fed, and its visible ports shown the frame.
Feeds(x, y, d, n, k) ==
    LET id == Higher(n, x.subs[d].since)
        qs == {q \in x.subs[d].ports : x.meta[q].visible}
    IN  /\ y \in Workers
        /\ y.state = x.state /\ y.reconnect = x.reconnect /\ y.rebuild = x.rebuild
        /\ y.stream = x.stream
        /\ y.subs = [x.subs EXCEPT ![d] = Fed(@, id, k)]
        /\ \A q \in Ports : y.meta[q] = IF q \in qs THEN Shown(x.meta[q], id) ELSE x.meta[q]
        /\ \A q \in Ports : y.out[q] = IF q \in qs
                                       THEN Append(x.out[q], Msg("frame", n, k, FALSE))
                                       ELSE x.out[q]

\* A frame reaches the document's visible ports.
LEMMA FramedFacts ==
    ASSUME SyncAssumption, NEW x \in Workers, NEW d \in Docs, x.subs[d] # None,
           NEW n \in Nat, NEW k \in Kinds, \A q \in x.subs[d].ports : x.meta[q] # None
    PROVE  Feeds(x, Framed(x, d, n, k), d, n, k)
  <1> DEFINE y == Framed(x, d, n, k)
             id == Higher(n, x.subs[d].since)
             qs == {q \in x.subs[d].ports : x.meta[q].visible}
             S == [x.subs EXCEPT ![d] = Fed(@, id, k)]
             M == [q \in Ports |-> IF q \in qs THEN Shown(x.meta[q], id) ELSE x.meta[q]]
             z == [x EXCEPT !.subs = S, !.meta = M]
             m == Msg("frame", n, k, FALSE)
  <1>1. x.subs[d] \in Subs
    BY DEF Workers
  <1>2. id \in Nat
    BY <1>1 DEF Subs, Higher
  <1>3. m \in DownMsgs
    BY FrameMsg
  <1>4. \A q \in qs : x.meta[q] # None /\ q \in Ports
    BY <1>1 DEF Subs
  <1>5. y = SendAll(z, qs, m)
    <2> DEFINE u == [x EXCEPT !.subs[d] = [@ EXCEPT !.since = id, !.content[k] = id]]
    <2>1. u = [x EXCEPT !.subs = S]
      BY <1>1 DEF Fed, Workers, Subs
    <2>2. y = SendAll([u EXCEPT !.meta = M], qs, m)
      BY DEF Framed, Shown
    <2> HIDE DEF u, S, M, qs, m
    <2>3. [u EXCEPT !.meta = M] = z
      BY <2>1 DEF Workers
    <2> QED BY <2>2, <2>3
  <1>6. S \in [Docs -> Subs \cup {None}]
    <2>1. Fed(x.subs[d], id, k) \in Subs
      BY <1>1, <1>2, FedFacts
    <2> QED BY <2>1 DEF Workers
  <1> HIDE DEF id, qs
  <1>7. M \in [Ports -> Metas \cup {None}]
    <2>1. \A q \in qs : x.meta[q] \in Metas
      BY <1>4 DEF Workers
    <2>2. \A q \in qs : Shown(x.meta[q], id) \in Metas
      BY <1>2, <2>1, FedFacts
    <2> QED BY <2>2 DEF Workers
  <1>8. \A q \in Ports : M[q] = IF q \in qs THEN Shown(x.meta[q], id) ELSE x.meta[q]
    OBVIOUS
  <1> HIDE DEF S, M, y, m
  <1>9. /\ z \in Workers
        /\ z.state = x.state /\ z.reconnect = x.reconnect /\ z.rebuild = x.rebuild
        /\ z.stream = x.stream /\ z.meta = M /\ z.subs = S /\ z.out = x.out
    BY <1>6, <1>7 DEF Workers
  <1> HIDE DEF z
  <1>10. /\ y \in Workers
         /\ y.state = z.state /\ y.reconnect = z.reconnect /\ y.rebuild = z.rebuild
         /\ y.meta = z.meta /\ y.subs = z.subs /\ y.stream = z.stream
         /\ y.out = [q \in Ports |-> IF q \in qs THEN Append(z.out[q], m) ELSE z.out[q]]
    <2>1. z \in Workers
      BY <1>9
    <2> QED BY <1>3, <1>5, <2>1, SendAllFacts
  <1>11. \A q \in Ports : y.out[q] = IF q \in qs THEN Append(x.out[q], m) ELSE x.out[q]
    BY <1>9, <1>10
  <1>12. /\ y.state = x.state /\ y.reconnect = x.reconnect /\ y.rebuild = x.rebuild
         /\ y.stream = x.stream /\ y.subs = S /\ y.meta = M
    BY <1>9, <1>10
  <1> QED BY <1>8, <1>10, <1>11, <1>12 DEF y, m, id, qs, S, Feeds

-----------------------------------------------------------------------------
(* Every operation keeps the books.                                        *)

\* The ports that are subscribed, and the parts of the books.
Listens(x, q) == x.meta[q] # None /\ x.meta[q].sub

HeldRight(x, d) == Holders(x, d) = IF x.subs[d] = None THEN {} ELSE x.subs[d].ports

\* What the books say, in the form the proofs use.
LEMMA BooksSay ==
    ASSUME NEW x, Books(x)
    PROVE  /\ x \in Workers /\ Open(x) \subseteq Docs
           /\ \A d : d \in Open(x) <=> d \in Docs /\ x.subs[d] # None
           /\ \A d \in Open(x) : x.subs[d] \in Subs /\ x.subs[d].ports # {}
                                 /\ x.subs[d].ports \subseteq Ports
           /\ \A d \in Open(x) : \A q \in Ports : q \in x.subs[d].ports <=> Listens(x, q) /\ DocOf(q) = d
           /\ \A q \in Ports : Listens(x, q) /\ DocOf(q) \in Docs
                               => DocOf(q) \in Open(x) /\ q \in x.subs[DocOf(q)].ports
           /\ \A q \in Ports : x.meta[q] # None => x.meta[q] \in Metas
           /\ IsFiniteSet(Open(x)) /\ Cardinality(Open(x)) \in Nat /\ Cardinality(Open(x)) <= cap
           /\ StreamOK(x) /\ Listed(x)
  <1>1. x \in Workers /\ IsFiniteSet(Open(x)) /\ Cardinality(Open(x)) <= cap /\ StreamOK(x) /\ Listed(x)
        /\ \A d \in Open(x) : x.subs[d].ports # {}
    BY DEF Books
  <1>2. Open(x) \subseteq Docs /\ \A d : d \in Open(x) <=> d \in Docs /\ x.subs[d] # None
    BY DEF Open
  <1>3. \A d \in Open(x) : x.subs[d] \in Subs /\ x.subs[d].ports \subseteq Ports
    BY <1>1, <1>2 DEF Workers, Subs
  <1>4. \A d \in Docs : HeldRight(x, d)
    BY DEF Books, HeldRight
  <1>5. \A d \in Docs, q \in Ports : q \in Holders(x, d) <=> Listens(x, q) /\ DocOf(q) = d
    BY DEF Holders, Listens
  <1>6. \A d \in Open(x) : \A q \in Ports : q \in x.subs[d].ports <=> Listens(x, q) /\ DocOf(q) = d
    BY <1>2, <1>4, <1>5 DEF HeldRight
  <1>7. \A q \in Ports : Listens(x, q) /\ DocOf(q) \in Docs
                         => DocOf(q) \in Open(x) /\ q \in x.subs[DocOf(q)].ports
    BY <1>2, <1>4, <1>5 DEF HeldRight
  <1>8. \A q \in Ports : x.meta[q] # None => x.meta[q] \in Metas
    BY <1>1 DEF Workers
  <1>9. Cardinality(Open(x)) \in Nat
    BY <1>1, FS_CardinalityType
  <1> QED BY <1>1, <1>2, <1>3, <1>6, <1>7, <1>8, <1>9

\* And how they are shown to be right.
LEMMA BooksRight ==
    ASSUME NEW y \in Workers, IsFiniteSet(Open(y)), Cardinality(Open(y)) <= cap,
           StreamOK(y), Listed(y),
           \A d \in Docs : y.subs[d] # None => y.subs[d].ports # {},
           \A d \in Docs : y.subs[d] # None =>
              \A q \in Ports : q \in y.subs[d].ports <=> Listens(y, q) /\ DocOf(q) = d,
           \A q \in Ports : Listens(y, q) /\ DocOf(q) \in Docs => y.subs[DocOf(q)] # None
    PROVE  Books(y)
  <1>1. ASSUME NEW d \in Docs
        PROVE  HeldRight(y, d)
    <2>1. \A q : q \in Holders(y, d) <=> q \in Ports /\ Listens(y, q) /\ DocOf(q) = d
      BY DEF Holders, Listens
    <2>2. CASE y.subs[d] = None
      <3>1. \A q : q \notin Holders(y, d)
        BY <2>1, <2>2
      <3> QED BY <2>2, <3>1 DEF HeldRight
    <2>3. CASE y.subs[d] # None
      <3>1. y.subs[d].ports \subseteq Ports
        BY <2>3 DEF Workers, Subs
      <3>2. \A q : q \in Holders(y, d) <=> q \in y.subs[d].ports
        BY <2>1, <2>3, <3>1
      <3> QED BY <2>3, <3>2 DEF HeldRight
    <2> QED BY <2>2, <2>3
  <1>2. \A d \in Open(y) : y.subs[d].ports # {}
    BY DEF Open
  <1> QED BY <1>1, <1>2 DEF Books, HeldRight

\* An operation that changes neither who listens nor who holds what.
LEMMA BooksAlike ==
    ASSUME NEW x, Books(x), NEW y \in Workers,
           \A q \in Ports : Listens(y, q) <=> Listens(x, q),
           \A d \in Docs : /\ y.subs[d] = None <=> x.subs[d] = None
                           /\ x.subs[d] # None => y.subs[d].ports = x.subs[d].ports,
           StreamOK(y), Listed(y)
    PROVE  Books(y) /\ Open(y) = Open(x)
  <1>1. Open(y) = Open(x)
    BY DEF Open
  <1>2. IsFiniteSet(Open(y)) /\ Cardinality(Open(y)) <= cap
    BY <1>1 DEF Books
  <1>3. \A d \in Docs : y.subs[d] # None =>
           /\ y.subs[d].ports # {}
           /\ \A q \in Ports : q \in y.subs[d].ports <=> Listens(y, q) /\ DocOf(q) = d
    BY BooksSay
  <1>4. \A q \in Ports : Listens(y, q) /\ DocOf(q) \in Docs => y.subs[DocOf(q)] # None
    BY BooksSay
  <1> QED BY <1>1, <1>2, <1>3, <1>4, BooksRight

\* An operation that deletes document d.
LEMMA BooksLess ==
    ASSUME SyncAssumption, cap \in Nat, NEW x, Books(x), NEW y \in Workers, NEW d \in Docs,
           x.subs[d] # None, y.subs = [x.subs EXCEPT ![d] = None], y.stream = Trimmed(x.stream, d), y.rebuild,
           \A q \in Ports : Listens(y, q) <=> Listens(x, q) /\ q \notin x.subs[d].ports
    PROVE  Books(y) /\ Open(y) = Open(x) \ {d}
  <1>0. x \in Workers
    BY BooksSay
  <1>1. y.subs[d] = None /\ \A e \in Docs : e # d => y.subs[e] = x.subs[e]
    BY <1>0 DEF Workers
  <1>2. Open(y) = Open(x) \ {d}
    BY <1>1 DEF Open
  <1>3. IsFiniteSet(Open(y)) /\ Cardinality(Open(y)) <= cap
    <2>1. IsFiniteSet(Open(x)) /\ d \in Open(x) /\ Cardinality(Open(x)) <= cap /\ Cardinality(Open(x)) \in Nat
      BY BooksSay
    <2> QED
      <3>1. IsFiniteSet(Open(x) \ {d}) /\ Cardinality(Open(x) \ {d}) <= Cardinality(Open(x))
            /\ Cardinality(Open(x) \ {d}) \in Nat
        BY <2>1, FS_Subset, FS_CardinalityType
      <3> QED BY <1>2, <2>1, <3>1
  <1>4. \A e \in Docs : y.subs[e] # None =>
           /\ y.subs[e].ports # {}
           /\ \A q \in Ports : q \in y.subs[e].ports <=> Listens(y, q) /\ DocOf(q) = e
    <2> SUFFICES ASSUME NEW e \in Docs, y.subs[e] # None
                 PROVE  /\ y.subs[e].ports # {}
                        /\ \A q \in Ports : q \in y.subs[e].ports <=> Listens(y, q) /\ DocOf(q) = e
      OBVIOUS
    <2>1. e # d /\ y.subs[e] = x.subs[e] /\ e \in Open(x) /\ d \in Open(x)
      BY <1>1 DEF Open
    <2>2. \A q \in Ports : q \in x.subs[e].ports => q \notin x.subs[d].ports
      BY <2>1, BooksSay
    <2> QED BY <2>1, <2>2, BooksSay
  <1>5. \A q \in Ports : Listens(y, q) /\ DocOf(q) \in Docs => y.subs[DocOf(q)] # None
    <2> SUFFICES ASSUME NEW q \in Ports, Listens(y, q), DocOf(q) \in Docs PROVE y.subs[DocOf(q)] # None
      OBVIOUS
    <2>1. Listens(x, q) /\ q \notin x.subs[d].ports
      OBVIOUS
    <2>2. DocOf(q) # d
      BY <2>1, BooksSay
    <2>3. x.subs[DocOf(q)] # None
      BY <2>1, BooksSay
    <2> QED BY <1>1, <2>2, <2>3
  <1>6. StreamOK(y)
    <2> SUFFICES ASSUME y.stream # None
                 PROVE  /\ y.stream.docs \subseteq Open(y)
                        /\ y.stream.docs \subseteq DOMAIN y.stream.asked
                        /\ IsFiniteSet(DOMAIN y.stream.asked)
                        /\ y.stream.q \in Seq(GoodEvents)
      BY DEF StreamOK
    <2>1. x.stream \in Streams \cup {None}
      BY <1>0 DEF Workers
    <2>2. /\ x.stream # None
          /\ y.stream.docs = x.stream.docs \ {d} /\ y.stream.asked = x.stream.asked
          /\ y.stream.q = x.stream.q
      BY <2>1, TrimmedFacts
    <2>3. /\ x.stream.docs \subseteq Open(x)
          /\ x.stream.docs \subseteq DOMAIN x.stream.asked
          /\ IsFiniteSet(DOMAIN x.stream.asked)
          /\ x.stream.q \in Seq(GoodEvents)
      BY <2>2, BooksSay DEF StreamOK
    <2> QED BY <1>2, <2>2, <2>3
  <1>7. Listed(y)
    BY DEF Listed
  <1> QED BY <1>2, <1>3, <1>4, <1>5, <1>6, <1>7, BooksRight

\* A port gives up its subscription, or goes.
LEMMA UnsubscribeBooks ==
    ASSUME SyncAssumption, cap \in Nat, NEW x, Books(x), NEW q \in Ports,
           Listens(x, q) => DocOf(q) \in Docs
    PROVE  LET y == Unsubscribe(x, q)
           IN  Books(y) /\ ~Listens(y, q)
  <1> DEFINE y == Unsubscribe(x, q)
             d == DocOf(q)
  <1>0. x \in Workers
    BY BooksSay
  <1>1. CASE ~Listens(x, q)
    BY <1>0, <1>1, UnsubscribeFacts DEF Listens
  <1>2. CASE Listens(x, q)
    <2>1. x.meta[q] # None /\ x.meta[q].sub /\ d \in Docs /\ x.subs[d] # None /\ q \in x.subs[d].ports
          /\ d \in Open(x)
      BY <1>2, BooksSay DEF Listens
    <2>2. Leaves(x, y, q, d)
      BY <1>0, <2>1, UnsubscribeFacts
    <2> HIDE DEF y, d
    <2>3. /\ y \in Workers /\ y.reconnect = x.reconnect /\ y.state = x.state
          /\ y.meta = [x.meta EXCEPT ![q] = Quit(@)]
      BY <2>2 DEF Leaves
    <2>4. x.meta[q] \in Metas /\ ~Quit(x.meta[q]).sub
      BY <2>1, BooksSay, MetaFacts
    <2>5. /\ ~Listens(y, q)
          /\ \A r \in Ports : r # q => (Listens(y, r) <=> Listens(x, r))
      BY <1>0, <2>3, <2>4 DEF Workers, Listens
    <2>6. x.subs[d] \in Subs /\ x.subs[d].ports \subseteq Ports
          /\ \A r \in Ports : r \in x.subs[d].ports <=> Listens(x, r) /\ DocOf(r) = d
      BY <2>1, BooksSay
    <2>7. CASE x.subs[d].ports \ {q} = {}
      <3>1. y.rebuild /\ y.subs = [x.subs EXCEPT ![d] = None] /\ y.stream = Trimmed(x.stream, d)
        BY <2>2, <2>7 DEF Leaves
      <3>2. \A r \in Ports : Listens(y, r) <=> Listens(x, r) /\ r \notin x.subs[d].ports
        BY <2>1, <2>5, <2>7
      <3>3. Books(y)
        BY <2>1, <2>3, <3>1, <3>2, BooksLess
      <3> QED BY <2>5, <3>3 DEF y
    <2>8. CASE x.subs[d].ports \ {q} # {}
      <3>1. y.rebuild = x.rebuild /\ y.subs = [x.subs EXCEPT ![d] = Left(@, q)] /\ y.stream = x.stream
        BY <2>2, <2>8 DEF Leaves
      <3>2. Left(x.subs[d], q) # None /\ Left(x.subs[d], q).ports = x.subs[d].ports \ {q}
        BY <2>6, SubFacts
      <3>3. /\ y.subs[d] # None /\ y.subs[d].ports = x.subs[d].ports \ {q}
            /\ \A e \in Docs : e # d => y.subs[e] = x.subs[e]
        BY <1>0, <2>1, <3>1, <3>2 DEF Workers
      <3>4. Open(y) = Open(x)
        BY <2>1, <3>3 DEF Open
      <3>5. IsFiniteSet(Open(y)) /\ Cardinality(Open(y)) <= cap
        BY <3>4 DEF Books
      <3>6. StreamOK(y) /\ Listed(y)
        BY <2>3, <3>1, <3>4, BooksSay DEF StreamOK, Listed
      <3>7. \A e \in Docs : y.subs[e] # None =>
               /\ y.subs[e].ports # {}
               /\ \A r \in Ports : r \in y.subs[e].ports <=> Listens(y, r) /\ DocOf(r) = e
        <4> SUFFICES ASSUME NEW e \in Docs, y.subs[e] # None
                     PROVE  /\ y.subs[e].ports # {}
                            /\ \A r \in Ports : r \in y.subs[e].ports <=> Listens(y, r) /\ DocOf(r) = e
          OBVIOUS
        <4>1. CASE e = d
          BY <2>5, <2>6, <2>8, <3>3, <4>1
        <4>2. CASE e # d
          <5>1. y.subs[e] = x.subs[e] /\ e \in Open(x)
            BY <3>3, <4>2 DEF Open
          <5>2. DocOf(q) # e
            BY <4>2 DEF d
          <5> QED BY <2>5, <5>1, <5>2, BooksSay
        <4> QED BY <4>1, <4>2
      <3>8. \A r \in Ports : Listens(y, r) /\ DocOf(r) \in Docs => y.subs[DocOf(r)] # None
        <4> SUFFICES ASSUME NEW r \in Ports, Listens(y, r), DocOf(r) \in Docs PROVE y.subs[DocOf(r)] # None
          OBVIOUS
        <4>1. Listens(x, r)
          BY <2>5
        <4>2. DocOf(r) \in Open(x)
          BY <4>1, BooksSay
        <4> QED BY <3>4, <4>2 DEF Open
      <3>9. Books(y)
        BY <2>3, <3>5, <3>6, <3>7, <3>8, BooksRight
      <3> QED BY <2>5, <3>9 DEF y
    <2> QED BY <2>7, <2>8
  <1> QED BY <1>1, <1>2

\* y is u without port q.
Minus(u, y, q) ==
    /\ y.meta = [u.meta EXCEPT ![q] = None]
    /\ y.state = u.state /\ y.subs = u.subs /\ y.stream = u.stream /\ y.out = u.out
    /\ y.rebuild = u.rebuild /\ y.reconnect = u.reconnect

\* The same, and the worker forgets the port.
LEMMA DropPortBooks ==
    ASSUME SyncAssumption, cap \in Nat, NEW x, Books(x), NEW q \in Ports,
           Listens(x, q) => DocOf(q) \in Docs
    PROVE  Books(DropPort(x, q)) /\ Minus(Unsubscribe(x, q), DropPort(x, q), q)
  <1> DEFINE y == DropPort(x, q)
             u == Unsubscribe(x, q)
  <1>1. y = [u EXCEPT !.meta[q] = None]
    BY DEF DropPort
  <1>2. Books(u) /\ ~Listens(u, q)
    BY UnsubscribeBooks
  <1> HIDE DEF y, u
  <1>3. u \in Workers /\ StreamOK(u) /\ Listed(u)
    BY <1>2, BooksSay
  <1>4. /\ y \in Workers /\ y.meta = [u.meta EXCEPT ![q] = None]
        /\ y.state = u.state /\ y.subs = u.subs /\ y.stream = u.stream /\ y.out = u.out
        /\ y.rebuild = u.rebuild /\ y.reconnect = u.reconnect
    BY <1>1, <1>3 DEF Workers
  <1>5. y.meta[q] = None /\ \A r \in Ports : r # q => y.meta[r] = u.meta[r]
    BY <1>3, <1>4 DEF Workers
  <1>6. \A r \in Ports : Listens(y, r) <=> Listens(u, r)
    BY <1>2, <1>5 DEF Listens
  <1>7. Open(y) = Open(u)
    BY <1>4 DEF Open
  <1>8. StreamOK(y) /\ Listed(y)
    BY <1>3, <1>4, <1>7 DEF StreamOK, Listed
  <1>9. Books(y)
    BY <1>2, <1>4, <1>6, <1>8, BooksAlike
  <1> QED BY <1>4, <1>9 DEF y, u, Minus

\* A port connects.
LEMMA ConnectBooks ==
    ASSUME SyncAssumption, cap \in Nat, NEW x, Books(x), NEW q \in Ports, x.meta[q] = None,
           DocOf(q) \in Docs, NEW y, NEW v \in BOOLEAN, NEW since \in Nat, Connects(x, y, q, v, since)
    PROVE  Books(y)
  <1> DEFINE d == DocOf(q)
  <1>0. x \in Workers
    BY BooksSay
  <1>1. OnlyPort(x, y, q, d)
    BY DEF Connects
  <1> HIDE DEF d
  <1>2. /\ y \in Workers /\ y.state = x.state /\ y.reconnect = x.reconnect /\ y.stream = x.stream
        /\ \A r \in Ports : r # q => y.meta[r] = x.meta[r]
        /\ \A e \in Docs : e # d => y.subs[e] = x.subs[e]
    BY <1>1 DEF OnlyPort
  <1>3. ~Listens(x, q) /\ \A r \in Ports : r # q => (Listens(y, r) <=> Listens(x, r))
    BY <1>2 DEF Listens
  <1>4. CASE TurnedAway(x, y, q, d)
    <2>1. x.subs[d] = None /\ y.subs[d] = None /\ y.rebuild = x.rebuild /\ ~Listens(y, q)
      BY <1>4 DEF TurnedAway, Listens
    <2>2. Open(y) = Open(x)
      BY <1>2, <2>1 DEF Open
    <2>3. StreamOK(y) /\ Listed(y)
      BY <1>2, <2>1, <2>2, BooksSay DEF StreamOK, Listed
    <2>4. \A r \in Ports : Listens(y, r) <=> Listens(x, r)
      BY <1>3, <2>1
    <2>5. \A e \in Docs : /\ y.subs[e] = None <=> x.subs[e] = None
                          /\ x.subs[e] # None => y.subs[e].ports = x.subs[e].ports
      BY <1>2, <2>1
    <2> QED BY <1>2, <2>3, <2>4, <2>5, BooksAlike
  <1>5. ASSUME y.subs[d] # None, Listens(y, q), IsFiniteSet(Open(y)), Cardinality(Open(y)) <= cap,
               StreamOK(y), Listed(y),
               y.subs[d].ports = (IF x.subs[d] = None THEN {} ELSE x.subs[d].ports) \cup {q}
        PROVE  Books(y)
    <2>1. \A e \in Docs : y.subs[e] # None =>
             /\ y.subs[e].ports # {}
             /\ \A r \in Ports : r \in y.subs[e].ports <=> Listens(y, r) /\ DocOf(r) = e
      <3> SUFFICES ASSUME NEW e \in Docs, y.subs[e] # None
                   PROVE  /\ y.subs[e].ports # {}
                          /\ \A r \in Ports : r \in y.subs[e].ports <=> Listens(y, r) /\ DocOf(r) = e
        OBVIOUS
      <3>1. CASE e # d
        <4>1. y.subs[e] = x.subs[e] /\ e \in Open(x)
          BY <1>2, <3>1 DEF Open
        <4>2. DocOf(q) # e
          BY <3>1 DEF d
        <4> QED BY <1>3, <4>1, <4>2, BooksSay
      <3>2. CASE e = d /\ x.subs[d] # None
        <4>1. d \in Open(x) /\ d \in Docs
          BY <3>2 DEF Open
        <4>2. \A r \in Ports : r \in x.subs[d].ports <=> Listens(x, r) /\ DocOf(r) = d
          BY <4>1, BooksSay
        <4>3. DocOf(q) = d
          BY DEF d
        <4>4. y.subs[d].ports = x.subs[d].ports \cup {q}
          BY <1>5, <3>2
        <4> QED BY <1>3, <1>5, <3>2, <4>2, <4>3, <4>4
      <3>3. CASE e = d /\ x.subs[d] = None
        <4>1. \A r \in Ports : Listens(x, r) => DocOf(r) # d
          BY <3>3, BooksSay DEF d
        <4>2. y.subs[d].ports = {q} /\ DocOf(q) = d
          BY <1>5, <3>3 DEF d
        <4> QED BY <1>3, <1>5, <3>3, <4>1, <4>2
      <3> QED BY <3>1, <3>2, <3>3
    <2>2. \A r \in Ports : Listens(y, r) /\ DocOf(r) \in Docs => y.subs[DocOf(r)] # None
      <3> SUFFICES ASSUME NEW r \in Ports, Listens(y, r), DocOf(r) \in Docs PROVE y.subs[DocOf(r)] # None
        OBVIOUS
      <3>1. CASE DocOf(r) = d
        BY <1>5, <3>1
      <3>2. CASE DocOf(r) # d
        <4>1. r # q
          BY <3>2 DEF d
        <4>2. x.subs[DocOf(r)] # None
          BY <1>3, <4>1, BooksSay
        <4> QED BY <1>2, <3>2, <4>2
      <3> QED BY <3>1, <3>2
    <2> QED BY <1>2, <1>5, <2>1, <2>2, BooksRight
  <1>6. CASE Opened(x, y, q, d, v, since)
    <2>1. /\ x.subs[d] = None /\ Cardinality(Open(x)) < cap
          /\ y.subs[d] = With(FreshSub(since), q) /\ y.rebuild /\ y.meta[q] = NewMeta(v, since)
      BY <1>6 DEF Opened
    <2>2. Listens(y, q)
      BY <2>1, NewMetaFacts DEF Listens
    <2>3. y.subs[d] # None /\ y.subs[d].ports = {} \cup {q}
      <3>1. FreshSub(since) \in Subs /\ FreshSub(since).ports = {}
        BY FreshSubFacts
      <3> QED BY <2>1, <3>1, SubFacts
    <2>4. d \in Docs /\ d \notin Open(x) /\ Open(y) = Open(x) \cup {d}
      BY <1>2, <2>1, <2>3 DEF Open, d
    <2>5. IsFiniteSet(Open(y)) /\ Cardinality(Open(y)) <= cap
      <3>1. IsFiniteSet(Open(x)) /\ Cardinality(Open(x)) \in Nat
        BY BooksSay
      <3>2. IsFiniteSet(Open(x) \cup {d}) /\ Cardinality(Open(x) \cup {d}) = Cardinality(Open(x)) + 1
        BY <2>4, <3>1, FS_AddElement
      <3> QED BY <2>1, <2>4, <3>1, <3>2
    <2>6. StreamOK(y)
      <3>1. StreamOK(x)
        BY BooksSay
      <3> QED BY <1>2, <2>4, <3>1 DEF StreamOK
    <2>7. Listed(y)
      BY <2>1 DEF Listed
    <2>8. y.subs[d].ports = (IF x.subs[d] = None THEN {} ELSE x.subs[d].ports) \cup {q}
      BY <2>1, <2>3
    <2> QED BY <1>5, <2>2, <2>3, <2>5, <2>6, <2>7, <2>8
  <1>7. ASSUME x.subs[d] # None, y.subs[d] # None, y.subs[d].ports = x.subs[d].ports \cup {q},
               Listens(y, q), y.rebuild = x.rebuild
        PROVE  Books(y)
    <2>1. Open(y) = Open(x)
      BY <1>2, <1>7 DEF Open
    <2>2. IsFiniteSet(Open(y)) /\ Cardinality(Open(y)) <= cap
      BY <2>1, BooksSay
    <2>3. StreamOK(y) /\ Listed(y)
      BY <1>2, <1>7, <2>1, BooksSay DEF StreamOK, Listed
    <2> QED BY <1>5, <1>7, <2>2, <2>3
  <1>8. CASE JoinedEarly(x, y, q, d, v, since)
    <2>1. /\ x.subs[d] # None /\ y.subs[d] = With(Lowered(x.subs[d], since), q) /\ y.rebuild = x.rebuild
          /\ y.meta[q] = NewMeta(v, since)
      BY <1>8 DEF JoinedEarly
    <2>2. Listens(y, q)
      BY <2>1, NewMetaFacts DEF Listens
    <2>3. x.subs[d] \in Subs
      BY <2>1, BooksSay DEF d
    <2>4. Lowered(x.subs[d], since) \in Subs /\ Lowered(x.subs[d], since).ports = x.subs[d].ports
      BY <2>3, LoweredFacts
    <2>5. y.subs[d] # None /\ y.subs[d].ports = x.subs[d].ports \cup {q}
      BY <2>1, <2>4, SubFacts
    <2> QED BY <1>7, <2>1, <2>2, <2>5
  <1>9. CASE JoinedLate(x, y, q, d, v, since)
    <2>1. /\ x.subs[d] # None /\ y.subs[d] = With(x.subs[d], q) /\ y.rebuild = x.rebuild
          /\ y.meta[q] # None /\ y.meta[q].sub
      BY <1>9 DEF JoinedLate
    <2>2. Listens(y, q)
      BY <2>1 DEF Listens
    <2>3. x.subs[d] \in Subs
      BY <2>1, BooksSay DEF d
    <2>5. y.subs[d] # None /\ y.subs[d].ports = x.subs[d].ports \cup {q}
      BY <2>1, <2>3, SubFacts
    <2> QED BY <1>7, <2>1, <2>2, <2>5
  <1> QED BY <1>4, <1>6, <1>8, <1>9 DEF Connects, d

-----------------------------------------------------------------------------
(* The worker's steps keep the books.                                      *)

\* What the ports have when a handler returns.
LEMMA ReturnsFacts ==
    ASSUME SyncAssumption, NEW x \in Workers, NEW ps \in [Ports -> PortRecords], Returns(x, ps)
    PROVE  /\ port' \in [Ports -> PortRecords]
           /\ w' \in Workers /\ w'.out = NewWorker.out
           /\ w'.state = x.state /\ w'.subs = x.subs /\ w'.stream = x.stream
           /\ w'.rebuild = x.rebuild /\ w'.reconnect = x.reconnect /\ w'.meta = x.meta
           /\ \A q \in Ports : /\ port'[q].page = ps[q].page /\ port'[q].closed = ps[q].closed
                               /\ port'[q].up = ps[q].up
                               /\ port'[q].down = IF ps[q].closed THEN ps[q].down
                                                  ELSE Joined(ps[q].down, x.out[q])
  <1>1. /\ w' = [x EXCEPT !.out = NewWorker.out]
        /\ port' = [q \in Ports |-> IF ps[q].closed THEN ps[q]
                                    ELSE [ps[q] EXCEPT !.down = Joined(@, x.out[q])]]
    BY DEF Returns
  <1>2. NewWorker.out \in [Ports -> Seq(DownMsgs)]
    <2>1. NewWorker.out = [q \in Ports |-> <<>>]
      BY DEF NewWorker
    <2>2. <<>> \in Seq(DownMsgs)
      OBVIOUS
    <2> QED BY <2>1, <2>2
  <1>3. /\ w' \in Workers /\ w'.out = NewWorker.out
        /\ w'.state = x.state /\ w'.subs = x.subs /\ w'.stream = x.stream
        /\ w'.rebuild = x.rebuild /\ w'.reconnect = x.reconnect /\ w'.meta = x.meta
    <2> DEFINE o == NewWorker.out
    <2> HIDE DEF o
    <2> QED BY <1>1, <1>2 DEF Workers, o
  <1>4. ASSUME NEW q \in Ports
        PROVE  /\ port'[q] \in PortRecords
               /\ port'[q].page = ps[q].page /\ port'[q].closed = ps[q].closed
               /\ port'[q].up = ps[q].up
               /\ port'[q].down = IF ps[q].closed THEN ps[q].down
                                  ELSE Joined(ps[q].down, x.out[q])
    <2> DEFINE j == Joined(ps[q].down, x.out[q])
    <2>1. ps[q] \in PortRecords /\ ps[q].down \in Seq(DownMsgs) /\ x.out[q] \in Seq(DownMsgs)
      BY DEF Workers, PortRecords
    <2>2. j \in Seq(DownMsgs)
      BY <2>1, JoinedElems
    <2>3. port'[q] = IF ps[q].closed THEN ps[q] ELSE [ps[q] EXCEPT !.down = j]
      BY <1>1
    <2> HIDE DEF j
    <2>4. CASE ps[q].closed
      BY <2>1, <2>3, <2>4
    <2>5. CASE ~ps[q].closed
      <3>1. port'[q] = [ps[q] EXCEPT !.down = j]
        BY <2>3, <2>5
      <3>2. /\ port'[q] \in PortRecords
            /\ port'[q].page = ps[q].page /\ port'[q].closed = ps[q].closed
            /\ port'[q].up = ps[q].up /\ port'[q].down = j
        BY <2>1, <2>2, <3>1 DEF PortRecords
      <3> QED BY <2>5, <3>2 DEF j
    <2> QED BY <2>4, <2>5
  <1>5. port' \in [Ports -> PortRecords]
    BY <1>1, <1>4
  <1> QED BY <1>3, <1>4, <1>5

\* The books depend on the ports only for what the ports that listen show.
LEMMA BooksKept ==
    ASSUME NEW x, Books(x), of' = of, cap' = cap,
           w' \in Workers, w'.state = x.state, w'.subs = x.subs, w'.stream = x.stream,
           w'.rebuild = x.rebuild, w'.reconnect = x.reconnect, w'.meta = x.meta,
           \A q \in Ports : x.meta[q] # None => port'[q].page = port[q].page
    PROVE  Books(w)'
  <1>1. Open(w)' = Open(x)
    BY DEF Open
  <1>2. \A d : Holders(w, d)' = Holders(x, d)
    BY DEF Holders, DocOf
  <1>3. StreamOK(w)' /\ Listed(w)'
    BY <1>1 DEF Books, StreamOK, Listed
  <1> QED BY <1>1, <1>2, <1>3 DEF Books

\* The port is what it was, or swept.
Waits(y, r, u, v) ==
    \/ u = NoPort /\ v.closed /\ y.meta[r] = None /\ y.out[r] = <<>>
    \/ /\ u.page = v.page /\ u.closed = v.closed /\ u.down = v.down
       /\ \A i \in DOMAIN u.up : u.up[i].t = "connect" =>
             i = 1 /\ v.up[1].t = "connect" /\ 1 \in DOMAIN v.up /\ y.meta[r] = None /\ y.out[r] = <<>>
       /\ v.page = None => u = v /\ y.meta[r] = None /\ y.out[r] = <<>>

\* Without a message to add, a port's messages stay as they are.
LEMMA NothingJoined == \A s \in Seq(DownMsgs) : Joined(s, <<>>) = s
  BY DEF Joined

\* A port's record is what its fields say.
LEMMA PortFields ==
    ASSUME NEW u \in PortRecords, NEW v \in PortRecords,
           u.page = v.page, u.closed = v.closed, u.up = v.up, u.down = v.down
    PROVE  u = v
  <1>1. u = [page |-> u.page, closed |-> u.closed, up |-> u.up, down |-> u.down]
    BY DEF PortRecords
  <1>2. v = [page |-> v.page, closed |-> v.closed, up |-> v.up, down |-> v.down]
    BY DEF PortRecords
  <1> QED BY <1>1, <1>2

\* A handler that returns with the books in order.
LEMMA WorkerStep ==
    ASSUME SyncAssumption, BooksInv, NEW y, Books(y), NEW ps \in [Ports -> PortRecords],
           Returns(y, ps), UNCHANGED <<of, cap, page, seq, log>>,
           \A r \in Ports : Waits(y, r, ps[r], port[r])
    PROVE  BooksInv'
  <1>0. y \in Workers /\ PagesOK /\ port \in [Ports -> PortRecords]
    BY BooksSay DEF BooksInv
  <1>1. /\ port' \in [Ports -> PortRecords]
        /\ w' \in Workers /\ w'.out = NewWorker.out
        /\ w'.state = y.state /\ w'.subs = y.subs /\ w'.stream = y.stream
        /\ w'.rebuild = y.rebuild /\ w'.reconnect = y.reconnect /\ w'.meta = y.meta
        /\ \A q \in Ports : /\ port'[q].page = ps[q].page /\ port'[q].closed = ps[q].closed
                            /\ port'[q].up = ps[q].up
                            /\ port'[q].down = IF ps[q].closed THEN ps[q].down
                                               ELSE Joined(ps[q].down, y.out[q])
    BY <1>0, ReturnsFacts
  <1>2. Books(w)'
    <2>1. \A q \in Ports : y.meta[q] # None => port'[q].page = port[q].page
      BY <1>1 DEF Waits
    <2> QED BY <1>1, <2>1, BooksKept
  <1>3. \A r \in Ports : PortOK(r)'
    <2> SUFFICES ASSUME NEW r \in Ports PROVE PortOK(r)'
      OBVIOUS
    <2>1. PortOK(r) /\ Waits(y, r, ps[r], port[r]) /\ ps[r] \in PortRecords /\ port[r] \in PortRecords
          /\ port'[r] \in PortRecords
      BY <1>0, <1>1 DEF BooksInv
    <2>2. /\ port'[r].page = ps[r].page /\ port'[r].closed = ps[r].closed /\ port'[r].up = ps[r].up
          /\ w'.meta[r] = y.meta[r]
          /\ ps[r].closed => port'[r].down = ps[r].down
          /\ ~ps[r].closed => port'[r].down = Joined(ps[r].down, y.out[r])
      BY <1>1
    <2>3. y.out[r] = <<>> => port'[r].down = ps[r].down
      BY <2>1, <2>2, NothingJoined DEF PortRecords
    <2>4. port'[r].down = ps[r].down => port'[r] = ps[r]
      BY <2>1, <2>2, PortFields
    <2>5. CASE ps[r] = NoPort /\ y.meta[r] = None /\ y.out[r] = <<>>
      <3>1. port'[r] = NoPort /\ w'.meta[r] = None
        BY <2>2, <2>3, <2>4, <2>5
      <3>2. NoPort.up = <<>> /\ NoPort.down = <<>>
        BY DEF NoPort
      <3> QED BY <3>1, <3>2 DEF PortOK, Dialling
    <2>6. CASE /\ ps[r].page = port[r].page /\ ps[r].closed = port[r].closed /\ ps[r].down = port[r].down
               /\ \A i \in DOMAIN ps[r].up : ps[r].up[i].t = "connect" =>
                     /\ i = 1 /\ port[r].up[1].t = "connect" /\ 1 \in DOMAIN port[r].up
                     /\ y.meta[r] = None /\ y.out[r] = <<>>
               /\ port[r].page = None => ps[r] = port[r] /\ y.meta[r] = None /\ y.out[r] = <<>>
      <3>1. port'[r].page = None => port'[r] = NoPort /\ w'.meta[r] = None
        BY <2>1, <2>2, <2>3, <2>4, <2>6 DEF PortOK
      <3>2. \A i \in DOMAIN port'[r].up : port'[r].up[i].t = "connect" => i = 1
        BY <2>2, <2>6
      <3>3. ASSUME NEW i \in DOMAIN port'[r].up, port'[r].up[i].t = "connect"
            PROVE  w'.meta[r] = None /\ port'[r].down = <<>>
        <4>1. y.meta[r] = None /\ y.out[r] = <<>> /\ Dialling(r)
          BY <2>2, <2>6, <3>3 DEF Dialling
        <4> QED BY <2>1, <2>2, <2>3, <2>6, <4>1 DEF PortOK
      <3> QED BY <3>1, <3>2, <3>3 DEF PortOK, Dialling
    <2> QED BY <2>1, <2>5, <2>6 DEF Waits
  <1>4. PagesOK'
    <2>1. /\ page' = page /\ page \in [Pages -> StreamPages]
          /\ \A p \in Pages : page[p].st = "on" <=> page[p].port # None
          /\ \A p \in Pages : page[p].st = "on" =>
                port[page[p].port].page = p /\ ~port[page[p].port].closed
      BY <1>0 DEF PagesOK
    <2>2. ASSUME NEW p \in Pages, page[p].st = "on"
          PROVE  port'[page[p].port].page = p /\ ~port'[page[p].port].closed
      <3>1. page[p].port \in Ports
        BY <2>1, <2>2 DEF StreamPages
      <3>2. Waits(y, page[p].port, ps[page[p].port], port[page[p].port])
        BY <3>1
      <3> QED BY <1>1, <2>1, <2>2, <3>1, <3>2 DEF Waits
    <2> QED BY <2>1, <2>2 DEF PagesOK
  <1>5. LogOK'
    BY DEF BooksInv, LogOK
  <1>6. (w.out = NewWorker.out)'
    BY <1>1 DEF NewWorker
  <1> QED BY <1>1, <1>2, <1>3, <1>4, <1>5, <1>6 DEF BooksInv

\* A port's page says that it is visible, or not.
Viewed(m, v) == [m EXCEPT !.visible = v]

\* Only what q has seen, and whether it is visible, and what it is sent may differ.
SameBut(x, y, q) ==
    /\ y \in Workers
    /\ y.state = x.state /\ y.reconnect = x.reconnect /\ y.rebuild = x.rebuild
    /\ y.subs = x.subs /\ y.stream = x.stream
    /\ \A r \in Ports : r # q => y.meta[r] = x.meta[r] /\ y.out[r] = x.out[r]
    /\ y.meta[q] # None /\ y.meta[q].sub = x.meta[q].sub /\ y.meta[q].cursored = x.meta[q].cursored

\* A port says whether its page is visible.
LEMMA ViewedFacts ==
    ASSUME SyncAssumption, NEW x \in Workers, NEW q \in Ports, x.meta[q] # None, NEW v \in BOOLEAN
    PROVE  LET y == [x EXCEPT !.meta[q].visible = v]
               m == x.meta[q]
           IN  /\ SameBut(x, y, q) /\ y.out = x.out
               /\ y.meta[q].visible = v /\ y.meta[q].seen = m.seen
  <1> DEFINE m == Viewed(x.meta[q], v)
             M == [x.meta EXCEPT ![q] = m]
             y == [x EXCEPT !.meta[q].visible = v]
  <1>1. x.meta[q] \in Metas
    BY DEF Workers
  <1>2. /\ m \in Metas /\ m.visible = v /\ m.sub = x.meta[q].sub
        /\ m.seen = x.meta[q].seen /\ m.cursored = x.meta[q].cursored
    BY <1>1 DEF Viewed, Metas
  <1>3. y = [x EXCEPT !.meta[q] = m]
    BY DEF Viewed, Workers
  <1> HIDE DEF m, y
  <1>4. M \in [Ports -> Metas \cup {None}] /\ M[q] = m /\ \A r \in Ports : r # q => M[r] = x.meta[r]
    BY <1>2 DEF Workers
  <1>5. y = [x EXCEPT !.meta = M]
    BY <1>3 DEF Workers
  <1> HIDE DEF M
  <1>6. /\ y \in Workers
        /\ y.state = x.state /\ y.reconnect = x.reconnect /\ y.rebuild = x.rebuild
        /\ y.subs = x.subs /\ y.stream = x.stream /\ y.out = x.out /\ y.meta = M
    BY <1>4, <1>5 DEF Workers
  <1>7. m # None
    BY <1>2 DEF SyncAssumption
  <1>8. SameBut(x, y, q)
    BY <1>2, <1>4, <1>6, <1>7 DEF SameBut
  <1> QED BY <1>2, <1>4, <1>6, <1>8 DEF y

\* What the worker knows of is a page's port.
LEMMA PortDocs ==
    ASSUME SyncAssumption, BooksInv
    PROVE  /\ cap \in Nat /\ cap > 0 /\ w \in Workers /\ Books(w)
           /\ \A q \in Ports : w.out[q] = <<>>
           /\ \A q \in Ports : port[q] \in PortRecords /\ PortOK(q)
           /\ \A q \in Ports : port[q].page # None => port[q].page \in Pages /\ DocOf(q) \in Docs
           /\ \A q \in Ports : w.meta[q] # None => port[q].page # None /\ DocOf(q) \in Docs
           /\ \A q \in Ports : Dialling(q) => w.meta[q] = None
           /\ \A p \in Pages : of[p] \in Docs
           /\ \A p \in Pages : page[p] \in StreamPages
  <1>1. cap \in Nat /\ cap > 0 /\ of \in [Pages -> Docs]
    BY DEF BooksInv, SyncAssumption
  <1>2. w.out = NewWorker.out /\ Books(w)
    BY DEF BooksInv
  <1>3. \A q \in Ports : w.out[q] = <<>>
    BY <1>2 DEF NewWorker
  <1>4. \A q \in Ports : port[q] \in PortRecords /\ PortOK(q)
    BY DEF BooksInv
  <1>5. \A q \in Ports : port[q].page # None => port[q].page \in Pages /\ DocOf(q) \in Docs
    BY <1>1, <1>4 DEF PortRecords, DocOf
  <1>6. \A q \in Ports : w.meta[q] # None => port[q].page # None
    BY <1>4 DEF PortOK
  <1>7. \A q \in Ports : Dialling(q) => w.meta[q] = None
    BY <1>4 DEF PortOK
  <1>8. \A p \in Pages : of[p] \in Docs /\ page[p] \in StreamPages
    BY <1>1 DEF BooksInv, PagesOK
  <1> QED BY <1>1, <1>2, <1>3, <1>4, <1>5, <1>6, <1>7, <1>8, BooksSay

\* Nothing is sent to a port the worker does not know.
Hush(x, y, r) == x.meta[r] = None => y.meta[r] = None /\ y.out[r] = <<>>

\* A port of which the worker changed nothing keeps what it waits for.
LEMMA HushWaits ==
    ASSUME SyncAssumption, BooksInv, NEW r \in Ports, NEW y, Hush(w, y, r)
    PROVE  Waits(y, r, port[r], port[r])
  <1>1. PortOK(r)
    BY PortDocs
  <1>2. \A i \in DOMAIN port[r].up : port[r].up[i].t = "connect" =>
           i = 1 /\ port[r].up[1].t = "connect" /\ 1 \in DOMAIN port[r].up /\ w.meta[r] = None
    BY <1>1 DEF PortOK, Dialling
  <1>3. port[r].page = None => w.meta[r] = None
    BY <1>1 DEF PortOK
  <1> QED BY <1>2, <1>3 DEF Waits, Hush

\* The first message of a port, and those behind it.
LEMMA UpTail ==
    ASSUME SyncAssumption, BooksInv, NEW q \in Ports, port[q].up # <<>>
    PROVE  LET ps == [port EXCEPT ![q].up = Tail(@)]
           IN  /\ ps \in [Ports -> PortRecords]
               /\ Head(port[q].up) \in UpMsgs /\ port[q].page # None
               /\ (Head(port[q].up).t = "connect" => Dialling(q))
               /\ \A r \in Ports : r # q => ps[r] = port[r]
               /\ ps[q].up = Tail(port[q].up) /\ ps[q].page = port[q].page
               /\ ps[q].closed = port[q].closed /\ ps[q].down = port[q].down
               /\ \A y : Waits(y, q, ps[q], port[q])
  <1> DEFINE up == port[q].up
             t == Tail(up)
             ps == [port EXCEPT ![q].up = Tail(@)]
             u == [port[q] EXCEPT !.up = t]
  <1>1. port \in [Ports -> PortRecords] /\ port[q] \in PortRecords /\ PortOK(q)
    BY PortDocs DEF BooksInv
  <1>2. up \in Seq(UpMsgs)
    BY <1>1 DEF PortRecords
  <1>3. /\ t \in Seq(UpMsgs) /\ Head(up) \in UpMsgs /\ Head(up) = up[1] /\ 1 \in DOMAIN up
        /\ \A i \in DOMAIN t : i + 1 \in DOMAIN up /\ t[i] = up[i + 1] /\ i + 1 # 1
    BY <1>2
  <1>4. port[q].page # None
    BY <1>1 DEF PortOK, NoPort
  <1>5. Head(up).t = "connect" => Dialling(q)
    BY <1>3 DEF Dialling
  <1>6. \A i \in DOMAIN t : t[i].t # "connect"
    BY <1>1, <1>3 DEF PortOK
  <1> HIDE DEF t
  <1>7. /\ u \in PortRecords /\ u.up = t /\ u.page = port[q].page
        /\ u.closed = port[q].closed /\ u.down = port[q].down
    BY <1>1, <1>3 DEF PortRecords
  <1>8. ps[q] = u /\ \A r \in Ports : r # q => ps[r] = port[r]
    BY <1>1 DEF t
  <1>9. ps = [port EXCEPT ![q] = u]
    BY DEF t
  <1> HIDE DEF u
  <1>10. ps \in [Ports -> PortRecords]
    BY <1>1, <1>7, <1>9
  <1> HIDE DEF ps
  <1>11. \A y : Waits(y, q, ps[q], port[q])
    BY <1>4, <1>6, <1>7, <1>8 DEF Waits
  <1> QED BY <1>3, <1>4, <1>5, <1>7, <1>8, <1>10, <1>11 DEF ps, t

\* What the worker makes of a page's message.
LEMMA HandledCases ==
    ASSUME SyncAssumption, BooksInv, NEW q \in Ports, NEW m \in UpMsgs,
           m.t = "connect" => Dialling(q) /\ port[q].page # None
    PROVE  LET y == Handled(w, q, m)
           IN  \/ m.t = "connect" /\ w.meta[q] = None /\ Connects(w, y, q, m.r, m.n)
               \/ m.t # "connect" /\ w.meta[q] = None /\ y = w
               \/ m.t = "unsubscribe" /\ w.meta[q] # None /\ y = Unsubscribe(w, q)
               \/ m.t = "visible" /\ w.meta[q] # None
                  /\ y = DeliverLatest([w EXCEPT !.meta[q].visible = TRUE], q)
               \/ m.t = "hidden" /\ w.meta[q] # None /\ y = [w EXCEPT !.meta[q].visible = FALSE]
  <1> DEFINE y == Handled(w, q, m)
  <1>1. m.t \in UpTypes /\ m.r \in BOOLEAN /\ m.n \in Nat
    BY DEF UpMsgs
  <1>2. CASE m.t = "connect"
    <2>1. y = Subscribe(Connected(w, q, m.r), q, m.n)
      BY <1>2 DEF Handled
    <2>2. w.meta[q] = None /\ DocOf(q) \in Docs /\ w.out[q] = <<>> /\ w \in Workers /\ cap \in Nat
      BY <1>2, PortDocs
    <2>3. IsFiniteSet(Open(w))
      BY PortDocs, BooksSay
    <2>4. Connects(w, Subscribe(Connected(w, q, m.r), q, m.n), q, m.r, m.n)
      BY <1>1, <2>2, <2>3, ConnectFacts
    <2> QED BY <1>2, <2>1, <2>2, <2>4
  <1>3. CASE m.t # "connect" /\ w.meta[q] = None
    <2>1. y = w
      BY <1>3 DEF Handled
    <2> QED BY <1>3, <2>1
  <1>4. CASE m.t = "unsubscribe" /\ w.meta[q] # None
    <2>1. y = Unsubscribe(w, q)
      BY <1>4 DEF Handled
    <2> QED BY <1>4, <2>1
  <1>5. CASE m.t = "visible" /\ w.meta[q] # None
    <2>1. y = DeliverLatest([w EXCEPT !.meta[q].visible = TRUE], q)
      BY <1>5 DEF Handled
    <2> QED BY <1>5, <2>1
  <1>6. CASE m.t = "hidden" /\ w.meta[q] # None
    <2>1. y = [w EXCEPT !.meta[q].visible = FALSE]
      BY <1>6 DEF Handled
    <2> QED BY <1>6, <2>1
  <1> QED BY <1>1, <1>2, <1>3, <1>4, <1>5, <1>6 DEF UpTypes

\* Frames repeated to a port that is visible again.
LEMMA VisibleFacts ==
    ASSUME SyncAssumption, NEW x \in Workers, NEW q \in Ports, x.meta[q] # None,
           x.meta[q].sub => DocOf(q) \in Docs /\ x.subs[DocOf(q)] # None
    PROVE  LET y == DeliverLatest([x EXCEPT !.meta[q].visible = TRUE], q)
               m == x.meta[q]
               sub == x.subs[DocOf(q)]
           IN  /\ SameBut(x, y, q) /\ y.meta[q].visible
               /\ ~m.sub => y.out[q] = x.out[q] /\ y.meta[q].seen = m.seen
               /\ m.sub => /\ y.out[q] = x.out[q] \o Repeats(sub, m.seen)
                           /\ y.meta[q].seen = Higher(m.seen, Latest(sub))
  <1> DEFINE m == x.meta[q]
             sub == x.subs[DocOf(q)]
             z == [x EXCEPT !.meta[q].visible = TRUE]
             y == DeliverLatest(z, q)
  <1>1. SameBut(x, z, q) /\ z.out = x.out /\ z.meta[q].visible /\ z.meta[q].seen = m.seen
    BY ViewedFacts
  <1> HIDE DEF z
  <1>2. /\ z \in Workers /\ z.meta[q] # None /\ z.meta[q].sub = m.sub /\ z.subs = x.subs
        /\ z.meta[q].cursored = m.cursored
    BY <1>1 DEF SameBut
  <1>3. z.meta[q].sub => DocOf(q) \in Docs /\ z.subs[DocOf(q)] # None
    BY <1>2
  <1> DEFINE s == z.subs[DocOf(q)]
  <1>4. /\ ~z.meta[q].sub \/ ~z.meta[q].visible => y = z
        /\ z.meta[q].sub /\ z.meta[q].visible =>
           /\ y \in Workers
           /\ y.state = z.state /\ y.reconnect = z.reconnect /\ y.rebuild = z.rebuild
           /\ y.subs = z.subs /\ y.stream = z.stream
           /\ y.meta = [z.meta EXCEPT ![q] = Repeated(@, Latest(s))]
           /\ y.out = [z.out EXCEPT ![q] = @ \o Repeats(s, z.meta[q].seen)]
    BY <1>2, <1>3, DeliverLatestFacts
  <1>5. s = sub
    BY <1>2
  <1> HIDE DEF y, s, sub
  <1>6. CASE ~m.sub
    <2>2. ~z.meta[q].sub
      BY <1>2, <1>6
    <2>3. ~z.meta[q].sub \/ ~z.meta[q].visible => y = z
      BY <1>4
    <2>1. y = z
      BY <2>2, <2>3
    <2> QED BY <1>1, <1>6, <2>1 DEF y, z
  <1>7. CASE m.sub
    <2> DEFINE f == Repeats(sub, m.seen)
               r == Repeated(z.meta[q], Latest(sub))
    <2>1. /\ y \in Workers
          /\ y.state = z.state /\ y.reconnect = z.reconnect /\ y.rebuild = z.rebuild
          /\ y.subs = z.subs /\ y.stream = z.stream
          /\ y.meta = [z.meta EXCEPT ![q] = r]
          /\ y.out = [z.out EXCEPT ![q] = @ \o f]
      BY <1>1, <1>2, <1>4, <1>5, <1>7
    <2>2. z.meta[q] \in Metas /\ Latest(sub) \in Nat
      <3>1. sub \in Subs
        BY <1>7 DEF sub, Workers
      <3> QED BY <1>2, <3>1, LatestFacts DEF Workers
    <2>3. /\ r # None /\ r.seen = Higher(z.meta[q].seen, Latest(sub))
          /\ r.cursored = z.meta[q].cursored /\ r.sub = z.meta[q].sub /\ r.visible = z.meta[q].visible
      BY <2>2, RepeatedFacts
    <2> HIDE DEF r, f
    <2>4. /\ \A p \in Ports : p # q => y.meta[p] = z.meta[p] /\ y.out[p] = z.out[p]
          /\ y.meta[q] = r /\ y.out[q] = z.out[q] \o f
      BY <1>2, <2>1 DEF Workers
    <2>5. SameBut(x, y, q)
      BY <1>1, <1>2, <2>1, <2>3, <2>4 DEF SameBut
    <2>6. y.meta[q].visible /\ y.meta[q].seen = Higher(m.seen, Latest(sub))
      BY <1>1, <2>3, <2>4
    <2>7. y.out[q] = x.out[q] \o f
      BY <1>1, <2>4
    <2> QED BY <1>7, <2>5, <2>6, <2>7 DEF y, z, sub, f
  <1> QED BY <1>6, <1>7

\* The books after a page's message.
LEMMA HandledBooks ==
    ASSUME SyncAssumption, BooksInv, NEW q \in Ports, NEW m \in UpMsgs,
           m.t = "connect" => Dialling(q) /\ port[q].page # None
    PROVE  LET y == Handled(w, q, m)
           IN  Books(y) /\ \A r \in Ports : r # q => Hush(w, y, r)
  <1> DEFINE y == Handled(w, q, m)
  <1>0. w \in Workers /\ Books(w) /\ cap \in Nat /\ \A r \in Ports : w.out[r] = <<>>
    BY PortDocs
  <1>1. CASE m.t = "connect" /\ w.meta[q] = None /\ Connects(w, y, q, m.r, m.n)
    <2>1. DocOf(q) \in Docs /\ m.r \in BOOLEAN /\ m.n \in Nat
      BY <1>1, PortDocs DEF UpMsgs
    <2> HIDE DEF y
    <2>2. Books(y)
      BY <1>0, <1>1, <2>1, ConnectBooks
    <2>3. \A r \in Ports : r # q => Hush(w, y, r)
      BY <1>0, <1>1 DEF Connects, OnlyPort, Hush
    <2> QED BY <2>2, <2>3 DEF y
  <1>2. CASE y = w
    BY <1>0, <1>2 DEF Hush
  <1>3. CASE w.meta[q] # None /\ y = Unsubscribe(w, q)
    <2>1. DocOf(q) \in Docs
      BY <1>3, PortDocs
    <2>2. Books(y)
      BY <1>0, <1>3, <2>1, UnsubscribeBooks
    <2>3. y = w \/ Leaves(w, y, q, DocOf(q))
      <3>1. Listens(w, q) => w.subs[DocOf(q)] # None
        BY <1>0, <2>1, BooksSay
      <3> QED BY <1>0, <1>3, <2>1, <3>1, UnsubscribeFacts DEF Listens
    <2>4. \A r \in Ports : r # q => Hush(w, y, r)
      <3>1. CASE y = w
        BY <1>0, <3>1 DEF Hush
      <3>2. CASE Leaves(w, y, q, DocOf(q))
        <4> HIDE DEF y
        <4>1. y.out = w.out /\ \A r \in Ports : r # q => y.meta[r] = w.meta[r]
          BY <1>0, <3>2 DEF Leaves, Workers
        <4> QED BY <1>0, <4>1 DEF Hush
      <3> QED BY <2>3, <3>1, <3>2
    <2> QED BY <2>2, <2>4
  <1>4. ASSUME w.meta[q] # None, SameBut(w, y, q)
        PROVE  Books(y) /\ \A r \in Ports : r # q => Hush(w, y, r)
    <2> HIDE DEF y
    <2>1. /\ y \in Workers
          /\ y.state = w.state /\ y.reconnect = w.reconnect /\ y.rebuild = w.rebuild
          /\ y.subs = w.subs /\ y.stream = w.stream
          /\ \A r \in Ports : r # q => y.meta[r] = w.meta[r] /\ y.out[r] = w.out[r]
          /\ y.meta[q] # None /\ y.meta[q].sub = w.meta[q].sub
      BY <1>4 DEF SameBut
    <2>2. \A r \in Ports : Listens(y, r) <=> Listens(w, r)
      BY <1>4, <2>1 DEF Listens
    <2>3. StreamOK(y) /\ Listed(y)
      <3>1. Open(y) = Open(w)
        BY <2>1 DEF Open
      <3> QED BY <1>0, <2>1, <3>1, BooksSay DEF StreamOK, Listed
    <2>4. Books(y)
      BY <1>0, <2>1, <2>2, <2>3, BooksAlike
    <2> QED BY <1>0, <2>1, <2>4 DEF Hush
  <1>5. CASE w.meta[q] # None /\ y = DeliverLatest([w EXCEPT !.meta[q].visible = TRUE], q)
    <2>1. w.meta[q].sub => DocOf(q) \in Docs /\ w.subs[DocOf(q)] # None
      <3>1. DocOf(q) \in Docs
        BY <1>5, PortDocs
      <3> QED BY <1>0, <1>5, <3>1, BooksSay DEF Listens
    <2>2. SameBut(w, DeliverLatest([w EXCEPT !.meta[q].visible = TRUE], q), q)
      BY <1>0, <1>5, <2>1, VisibleFacts
    <2>3. SameBut(w, y, q)
      BY <1>5, <2>2
    <2> QED BY <1>4, <1>5, <2>3
  <1>6. CASE w.meta[q] # None /\ y = [w EXCEPT !.meta[q].visible = FALSE]
    <2>1. SameBut(w, [w EXCEPT !.meta[q].visible = FALSE], q)
      BY <1>0, <1>6, ViewedFacts
    <2>2. SameBut(w, y, q)
      BY <1>6, <2>1
    <2> QED BY <1>4, <1>6, <2>2
  <1> QED
    <2> HIDE DEF y
    <2>1. \/ m.t = "connect" /\ w.meta[q] = None /\ Connects(w, y, q, m.r, m.n)
          \/ y = w
          \/ w.meta[q] # None /\ y = Unsubscribe(w, q)
          \/ w.meta[q] # None /\ y = DeliverLatest([w EXCEPT !.meta[q].visible = TRUE], q)
          \/ w.meta[q] # None /\ y = [w EXCEPT !.meta[q].visible = FALSE]
      BY HandledCases DEF y
    <2> QED BY <1>1, <1>2, <1>3, <1>5, <1>6, <2>1

\* The worker reads the next event of its stream.
Shorter(x) == [x EXCEPT !.stream.q = Tail(@)]

\* The books after the first event is taken from the stream.
LEMMA ShorterFacts ==
    ASSUME SyncAssumption, NEW x, Books(x), x.stream # None, x.stream.q # <<>>
    PROVE  LET y == Shorter(x)
               e == Head(x.stream.q)
           IN  /\ y \in Workers
               /\ y.state = x.state /\ y.reconnect = x.reconnect /\ y.rebuild = x.rebuild
               /\ y.subs = x.subs /\ y.meta = x.meta /\ y.out = x.out
               /\ y.stream # None /\ y.stream.docs = x.stream.docs /\ y.stream.asked = x.stream.asked
               /\ y.stream.joined = x.stream.joined /\ y.stream.q = Tail(x.stream.q)
               /\ Books(y) /\ Open(y) = Open(x) /\ e \in GoodEvents
  <1> DEFINE A == UNION {[ds -> Nat] : ds \in SUBSET Docs}
             s == x.stream
             t == Tail(s.q)
             u == [s EXCEPT !.q = t]
             y == Shorter(x)
  <1>1. x \in Workers /\ StreamOK(x) /\ Listed(x)
    BY BooksSay
  <1>2. s \in Streams /\ s.q \in Seq(GoodEvents)
    BY <1>1 DEF Workers, StreamOK
  <1>3. t \in Seq(GoodEvents) /\ Head(s.q) \in GoodEvents
    <2>1. s.q # <<>>
      OBVIOUS
    <2> HIDE DEF s
    <2> QED BY <1>2, <2>1, TailElems
  <1>4. t \in Seq(Events)
    <2>1. GoodEvents \subseteq Events
      BY DEF GoodEvents
    <2> HIDE DEF t
    <2> QED BY <1>3, <2>1
  <1>5. s \in [docs : SUBSET Docs, asked : A, joined : BOOLEAN, q : Seq(Events)]
    BY <1>2 DEF Streams
  <1>6. y = [x EXCEPT !.stream = u]
    BY <1>1 DEF Shorter, Workers
  <1> HIDE DEF A, t
  <1>7. /\ u \in [docs : SUBSET Docs, asked : A, joined : BOOLEAN, q : Seq(Events)]
        /\ u.docs = s.docs /\ u.asked = s.asked /\ u.joined = s.joined /\ u.q = t
    BY <1>4, <1>5
  <1> HIDE DEF u, s, y
  <1>8. u \in Streams /\ u # None
    <2>1. u \in Streams
      BY <1>7 DEF Streams, A
    <2> QED BY <2>1 DEF SyncAssumption
  <1>9. /\ y \in Workers
        /\ y.state = x.state /\ y.reconnect = x.reconnect /\ y.rebuild = x.rebuild
        /\ y.subs = x.subs /\ y.meta = x.meta /\ y.out = x.out /\ y.stream = u
    BY <1>1, <1>6, <1>8 DEF Workers
  <1>10. Open(y) = Open(x)
    BY <1>9 DEF Open
  <1>11. StreamOK(y) /\ Listed(y)
    <2>1. x.stream # None
      OBVIOUS
    <2> QED BY <1>1, <1>3, <1>7, <1>8, <1>9, <1>10, <2>1 DEF StreamOK, Listed, s
  <1>12. \A q \in Ports : Listens(y, q) <=> Listens(x, q)
    BY <1>9 DEF Listens
  <1>13. Books(y)
    BY <1>9, <1>11, <1>12, BooksAlike
  <1> QED BY <1>3, <1>7, <1>8, <1>9, <1>10, <1>13 DEF y, s, t

\* The books after the events of a document.
LEMMA RefusedBooks ==
    ASSUME SyncAssumption, cap \in Nat, NEW x, Books(x), NEW d \in Open(x)
    PROVE  Books(Refused(x, d))
  <1> DEFINE y == Refused(x, d)
             qs == x.subs[d].ports
  <1>1. /\ x \in Workers /\ d \in Docs /\ x.subs[d] # None
        /\ \A q \in Ports : q \in qs <=> Listens(x, q) /\ DocOf(q) = d
        /\ qs \subseteq Ports
    BY BooksSay
  <1>2. \A q \in qs : x.meta[q] # None /\ x.meta[q] \in Metas
    BY <1>1, BooksSay DEF Listens
  <1>3. /\ y \in Workers
        /\ y.state = x.state /\ y.reconnect = x.reconnect /\ y.rebuild
        /\ y.subs = [x.subs EXCEPT ![d] = None]
        /\ y.stream = Trimmed(x.stream, d)
        /\ \A q \in Ports : y.meta[q] = IF q \in qs THEN Quit(x.meta[q]) ELSE x.meta[q]
    <2>1. x \in Workers /\ d \in Docs /\ x.subs[d] # None /\ \A q \in x.subs[d].ports : x.meta[q] # None
      BY <1>1, <1>2
    <2>2. Refuses(x, y, d)
      BY <2>1, RefusedFacts
    <2> HIDE DEF y
    <2> QED BY <2>2 DEF Refuses
  <1> HIDE DEF y, qs
  <1>4. \A q \in qs : ~Quit(x.meta[q]).sub
    BY <1>2, MetaFacts
  <1>5. \A q \in Ports : Listens(y, q) <=> Listens(x, q) /\ q \notin qs
    BY <1>3, <1>4 DEF Listens
  <1>6. Books(y)
    BY <1>1, <1>3, <1>5, BooksLess DEF qs
  <1> QED BY <1>6 DEF y

\* After the host's answer for d.
LEMMA CursoredBooks ==
    ASSUME SyncAssumption, NEW x, Books(x), NEW d \in Open(x), NEW n \in Nat, NEW resync \in BOOLEAN
    PROVE  Books(Cursored(x, d, n, resync))
  <1> DEFINE y == Cursored(x, d, n, resync)
             qs == x.subs[d].ports
  <1>1. /\ x \in Workers /\ d \in Docs /\ x.subs[d] # None /\ x.subs[d] \in Subs
        /\ \A q \in Ports : q \in qs <=> Listens(x, q) /\ DocOf(q) = d
        /\ qs \subseteq Ports /\ StreamOK(x) /\ Listed(x)
    BY BooksSay
  <1>2. \A q \in qs : x.meta[q] # None /\ DocOf(q) = d /\ x.meta[q] \in Metas
    BY <1>1, BooksSay DEF Listens
  <1>3. /\ y \in Workers
        /\ y.state = x.state /\ y.reconnect = x.reconnect /\ y.rebuild = x.rebuild
        /\ y.stream = x.stream
        /\ y.subs = [x.subs EXCEPT ![d] = Answered(@, n, resync)]
        /\ \A q \in Ports : y.meta[q] = IF q \in qs THEN Resumed(x.meta[q]) ELSE x.meta[q]
    <2>1. \A q \in qs : x.meta[q] # None /\ DocOf(q) = d
      BY <1>2
    <2>2. Cursors(x, y, d, n, resync)
      BY <1>1, <2>1, CursoredFacts
    <2> HIDE DEF y
    <2> QED BY <2>2 DEF Cursors
  <1> HIDE DEF y
  <1>4. \A q \in qs : Resumed(x.meta[q]) # None /\ Resumed(x.meta[q]).sub = x.meta[q].sub
    BY <1>2, ResumedFacts
  <1>5. \A q \in Ports : Listens(y, q) <=> Listens(x, q)
    BY <1>2, <1>3, <1>4 DEF Listens
  <1>6. /\ y.subs[d] = Answered(x.subs[d], n, resync)
        /\ \A e \in Docs : e # d => y.subs[e] = x.subs[e]
    BY <1>1, <1>3 DEF Workers
  <1>7. y.subs[d] # None /\ y.subs[d].ports = x.subs[d].ports
    BY <1>1, <1>6, AnsweredFacts
  <1>8. Open(y) = Open(x)
    BY <1>1, <1>6, <1>7 DEF Open
  <1>9. StreamOK(y) /\ Listed(y)
    BY <1>1, <1>3, <1>8 DEF StreamOK, Listed
  <1>10. \A e \in Docs : /\ y.subs[e] = None <=> x.subs[e] = None
                         /\ x.subs[e] # None => y.subs[e].ports = x.subs[e].ports
    BY <1>1, <1>6, <1>7
  <1>11. Books(y)
    BY <1>3, <1>5, <1>9, <1>10, BooksAlike
  <1> QED BY <1>11 DEF y

\* After a frame of d.
LEMMA FramedBooks ==
    ASSUME SyncAssumption, NEW x, Books(x), NEW d \in Open(x), NEW n \in Nat, NEW k \in Kinds
    PROVE  Books(Framed(x, d, n, k))
  <1> DEFINE y == Framed(x, d, n, k)
             id == Higher(n, x.subs[d].since)
             qs == {q \in x.subs[d].ports : x.meta[q].visible}
  <1>1. /\ x \in Workers /\ d \in Docs /\ x.subs[d] # None /\ x.subs[d] \in Subs
        /\ \A q \in Ports : q \in x.subs[d].ports <=> Listens(x, q) /\ DocOf(q) = d
        /\ x.subs[d].ports \subseteq Ports /\ StreamOK(x) /\ Listed(x)
    BY BooksSay
  <1>2. \A q \in x.subs[d].ports : x.meta[q] # None /\ x.meta[q] \in Metas
    BY <1>1, BooksSay DEF Listens
  <1>3. /\ y \in Workers
        /\ y.state = x.state /\ y.reconnect = x.reconnect /\ y.rebuild = x.rebuild
        /\ y.stream = x.stream
        /\ y.subs = [x.subs EXCEPT ![d] = Fed(@, id, k)]
        /\ \A q \in Ports : y.meta[q] = IF q \in qs THEN Shown(x.meta[q], id) ELSE x.meta[q]
    <2>1. x \in Workers /\ d \in Docs /\ x.subs[d] # None /\ \A q \in x.subs[d].ports : x.meta[q] # None
      BY <1>1, <1>2
    <2>2. Feeds(x, y, d, n, k)
      BY <2>1, FramedFacts
    <2> HIDE DEF y
    <2> QED BY <2>2 DEF Feeds
  <1>4. id \in Nat /\ qs \subseteq x.subs[d].ports
    BY <1>1 DEF Subs, Higher
  <1> HIDE DEF y, id, qs
  <1>5. \A q \in qs : Shown(x.meta[q], id) # None /\ Shown(x.meta[q], id).sub = x.meta[q].sub
    BY <1>2, <1>4, FedFacts
  <1>6. \A q \in Ports : Listens(y, q) <=> Listens(x, q)
    BY <1>2, <1>3, <1>4, <1>5 DEF Listens
  <1>7. /\ y.subs[d] = Fed(x.subs[d], id, k)
        /\ \A e \in Docs : e # d => y.subs[e] = x.subs[e]
    BY <1>1, <1>3 DEF Workers
  <1>8. y.subs[d] # None /\ y.subs[d].ports = x.subs[d].ports
    <2>1. \A sub \in Subs : Fed(sub, id, k) # None /\ Fed(sub, id, k).ports = sub.ports
      BY <1>4, FedFacts
    <2> QED BY <1>1, <1>7, <2>1
  <1>9. Open(y) = Open(x)
    BY <1>1, <1>7, <1>8 DEF Open
  <1>10. StreamOK(y) /\ Listed(y)
    BY <1>1, <1>3, <1>9 DEF StreamOK, Listed
  <1>11. \A e \in Docs : /\ y.subs[e] = None <=> x.subs[e] = None
                         /\ x.subs[e] # None => y.subs[e].ports = x.subs[e].ports
    BY <1>1, <1>7, <1>8
  <1>12. Books(y)
    BY <1>3, <1>6, <1>10, <1>11, BooksAlike
  <1> QED BY <1>12 DEF y


\* The books after each of the worker's steps.
LEMMA HandleBooks == ASSUME SyncAssumption, BooksInv, NEW q \in Ports, Handle(q) PROVE BooksInv'
  <1> DEFINE m == Head(port[q].up)
             ps == [port EXCEPT ![q].up = Tail(@)]
             y == Handled(w, q, m)
  <1>1. port[q].up # <<>> /\ Returns(y, ps) /\ UNCHANGED <<of, cap, page, seq, log>>
    BY DEF Handle, hostVars
  <1>2. /\ ps \in [Ports -> PortRecords]
        /\ m \in UpMsgs /\ port[q].page # None
        /\ m.t = "connect" => Dialling(q)
        /\ \A r \in Ports : r # q => ps[r] = port[r]
        /\ Waits(y, q, ps[q], port[q])
    BY <1>1, UpTail
  <1> HIDE DEF m, ps
  <1>3. Books(y) /\ \A r \in Ports : r # q => Hush(w, y, r)
    BY <1>2, HandledBooks
  <1> HIDE DEF y
  <1>4. ASSUME NEW r \in Ports
        PROVE  Waits(y, r, ps[r], port[r])
    <2>1. CASE r = q
      BY <1>2, <2>1
    <2>2. CASE r # q
      <3>1. Waits(y, r, port[r], port[r])
        BY <1>3, <2>2, HushWaits
      <3> QED BY <1>2, <2>2, <3>1
    <2> QED BY <2>1, <2>2
  <1> QED BY <1>1, <1>2, <1>3, <1>4, WorkerStep

\* A port that goes takes its subscription along; nobody hears of it.
LEMMA DropPortQuiet ==
    ASSUME SyncAssumption, BooksInv, NEW q \in Ports, port[q].page # None
    PROVE  LET y == DropPort(w, q)
           IN  /\ Books(y) /\ y.meta[q] = None /\ y.out[q] = <<>>
               /\ \A r \in Ports : r # q => y.meta[r] = w.meta[r]
               /\ \A r \in Ports : Hush(w, y, r) /\ y.out[r] = <<>>
  <1> DEFINE y == DropPort(w, q)
             u == Unsubscribe(w, q)
  <1>1. w \in Workers /\ Books(w) /\ cap \in Nat /\ DocOf(q) \in Docs /\ \A r \in Ports : w.out[r] = <<>>
    BY PortDocs
  <1>2. Books(y) /\ Minus(u, y, q)
    <2>1. Listens(w, q) => DocOf(q) \in Docs
      BY <1>1
    <2>2. Books(w) /\ cap \in Nat
      BY <1>1
    <2> QED BY <2>1, <2>2, DropPortBooks
  <1>3. u = w \/ Leaves(w, u, q, DocOf(q))
    <2>1. Listens(w, q) => w.subs[DocOf(q)] # None
      BY <1>1, BooksSay
    <2> QED BY <1>1, <2>1, UnsubscribeFacts DEF Listens
  <1> HIDE DEF y, u
  <1>4. u.out = w.out /\ u \in Workers /\ \A r \in Ports : r # q => u.meta[r] = w.meta[r]
    BY <1>1, <1>3 DEF Leaves, Workers
  <1>5. y.out = u.out /\ y.meta[q] = None /\ \A r \in Ports : r # q => y.meta[r] = w.meta[r]
    BY <1>2, <1>4 DEF Workers, Minus
  <1> QED BY <1>1, <1>2, <1>4, <1>5 DEF Hush, y

\* A port whose page is gone is dropped.
LEMMA SweepBooks == ASSUME SyncAssumption, BooksInv, NEW q \in Ports, Sweep(q) PROVE BooksInv'
  <1> DEFINE ps == IF port[q].closed THEN [port EXCEPT ![q] = NoPort] ELSE port
             y == DropPort(w, q)
  <1>1. port[q].page # None /\ Returns(y, ps) /\ UNCHANGED <<of, cap, page, seq, log>>
    BY DEF Sweep, hostVars
  <1>2. /\ Books(y) /\ y.meta[q] = None /\ y.out[q] = <<>>
        /\ \A r \in Ports : Hush(w, y, r)
    BY <1>1, DropPortQuiet
  <1>3. port \in [Ports -> PortRecords] /\ NoPort \in PortRecords
    BY DEF BooksInv, NoPort, PortRecords
  <1>4. ps \in [Ports -> PortRecords]
    BY <1>3
  <1>5. /\ \A r \in Ports : r # q => ps[r] = port[r]
        /\ ps[q] = port[q] \/ (ps[q] = NoPort /\ port[q].closed)
    BY <1>3
  <1> HIDE DEF ps, y
  <1>6. ASSUME NEW r \in Ports
        PROVE  Waits(y, r, ps[r], port[r])
    <2>1. Waits(y, r, port[r], port[r])
      BY <1>2, HushWaits
    <2>2. CASE ps[r] = port[r]
      BY <2>1, <2>2
    <2>3. CASE r = q /\ ps[q] = NoPort /\ port[q].closed
      BY <1>2, <2>3 DEF Waits
    <2> QED BY <1>5, <2>2, <2>3
  <1> QED BY <1>1, <1>2, <1>4, <1>6, WorkerStep

\* A handler that moves no port's messages.
LEMMA QuietStep ==
    ASSUME SyncAssumption, BooksInv, NEW y, Books(y), Returns(y, port),
           UNCHANGED <<of, cap, page, seq, log>>, \A r \in Ports : Hush(w, y, r)
    PROVE  BooksInv'
  <1>1. port \in [Ports -> PortRecords]
    BY DEF BooksInv
  <1>2. \A r \in Ports : Waits(y, r, port[r], port[r])
    BY HushWaits
  <1> QED BY <1>1, <1>2, WorkerStep

\* Announcing a state is news for those the worker knows.
LEMMA AnnouncesHush ==
    ASSUME SyncAssumption, BooksInv, NEW y, NEW s, Announces(w, y, s), y.meta = w.meta
    PROVE  \A r \in Ports : Hush(w, y, r)
  BY PortDocs DEF Announces, Hush

\* A rebuild makes the stream list what is open.
LEMMA RebuildBooks == ASSUME SyncAssumption, BooksInv, Rebuild PROVE BooksInv'
  <1> DEFINE y == Rebuilt(w)
  <1>1. Returns(y, port) /\ UNCHANGED <<of, cap, page, seq, log>>
    BY DEF Rebuild, hostVars
  <1>2. w \in Workers /\ Books(w) /\ IsFiniteSet(Open(w))
    BY PortDocs, BooksSay
  <1>3. /\ y \in Workers
        /\ ~y.rebuild /\ ~y.reconnect
        /\ y.meta = w.meta /\ y.subs = w.subs
        /\ Open(w) = {} => y.state = "closed" /\ y.stream = None /\ Announces(w, y, "closed")
        /\ Open(w) # {} => /\ y.state = "connecting" /\ y.stream = NewStream(w)
                           /\ Announces(w, y, "connecting")
    BY <1>2, RebuiltFacts
  <1> HIDE DEF y
  <1>4. \A r \in Ports : Hush(w, y, r)
    BY <1>3, AnnouncesHush
  <1>5. Open(y) = Open(w)
    BY <1>3 DEF Open
  <1>6. StreamOK(y) /\ Listed(y)
    <2>1. CASE Open(w) = {}
      BY <1>3, <1>5, <2>1 DEF StreamOK, Listed
    <2>2. CASE Open(w) # {}
      <3> DEFINE s == NewStream(w)
      <3>1. s.docs = Open(w) /\ s.q = <<>> /\ DOMAIN s.asked = Open(w) /\ s # None
        BY <1>2, NewStreamFacts
      <3>2. y.stream = s
        BY <1>3, <2>2
      <3> HIDE DEF s
      <3>3. <<>> \in Seq(GoodEvents)
        OBVIOUS
      <3> QED BY <1>2, <1>5, <3>1, <3>2, <3>3 DEF StreamOK, Listed
    <2> QED BY <2>1, <2>2
  <1>7. \A q \in Ports : Listens(y, q) <=> Listens(w, q)
    BY <1>3 DEF Listens
  <1>8. Books(y)
    BY <1>2, <1>3, <1>6, <1>7, BooksAlike
  <1> QED BY <1>1, <1>4, <1>8, QuietStep

\* After a break a reconnection is due, so the stream need not list anything.
LEMMA BreakBooks == ASSUME SyncAssumption, BooksInv, Break PROVE BooksInv'
  <1> DEFINE y == Broken(w)
  <1>1. Returns(y, port) /\ UNCHANGED <<of, cap, page, seq, log>>
    BY DEF Break, hostVars
  <1>2. w \in Workers /\ Books(w)
    BY PortDocs
  <1>3. /\ y \in Workers
        /\ y.reconnect /\ y.meta = w.meta /\ y.subs = w.subs /\ y.stream = None
        /\ Announces(w, y, "connecting")
    BY <1>2, BrokenFacts
  <1> HIDE DEF y
  <1>4. \A r \in Ports : Hush(w, y, r)
    BY <1>3, AnnouncesHush
  <1>5. StreamOK(y) /\ Listed(y)
    BY <1>3 DEF StreamOK, Listed
  <1>6. \A q \in Ports : Listens(y, q) <=> Listens(w, q)
    BY <1>3 DEF Listens
  <1>7. Books(y)
    BY <1>2, <1>3, <1>5, <1>6, BooksAlike
  <1> QED BY <1>1, <1>4, <1>7, QuietStep

\* What the worker takes from its stream says only what an event can.
LEMMA ListenBooks == ASSUME SyncAssumption, BooksInv, Listen PROVE BooksInv'
  <1> DEFINE m == Head(w.stream.q)
             x == Shorter(w)
             y == TakeEvent(x, m)
  <1>1. /\ w.stream # None /\ w.stream.q # <<>>
        /\ Returns(y, port) /\ UNCHANGED <<of, cap, page, seq, log>>
    BY DEF Listen, hostVars, Shorter
  <1>2. w \in Workers /\ Books(w) /\ cap \in Nat
    BY PortDocs
  <1>3. /\ x \in Workers /\ Books(x) /\ x.meta = w.meta /\ x.out = w.out
        /\ x.state = w.state /\ x.subs = w.subs
        /\ x.stream # None /\ x.stream.docs = w.stream.docs
        /\ m \in GoodEvents
    BY <1>1, <1>2, ShorterFacts
  <1>4. x.stream.docs \subseteq Open(x)
    BY <1>3, BooksSay DEF StreamOK
  <1>5. \A r \in Ports : x.out[r] = <<>>
    BY <1>3, PortDocs
  <1>6. /\ m.t \in EventTypes /\ m.n \in Nat /\ m.r \in BOOLEAN
        /\ m.t # "open" => m.doc \in Docs
        /\ m.t = "frame" => m.k \in Kinds
    BY <1>3 DEF GoodEvents, Events
  <1>7. ASSUME NEW z, z = y, Books(z), \A r \in Ports : Hush(x, z, r)
        PROVE  BooksInv'
    <2>1. \A r \in Ports : Hush(w, z, r)
      BY <1>3, <1>7 DEF Hush
    <2> QED BY <1>1, <1>7, <2>1, QuietStep
  <1> HIDE DEF m, x
  <1>8. CASE m.t = "open"
    <2> DEFINE z == SetState(x, "open")
    <2>1. z = y
      BY <1>8 DEF TakeEvent
    <2>2. /\ z \in Workers /\ z.state = "open" /\ z.rebuild = x.rebuild /\ z.reconnect = x.reconnect
          /\ z.meta = x.meta /\ z.subs = x.subs /\ z.stream = x.stream
          /\ Announces(x, z, "open")
      <3>1. "open" \in States
        BY DEF States
      <3> QED BY <1>3, <3>1, SetStateFacts
    <2> HIDE DEF z
    <2>3. StreamOK(z) /\ Listed(z)
      <3>1. Open(z) = Open(x)
        BY <2>2 DEF Open
      <3> QED BY <1>3, <2>2, <3>1, BooksSay DEF StreamOK, Listed
    <2>4. \A q \in Ports : Listens(z, q) <=> Listens(x, q)
      BY <2>2 DEF Listens
    <2>5. Books(z)
      BY <1>3, <2>2, <2>3, <2>4, BooksAlike
    <2>6. \A r \in Ports : Hush(x, z, r)
      BY <1>5, <2>2 DEF Hush, Announces
    <2> QED BY <1>7, <2>1, <2>5, <2>6
  <1>9. CASE m.t # "open" /\ m.doc \notin x.stream.docs
    <2>1. x = y
      BY <1>9 DEF TakeEvent
    <2>2. \A r \in Ports : Hush(x, x, r)
      BY <1>5 DEF Hush
    <2> QED BY <1>3, <1>7, <2>1, <2>2
  <1>10. ASSUME m.t # "open", m.doc \in x.stream.docs
         PROVE  BooksInv'
    <2> DEFINE d == m.doc
    <2>1. /\ d \in Open(x) /\ d \in Docs /\ x.subs[d] # None
          /\ \A q \in Ports : q \in x.subs[d].ports <=> Listens(x, q) /\ DocOf(q) = d
          /\ x.subs[d].ports \subseteq Ports
      BY <1>3, <1>4, <1>10, BooksSay
    <2>2. \A q \in x.subs[d].ports : x.meta[q] # None /\ DocOf(q) = d
      BY <2>1 DEF Listens
    <2>3. CASE m.t = "error"
      <3> DEFINE z == Refused(x, d)
      <3>1. z = y
        BY <1>10, <2>3 DEF TakeEvent
      <3>2. Books(z)
        BY <1>2, <1>3, <2>1, RefusedBooks
      <3>3. Refuses(x, z, d)
        <4>1. x \in Workers /\ d \in Docs /\ x.subs[d] # None /\ \A q \in x.subs[d].ports : x.meta[q] # None
          BY <1>3, <2>1, <2>2
        <4> HIDE DEF d
        <4> QED BY <4>1, RefusedFacts
      <3> HIDE DEF z
      <3>4. \A r \in Ports : Hush(x, z, r)
        <4>1. \A q \in Ports : q \notin x.subs[d].ports => z.meta[q] = x.meta[q] /\ z.out[q] = x.out[q]
          BY <3>3 DEF Refuses
        <4> QED BY <1>5, <2>2, <4>1 DEF Hush
      <3> QED BY <1>7, <3>1, <3>2, <3>4
    <2>4. CASE m.t = "cursor"
      <3> DEFINE z == Cursored(x, d, m.n, m.r)
      <3>1. z = y
        BY <1>10, <2>4 DEF TakeEvent
      <3>2. Books(z)
        BY <1>3, <1>6, <2>1, CursoredBooks
      <3>3. Cursors(x, z, d, m.n, m.r)
        <4>1. m.n \in Nat /\ m.r \in BOOLEAN
          BY <1>6
        <4>2. x \in Workers /\ d \in Docs /\ x.subs[d] # None
          BY <1>3, <2>1
        <4> HIDE DEF d
        <4> QED BY <2>2, <4>1, <4>2, CursoredFacts
      <3> HIDE DEF z
      <3>4. \A r \in Ports : Hush(x, z, r)
        <4>1. \A q \in Ports : q \notin x.subs[d].ports => z.meta[q] = x.meta[q] /\ z.out[q] = x.out[q]
          BY <3>3 DEF Cursors
        <4> QED BY <1>5, <2>2, <4>1 DEF Hush
      <3> QED BY <1>7, <3>1, <3>2, <3>4
    <2>5. CASE m.t = "frame"
      <3> DEFINE z == Framed(x, d, m.n, m.k)
      <3>1. z = y
        BY <1>10, <2>5 DEF TakeEvent
      <3>2. Books(z)
        BY <1>3, <1>6, <2>1, <2>5, FramedBooks
      <3>3. Feeds(x, z, d, m.n, m.k)
        <4>1. m.n \in Nat /\ m.k \in Kinds
          BY <1>6, <2>5
        <4>2. \A q \in x.subs[d].ports : x.meta[q] # None
          BY <2>2
        <4> HIDE DEF d
        <4> QED BY <1>3, <2>1, <4>1, <4>2, FramedFacts
      <3> HIDE DEF z
      <3>4. \A r \in Ports : Hush(x, z, r)
        <4>1. \A q \in Ports : q \notin x.subs[d].ports => z.meta[q] = x.meta[q] /\ z.out[q] = x.out[q]
          BY <3>3 DEF Feeds
        <4> QED BY <1>5, <2>2, <4>1 DEF Hush
      <3> QED BY <1>7, <3>1, <3>2, <3>4
    <2> QED BY <1>6, <1>10, <2>3, <2>4, <2>5 DEF EventTypes
  <1> QED BY <1>8, <1>9, <1>10

-----------------------------------------------------------------------------
(* The host's steps keep the books.                                        *)

\* What a stream's parts are.
LEMMA StreamParts ==
    ASSUME NEW s \in Streams
    PROVE  /\ s.docs \subseteq Docs /\ s.joined \in BOOLEAN /\ s.q \in Seq(Events)
           /\ DOMAIN s.asked \subseteq Docs /\ \A d \in DOMAIN s.asked : s.asked[d] \in Nat
  <1> DEFINE A == UNION {[ds -> Nat] : ds \in SUBSET Docs}
  <1>1. \A a \in A : DOMAIN a \subseteq Docs /\ \A d \in DOMAIN a : a[d] \in Nat
    OBVIOUS
  <1>2. s \in [docs : SUBSET Docs, asked : A, joined : BOOLEAN, q : Seq(Events)]
    BY DEF Streams
  <1> HIDE DEF A
  <1>3. s.docs \in SUBSET Docs /\ s.joined \in BOOLEAN /\ s.q \in Seq(Events) /\ s.asked \in A
    BY <1>2
  <1> QED BY <1>1, <1>3

\* A stream with another queue.
Requeued(s, b, t) == [s EXCEPT !.joined = b, !.q = t]

\* A stream with another queue.
LEMMA StreamQueue ==
    ASSUME NEW s \in Streams, NEW b \in BOOLEAN, NEW t \in Seq(GoodEvents)
    PROVE  LET u == Requeued(s, b, t)
           IN  /\ u \in Streams
               /\ u.docs = s.docs /\ u.asked = s.asked /\ u.joined = b /\ u.q = t
  <1> DEFINE A == UNION {[ds -> Nat] : ds \in SUBSET Docs}
             u == Requeued(s, b, t)
  <1>1. t \in Seq(Events)
    <2>1. GoodEvents \subseteq Events
      BY DEF GoodEvents
    <2> QED BY <2>1
  <1>2. s \in [docs : SUBSET Docs, asked : A, joined : BOOLEAN, q : Seq(Events)]
    BY DEF Streams
  <1> HIDE DEF A
  <1>3. /\ u \in [docs : SUBSET Docs, asked : A, joined : BOOLEAN, q : Seq(Events)]
        /\ u.docs = s.docs /\ u.asked = s.asked /\ u.joined = b /\ u.q = t
    BY <1>1, <1>2 DEF Requeued
  <1> QED BY <1>3 DEF Streams, A

\* A step of the host that changes at most what is on its way in the stream.
LEMMA HostStep ==
    ASSUME SyncAssumption, BooksInv, w.stream # None, NEW b \in BOOLEAN, NEW t \in Seq(GoodEvents),
           w' = [w EXCEPT !.stream = Requeued(@, b, t)],
           UNCHANGED <<of, cap, page, port>>, LogOK'
    PROVE  BooksInv'
  <1> DEFINE u == Requeued(w.stream, b, t)
  <1>1. w \in Workers /\ Books(w) /\ StreamOK(w) /\ Listed(w)
    BY PortDocs, BooksSay
  <1>2. w.stream \in Streams
    BY <1>1 DEF Workers
  <1>3. /\ u \in Streams
        /\ u.docs = w.stream.docs /\ u.asked = w.stream.asked /\ u.joined = b /\ u.q = t
    BY <1>2, StreamQueue
  <1>4. w' = [w EXCEPT !.stream = u]
    BY <1>1
  <1> HIDE DEF u
  <1>5. /\ w' \in Workers /\ w'.out = w.out
        /\ w'.state = w.state /\ w'.subs = w.subs /\ w'.stream = u
        /\ w'.rebuild = w.rebuild /\ w'.reconnect = w.reconnect /\ w'.meta = w.meta
    BY <1>1, <1>3, <1>4 DEF Workers
  <1>6. Open(w)' = Open(w)
    BY <1>5 DEF Open
  <1>7. StreamOK(w)' /\ Listed(w)'
    BY <1>1, <1>3, <1>5, <1>6 DEF StreamOK, Listed
  <1>8. \A d : Holders(w, d)' = Holders(w, d)
    BY <1>5 DEF Holders, DocOf
  <1>9. Books(w)'
    BY <1>1, <1>5, <1>6, <1>7, <1>8 DEF Books
  <1>10. PagesOK' /\ \A q \in Ports : PortOK(q)'
    BY <1>5 DEF BooksInv, PagesOK, PortOK, Dialling, NoPort
  <1>11. (w.out = NewWorker.out)'
    BY <1>5 DEF BooksInv, NewWorker
  <1> QED BY <1>9, <1>10, <1>11 DEF BooksInv

\* What the host answers for one document.
LEMMA FramesOfFacts ==
    ASSUME LogOK, NEW d, NEW n
    PROVE  /\ FramesOf(d, n) \in Seq(GoodEvents)
           /\ Elems(FramesOf(d, n)) = {e \in Elems(log) : e.doc = d /\ e.n > n}
           /\ \A R : SortedBy(log, R) => SortedBy(FramesOf(d, n), R)
  <1> DEFINE I == {i \in DOMAIN log : log[i].doc = d /\ log[i].n > n}
  <1>1. log \in Seq(GoodEvents)
    BY DEF LogOK
  <1>2. /\ Pick(log, I) \in Seq(GoodEvents)
        /\ Elems(Pick(log, I)) = {log[i] : i \in I \cap (DOMAIN log)}
        /\ \A R : SortedBy(log, R) => SortedBy(Pick(log, I), R)
    BY <1>1, PickOrdered
  <1>3. {log[i] : i \in I \cap (DOMAIN log)} = {e \in Elems(log) : e.doc = d /\ e.n > n}
    BY DEF Elems
  <1> QED BY <1>2, <1>3 DEF FramesOf

\* Where an entry starts, and the answer it begins with.
Base(d) == IF w.stream.asked[d] = 0 THEN seq ELSE w.stream.asked[d]
Answered1(d, how) ==
    CASE how = "refused" -> Event("error", d, 0, None, FALSE)
      [] how = "resync"  -> Event("cursor", d, Base(d), None, TRUE)
      [] OTHER           -> Event("cursor", d, Base(d), None, FALSE)

\* The host's answer for one document is a refusal, or a cursor and what it replays.
LEMMA EntryFacts ==
    ASSUME LogOK, NEW d \in Docs, w.stream.asked[d] \in Nat, NEW how \in {"replay", "refused", "resync"}
    PROVE  /\ Base(d) \in Nat /\ Answered1(d, how) \in GoodEvents
           /\ Answered1(d, how).doc = d
           /\ Answered1(d, how).t = IF how = "refused" THEN "error" ELSE "cursor"
           /\ how # "refused" => Answered1(d, how).n = Base(d)
           /\ Answered1(d, how).r = (how = "resync")
           /\ how # "replay" => Entry(d, how) = <<Answered1(d, how)>>
           /\ how = "replay" => Entry(d, how) = <<Answered1(d, how)>> \o FramesOf(d, Base(d))
           /\ Entry(d, how) \in Seq(GoodEvents)
  <1> DEFINE a == Answered1(d, how)
             f == FramesOf(d, Base(d))
  <1>1. Base(d) \in Nat
    BY DEF Base, LogOK
  <1>2. /\ a \in GoodEvents /\ a.doc = d /\ a.t = IF how = "refused" THEN "error" ELSE "cursor"
        /\ how # "refused" => a.n = Base(d)
        /\ a.r = (how = "resync")
    <2>1. "error" \in EventTypes /\ "cursor" \in EventTypes
      BY DEF EventTypes
    <2>2. CASE how = "refused"
      <3>1. a = Event("error", d, 0, None, FALSE)
        BY <2>2 DEF Answered1
      <3> DEFINE e == Event("error", d, 0, None, FALSE)
      <3>2. e \in GoodEvents /\ e.t = "error" /\ e.doc = d /\ e.n = 0 /\ e.r = FALSE
        BY <2>1 DEF Event, GoodEvents, Events
      <3> HIDE DEF e
      <3>3. a = e
        BY <3>1 DEF e
      <3> HIDE DEF a
      <3> QED BY <2>2, <3>2, <3>3
    <2>3. CASE how = "resync"
      <3>1. a = Event("cursor", d, Base(d), None, TRUE)
        BY <2>3 DEF Answered1
      <3> DEFINE e == Event("cursor", d, Base(d), None, TRUE)
      <3>2. e \in GoodEvents /\ e.t = "cursor" /\ e.doc = d /\ e.n = Base(d) /\ e.r = TRUE
        BY <1>1, <2>1 DEF Event, GoodEvents, Events
      <3> HIDE DEF e
      <3>3. a = e
        BY <3>1 DEF e
      <3> HIDE DEF a
      <3> QED BY <2>3, <3>2, <3>3
    <2>4. CASE how = "replay"
      <3>1. a = Event("cursor", d, Base(d), None, FALSE)
        BY <2>4 DEF Answered1
      <3> DEFINE e == Event("cursor", d, Base(d), None, FALSE)
      <3>2. e \in GoodEvents /\ e.t = "cursor" /\ e.doc = d /\ e.n = Base(d) /\ e.r = FALSE
        BY <1>1, <2>1 DEF Event, GoodEvents, Events
      <3> HIDE DEF e
      <3>3. a = e
        BY <3>1 DEF e
      <3> HIDE DEF a
      <3> QED BY <2>4, <3>2, <3>3
    <2> QED BY <2>2, <2>3, <2>4
  <1>3. /\ how # "replay" => Entry(d, how) = <<a>>
        /\ how = "replay" => Entry(d, how) = <<a>> \o f
    BY DEF Entry, Base, Answered1
  <1>4. f \in Seq(GoodEvents)
    BY FramesOfFacts
  <1> HIDE DEF a, f
  <1>5. <<a>> \in Seq(GoodEvents)
    BY <1>2
  <1>6. <<a>> \o f \in Seq(GoodEvents)
    BY <1>4, <1>5
  <1> QED BY <1>1, <1>2, <1>3, <1>5, <1>6 DEF a, f

\* What the host answers.
LEMMA EntriesFacts ==
    ASSUME SyncAssumption, BooksInv, w.stream # None, NEW how \in [DOMAIN w.stream.asked -> Answers]
    PROVE  /\ Entries(how) \in Seq(GoodEvents)
           /\ \A e : e \in Elems(Entries(how)) <=> \E d \in DOMAIN how : e \in Elems(Entry(d, how[d]))
           /\ \A R :
                 /\ \A d \in DOMAIN how : SortedBy(Entry(d, how[d]), R)
                 /\ \A d, c \in DOMAIN how : d # c =>
                       \A e \in Elems(Entry(d, how[d])), f \in Elems(Entry(c, how[c])) : <<e, f>> \in R
                 => SortedBy(Entries(how), R)
  <1> DEFINE S == DOMAIN how
             some == [ds \in (SUBSET S) \ {{}} |-> CHOOSE d \in ds : TRUE]
             part == [d \in S |-> Entry(d, how[d])]
  <1>1. w \in Workers /\ StreamOK(w) /\ LogOK
    BY PortDocs, BooksSay DEF BooksInv
  <1>2. S = DOMAIN w.stream.asked /\ IsFiniteSet(S)
    BY <1>1 DEF StreamOK
  <1>3. S \subseteq Docs /\ \A d \in S : w.stream.asked[d] \in Nat
    <2>1. w.stream \in Streams
      BY <1>1 DEF Workers
    <2> QED BY <1>2, <2>1, StreamParts
  <1>4. \A d \in S : how[d] \in {"replay", "refused", "resync"}
    BY DEF Answers
  <1>5. \A d \in S : part[d] \in Seq(GoodEvents)
    <2> SUFFICES ASSUME NEW d \in S PROVE part[d] \in Seq(GoodEvents)
      OBVIOUS
    <2>1. part[d] = Entry(d, how[d])
      OBVIOUS
    <2>2. d \in Docs /\ w.stream.asked[d] \in Nat /\ how[d] \in {"replay", "refused", "resync"}
      BY <1>3, <1>4
    <2> HIDE DEF S, part
    <2>3. Entry(d, how[d]) \in Seq(GoodEvents)
      BY <1>1, <2>2, EntryFacts
    <2> QED BY <2>1, <2>3
  <1>6. Leads(S, some)
    BY DEF Leads
  <1>7. Entries(how) = Strung(S, some, part)
    BY DEF Entries
  <1>8. \A d \in S : part[d] = Entry(d, how[d])
    OBVIOUS
  <1> HIDE DEF some, part
  <1>9. ASSUME NEW R
        PROVE  LET r == Strung(S, some, part)
               IN  /\ r \in Seq(GoodEvents)
                   /\ \A e : e \in Elems(r) <=> \E x \in S : e \in Elems(part[x])
                   /\ Chained(S, some, part, R) => SortedBy(r, R)
    BY <1>2, <1>5, <1>6, StrungOrdered
  <1>10. ASSUME NEW R, \A d \in S : SortedBy(Entry(d, how[d]), R),
                \A d, c \in S : d # c =>
                   \A e \in Elems(Entry(d, how[d])), f \in Elems(Entry(c, how[c])) : <<e, f>> \in R
         PROVE  SortedBy(Entries(how), R)
    <2>1. Chained(S, some, part, R)
      BY <1>6, <1>8, <1>10 DEF Chained, Leads
    <2> QED BY <1>7, <1>9, <2>1
  <1> QED BY <1>7, <1>8, <1>9, <1>10

\* The host's answer is events of the documents the stream asked for.
LEMMA AcceptBooks == ASSUME SyncAssumption, BooksInv, Accept PROVE BooksInv'
  <1> DEFINE o == Event("open", None, 0, None, FALSE)
  <1>1. PICK how \in [DOMAIN w.stream.asked -> Answers] :
           w' = [w EXCEPT !.stream.joined = TRUE, !.stream.q = <<o>> \o Entries(how)]
    BY DEF Accept
  <1>2. w.stream # None /\ UNCHANGED <<of, cap, page, port>> /\ UNCHANGED <<seq, log>>
    BY DEF Accept, pageVars, hostVars
  <1> DEFINE t == <<o>> \o Entries(how)
  <1>3. Entries(how) \in Seq(GoodEvents)
    BY <1>2, EntriesFacts
  <1>4. o \in GoodEvents
    BY DEF Event, GoodEvents, Events, EventTypes
  <1> HIDE DEF o
  <1>5. t \in Seq(GoodEvents)
    <2>1. <<o>> \in Seq(GoodEvents)
      BY <1>4
    <2> QED BY <1>3, <2>1, ConcatElems
  <1> HIDE DEF t
  <1>6. w' = [w EXCEPT !.stream = Requeued(@, TRUE, t)]
    <2>1. w \in Workers /\ w.stream \in Streams
      BY <1>2, PortDocs DEF Workers
    <2>2. w' = [w EXCEPT !.stream.joined = TRUE, !.stream.q = t]
      BY <1>1 DEF t
    <2> QED BY <2>1, <2>2 DEF Requeued, Workers, Streams
  <1>7. LogOK'
    BY <1>2 DEF BooksInv, LogOK
  <1> QED BY <1>2, <1>5, <1>6, <1>7, HostStep

\* The log goes on in order.
LEMMA LogGrows ==
    ASSUME LogOK, NEW f \in GoodEvents, f.t = "frame", f.n = seq + 1,
           seq' = seq + 1, log' = Append(log, f)
    PROVE  LogOK' /\ Elems(log') = Elems(log) \cup {f}
  <1>1. /\ seq \in Nat \ {0} /\ log \in Seq(GoodEvents)
        /\ \A e \in Elems(log) : e.t = "frame" /\ e.n <= seq
        /\ \A i, j \in DOMAIN log : i < j => log[i].n < log[j].n
    BY DEF LogOK
  <1>2. log' \in Seq(GoodEvents) /\ Elems(log') = Elems(log) \cup {f}
    BY <1>1, AppendElems
  <1>3. /\ DOMAIN log' = 1 .. Len(log) + 1 /\ DOMAIN log = 1 .. Len(log) /\ Len(log) \in Nat
        /\ log'[Len(log) + 1] = f /\ \A i \in 1 .. Len(log) : log'[i] = log[i]
    BY <1>1
  <1>4. \A e \in Elems(log) : e.n \in Nat /\ e.n < seq + 1
    <2> SUFFICES ASSUME NEW e \in Elems(log) PROVE e.n \in Nat /\ e.n < seq + 1
      OBVIOUS
    <2>1. e \in GoodEvents
      BY <1>1 DEF Elems
    <2>2. e.n \in Nat
      BY <2>1 DEF GoodEvents, Events
    <2>3. e.n <= seq /\ seq \in Nat
      BY <1>1
    <2> QED BY <2>2, <2>3
  <1>5. ASSUME NEW i \in DOMAIN log', NEW j \in DOMAIN log', i < j
        PROVE  log'[i].n < log'[j].n
    <2>1. CASE j \in 1 .. Len(log)
      <3>1. i \in 1 .. Len(log)
        BY <1>3, <1>5, <2>1
      <3>2. i \in DOMAIN log /\ j \in DOMAIN log /\ log'[i] = log[i] /\ log'[j] = log[j]
        BY <1>3, <2>1, <3>1
      <3> QED BY <1>1, <1>5, <3>2
    <2>2. CASE j = Len(log) + 1
      <3>1. i \in 1 .. Len(log)
        BY <1>3, <1>5, <2>2
      <3>2. log[i] \in Elems(log)
        BY <1>3, <3>1 DEF Elems
      <3> QED BY <1>3, <1>4, <2>2, <3>1, <3>2
    <2> QED BY <1>3, <2>1, <2>2
  <1>6. seq' \in Nat \ {0} /\ \A e \in Elems(log') : e.t = "frame" /\ e.n <= seq'
    BY <1>1, <1>2, <1>4
  <1> QED BY <1>2, <1>5, <1>6 DEF LogOK

\* A published frame.
LEMMA PublishFacts ==
    ASSUME SyncAssumption, BooksInv, NEW d \in Docs, NEW k \in Kinds, Publish(d, k)
    PROVE  LET f == Event("frame", d, seq + 1, k, FALSE)
           IN  /\ f \in GoodEvents /\ f.t = "frame" /\ f.doc = d /\ f.n = seq + 1 /\ f.k = k
               /\ seq' = seq + 1 /\ log' = Append(log, f)
               /\ LogOK' /\ Elems(log') = Elems(log) \cup {f}
  <1> DEFINE f == Event("frame", d, seq + 1, k, FALSE)
  <1>1. seq \in Nat \ {0} /\ LogOK
    BY DEF BooksInv, LogOK
  <1>2. f \in GoodEvents /\ f.t = "frame" /\ f.doc = d /\ f.n = seq + 1 /\ f.k = k
    BY <1>1 DEF Event, GoodEvents, Events, EventTypes
  <1>3. seq' = seq + 1 /\ log' = Append(log, f)
    BY DEF Publish
  <1> HIDE DEF f
  <1>4. LogOK' /\ Elems(log') = Elems(log) \cup {f}
    BY <1>1, <1>2, <1>3, LogGrows
  <1> QED BY <1>2, <1>3, <1>4 DEF f

\* A frame published while the stream is joined is one more event in it.
LEMMA PublishBooks ==
    ASSUME SyncAssumption, BooksInv, NEW d \in Docs, NEW k \in Kinds, Publish(d, k) PROVE BooksInv'
  <1> DEFINE f == Event("frame", d, seq + 1, k, FALSE)
             t == Append(w.stream.q, f)
             due == w.stream # None /\ w.stream.joined /\ d \in DOMAIN w.stream.asked
  <1>1. f \in GoodEvents /\ LogOK'
    BY PublishFacts
  <1>2. UNCHANGED <<of, cap, page, port>> /\ w' = IF due THEN [w EXCEPT !.stream.q = t] ELSE w
    BY DEF Publish, pageVars
  <1> HIDE DEF f
  <1>3. CASE due
    <2>1. w \in Workers /\ StreamOK(w) /\ w.stream # None
      BY <1>3, PortDocs, BooksSay
    <2>2. w.stream \in Streams /\ w.stream.joined \in BOOLEAN /\ w.stream.q \in Seq(GoodEvents)
      <3>1. w.stream \in Streams
        BY <2>1 DEF Workers
      <3> QED BY <2>1, <3>1, StreamParts DEF StreamOK
    <2>3. t \in Seq(GoodEvents)
      BY <1>1, <2>2, AppendElems
    <2>4. w' = [w EXCEPT !.stream.q = t]
      BY <1>2, <1>3
    <2> HIDE DEF t
    <2>5. w' = [w EXCEPT !.stream = Requeued(@, w.stream.joined, t)]
      <3> DEFINE s == w.stream
      <3>1. [s EXCEPT !.q = t] = Requeued(s, s.joined, t)
        BY <2>2 DEF Requeued, Streams
      <3>2. w' = [w EXCEPT !.stream = [s EXCEPT !.q = t]]
        BY <2>1, <2>4 DEF Workers
      <3> QED BY <3>1, <3>2
    <2> QED BY <1>1, <1>2, <2>1, <2>2, <2>3, <2>5, HostStep
  <1>4. CASE ~due
    <2>1. w' = w
      BY <1>2, <1>4
    <2>2. Books(w)'
      <3>1. Open(w)' = Open(w) /\ \A c : Holders(w, c)' = Holders(w, c)
        BY <1>2, <2>1 DEF Open, Holders, DocOf
      <3>2. StreamOK(w)' /\ Listed(w)'
        BY <2>1, <3>1 DEF BooksInv, Books, StreamOK, Listed
      <3> QED BY <1>2, <2>1, <3>1, <3>2 DEF BooksInv, Books
    <2>3. PagesOK' /\ \A q \in Ports : PortOK(q)'
      BY <1>2, <2>1 DEF BooksInv, PagesOK, PortOK, Dialling, NoPort
    <2>4. (w.out = NewWorker.out)'
      BY <2>1 DEF BooksInv, NewWorker
    <2> QED BY <1>1, <1>2, <2>2, <2>3, <2>4 DEF BooksInv
  <1> QED BY <1>3, <1>4

-----------------------------------------------------------------------------
(* The pages' steps keep the books.                                        *)

\* A port of p's after one of its steps, and a port p opens.
Stirs(p, u, v) ==
    /\ u.page = p /\ v.page = p /\ v \in PortRecords
    /\ v.up = u.up \/ \E t \in UpTypes \ {"connect"} : v.up = Append(u.up, Say(t))
    /\ v.down = u.down \/ v.down = <<>> \/ (u.down # <<>> /\ v.down = Tail(u.down))

Dials(p, u, v) ==
    /\ u.page = None /\ v.page = p /\ v \in PortRecords /\ v.down = <<>> /\ ~v.closed
    /\ \E since \in Nat, vis \in BOOLEAN : v.up = <<Msg("connect", since, None, vis)>>

\* What a page says when it does not connect.
LEMMA SayFacts ==
    ASSUME NEW t \in UpTypes
    PROVE  Say(t) \in UpMsgs /\ Say(t).t = t /\ Say(t).n = 0
  BY DEF Say, Msg, UpMsgs

\* A connection is the first thing on its port after such a step, too.
LEMMA StirsOK ==
    ASSUME SyncAssumption, NEW p \in Pages, NEW u \in PortRecords, NEW v, Stirs(p, u, v),
           \A i \in DOMAIN u.up : u.up[i].t = "connect" => i = 1
    PROVE  /\ \A i \in DOMAIN v.up : v.up[i].t = "connect" => i = 1
           /\ \A i \in DOMAIN v.up : v.up[i].t = "connect" => i \in DOMAIN u.up /\ u.up[i].t = "connect"
  <1>1. u.up \in Seq(UpMsgs)
    BY DEF PortRecords
  <1>2. CASE v.up = u.up
    BY <1>2
  <1>3. CASE \E t \in UpTypes \ {"connect"} : v.up = Append(u.up, Say(t))
    <2>1. PICK t \in UpTypes \ {"connect"} : v.up = Append(u.up, Say(t))
      BY <1>3
    <2>2. Say(t) \in UpMsgs /\ Say(t).t # "connect"
      BY SayFacts
    <2>3. /\ DOMAIN v.up = 1 .. Len(u.up) + 1 /\ DOMAIN u.up = 1 .. Len(u.up) /\ Len(u.up) \in Nat
          /\ v.up[Len(u.up) + 1] = Say(t) /\ \A i \in 1 .. Len(u.up) : v.up[i] = u.up[i]
      BY <1>1, <2>1
    <2>4. ASSUME NEW i \in DOMAIN v.up, v.up[i].t = "connect"
          PROVE  i = 1 /\ i \in DOMAIN u.up /\ u.up[i].t = "connect"
      <3>1. i # Len(u.up) + 1
        BY <2>2, <2>3, <2>4
      <3>2. i \in DOMAIN u.up /\ v.up[i] = u.up[i]
        BY <2>3, <3>1
      <3> QED BY <2>4, <3>2
    <2> QED BY <2>4
  <1> QED BY <1>2, <1>3 DEF Stirs

\* A step of page p.
LEMMA PageStep ==
    ASSUME SyncAssumption, BooksInv, NEW p \in Pages, NEW pg \in StreamPages,
           page' = [page EXCEPT ![p] = pg], pg.st = "on" <=> pg.port # None,
           UNCHANGED <<of, cap, w, seq, log>>, port' \in [Ports -> PortRecords],
           \A r \in Ports : \/ port'[r] = port[r]
                            \/ Stirs(p, port[r], port'[r])
                            \/ Dials(p, port[r], port'[r]),
           pg.st = "on" => port'[pg.port].page = p /\ ~port'[pg.port].closed
    PROVE  BooksInv'
  <1>1. w \in Workers /\ Books(w) /\ PagesOK /\ port \in [Ports -> PortRecords]
    BY PortDocs DEF BooksInv
  <1>2. \A r \in Ports : w.meta[r] # None => port'[r].page = port[r].page
    BY PortDocs DEF Stirs, Dials
  <1>3. Books(w)'
    BY <1>1, <1>2, BooksKept
  <1>4. \A q \in Ports : PortOK(q)'
    <2> SUFFICES ASSUME NEW q \in Ports PROVE PortOK(q)'
      OBVIOUS
    <2>1. PortOK(q) /\ w' = w /\ NoPort' = NoPort /\ port[q] \in PortRecords /\ port'[q] \in PortRecords
      BY <1>1 DEF BooksInv, NoPort
    <2>2. CASE port'[q] = port[q]
      BY <2>1, <2>2 DEF PortOK, Dialling
    <2>3. CASE Stirs(p, port[q], port'[q])
      <3>1. port'[q].page # None
        BY <2>3 DEF Stirs, SyncAssumption
      <3>2. /\ \A i \in DOMAIN port'[q].up : port'[q].up[i].t = "connect" => i = 1
            /\ \A i \in DOMAIN port'[q].up : port'[q].up[i].t = "connect" =>
                  i \in DOMAIN port[q].up /\ port[q].up[i].t = "connect"
        <4>1. \A i \in DOMAIN port[q].up : port[q].up[i].t = "connect" => i = 1
          BY <2>1 DEF PortOK
        <4> QED BY <2>1, <2>3, <4>1, StirsOK
      <3>3. Dialling(q)' => Dialling(q)
        BY <3>2 DEF Dialling
      <3>4. Dialling(q)' => w'.meta[q] = None /\ port'[q].down = <<>>
        BY <2>1, <2>3, <3>3 DEF PortOK, Stirs
      <3> QED BY <3>1, <3>2, <3>4 DEF PortOK
    <2>4. CASE Dials(p, port[q], port'[q])
      <3>1. PICK since \in Nat, vis \in BOOLEAN : port'[q].up = <<Msg("connect", since, None, vis)>>
        BY <2>4 DEF Dials
      <3>2. port'[q].page # None /\ port'[q].down = <<>> /\ w'.meta[q] = None
        BY <2>1, <2>4 DEF Dials, PortOK, SyncAssumption
      <3>3. \A i \in DOMAIN port'[q].up : i = 1
        BY <3>1
      <3> QED BY <3>2, <3>3 DEF PortOK
    <2> QED BY <2>2, <2>3, <2>4
  <1>5. PagesOK'
    <2>1. /\ page \in [Pages -> StreamPages]
          /\ \A r \in Pages : page[r].st = "on" <=> page[r].port # None
          /\ \A r \in Pages : page[r].st = "on" =>
                port[page[r].port].page = r /\ ~port[page[r].port].closed
      BY <1>1 DEF PagesOK
    <2>2. page' \in [Pages -> StreamPages] /\ page'[p] = pg /\ \A r \in Pages : r # p => page'[r] = page[r]
      BY <2>1
    <2>3. \A r \in Pages : page'[r].st = "on" <=> page'[r].port # None
      BY <2>1, <2>2
    <2>4. ASSUME NEW r \in Pages, page'[r].st = "on"
          PROVE  port'[page'[r].port].page = r /\ ~port'[page'[r].port].closed
      <3>1. CASE r = p
        BY <2>2, <2>4, <3>1
      <3>2. CASE r # p
        <4>1. page'[r] = page[r] /\ page[r].st = "on"
          BY <2>2, <2>4, <3>2
        <4> DEFINE q == page[r].port
        <4>2. q \in Ports /\ port[q].page = r /\ ~port[q].closed
          BY <2>1, <4>1 DEF StreamPages
        <4>3. port'[q] = port[q]
          BY <3>2, <4>2 DEF Stirs, Dials, SyncAssumption
        <4> QED BY <4>1, <4>2, <4>3
      <3> QED BY <3>1, <3>2
    <2> QED BY <2>2, <2>3, <2>4 DEF PagesOK
  <1>6. LogOK' /\ (w.out = NewWorker.out)'
    BY DEF BooksInv, LogOK, NewWorker
  <1> QED BY <1>3, <1>4, <1>5, <1>6 DEF BooksInv

\* The page's port, and what becomes of it.
LEMMA PagePort ==
    ASSUME SyncAssumption, BooksInv, NEW p \in Pages
    PROVE  /\ page[p] \in StreamPages
           /\ page[p].st = "on" <=> page[p].port # None
           /\ page[p].st = "on" => LET q == page[p].port
                                   IN  /\ q \in Ports /\ port[q] \in PortRecords
                                       /\ port[q].page = p /\ ~port[q].closed
  <1>1. /\ page \in [Pages -> StreamPages]
        /\ page[p].st = "on" <=> page[p].port # None
        /\ page[p].st = "on" => port[page[p].port].page = p /\ ~port[page[p].port].closed
    BY DEF BooksInv, PagesOK
  <1>2. page[p].port \in Ports \cup {None}
    BY <1>1 DEF StreamPages
  <1> QED BY <1>1, <1>2, PortDocs

Tells(u, t) == [u EXCEPT !.up = Append(@, Say(t))]
Dies(u) == [u EXCEPT !.closed = TRUE, !.down = <<>>]
Hears(u) == [u EXCEPT !.down = Tail(@)]

\* Each thing a page does to its port leaves it with a connection only in front.
LEMMA PortMoves ==
    ASSUME SyncAssumption, NEW p \in Pages, NEW u \in PortRecords, u.page = p
    PROVE  /\ \A t \in UpTypes \ {"connect"} :
                 LET v == Tells(u, t)
                 IN  Stirs(p, u, v) /\ v.closed = u.closed /\ v.down = u.down /\ v.up = Append(u.up, Say(t))
           /\ LET v == HungUp(u)
              IN  Stirs(p, u, v) /\ v.closed /\ v.down = <<>> /\ v.up = Append(u.up, Say("unsubscribe"))
           /\ LET v == Dies(u)
              IN  Stirs(p, u, v) /\ v.closed /\ v.down = <<>> /\ v.up = u.up
           /\ u.down # <<>> =>
              /\ LET v == Hears(u)
                 IN  Stirs(p, u, v) /\ v.closed = u.closed /\ v.down = Tail(u.down) /\ v.up = u.up
              /\ LET v == HungUp(Hears(u))
                 IN  Stirs(p, u, v) /\ v.closed /\ v.down = <<>> /\ v.up = Append(u.up, Say("unsubscribe"))
  <1>1. u.up \in Seq(UpMsgs) /\ u.down \in Seq(DownMsgs) /\ <<>> \in Seq(DownMsgs)
    BY DEF PortRecords
  <1>2. ASSUME NEW t \in UpTypes
        PROVE  Append(u.up, Say(t)) \in Seq(UpMsgs)
    <2>1. Say(t) \in UpMsgs
      BY SayFacts
    <2> QED BY <1>1, <2>1
  <1>3. ASSUME NEW t \in UpTypes \ {"connect"}
        PROVE  LET v == Tells(u, t)
               IN  Stirs(p, u, v) /\ v.closed = u.closed /\ v.down = u.down /\ v.up = Append(u.up, Say(t))
    <2> DEFINE v == Tells(u, t)
               a == Append(u.up, Say(t))
    <2>1. a \in Seq(UpMsgs)
      BY <1>2
    <2>2. v = [u EXCEPT !.up = a]
      BY DEF Tells
    <2> HIDE DEF a, v
    <2>3. v \in PortRecords /\ v.page = u.page /\ v.closed = u.closed /\ v.down = u.down /\ v.up = a
      BY <2>1, <2>2 DEF PortRecords
    <2> QED BY <2>3 DEF Stirs, v, a
  <1>4. ASSUME NEW x \in PortRecords, x.page = p, x.up = u.up, x.closed = u.closed
        PROVE  LET v == HungUp(x)
               IN  Stirs(p, u, v) /\ v.closed /\ v.down = <<>> /\ v.up = Append(u.up, Say("unsubscribe"))
    <2> DEFINE v == HungUp(x)
               a == Append(u.up, Say("unsubscribe"))
    <2>0. "unsubscribe" \in UpTypes \ {"connect"}
      BY DEF UpTypes
    <2>1. a \in Seq(UpMsgs)
      BY <1>2, <2>0
    <2>2. v = [x EXCEPT !.closed = TRUE, !.down = <<>>, !.up = a]
      BY <1>4 DEF HungUp
    <2> HIDE DEF a, v
    <2>3. v \in PortRecords /\ v.page = p /\ v.closed /\ v.down = <<>> /\ v.up = a
      BY <1>1, <1>4, <2>1, <2>2 DEF PortRecords
    <2> QED BY <2>0, <2>3 DEF Stirs, v, a
  <1>5. LET v == Dies(u)
        IN  Stirs(p, u, v) /\ v.closed /\ v.down = <<>> /\ v.up = u.up
    <2> DEFINE v == Dies(u)
    <2>1. v \in PortRecords /\ v.page = p /\ v.closed /\ v.down = <<>> /\ v.up = u.up
      BY <1>1 DEF PortRecords, Dies
    <2> QED BY <2>1 DEF Stirs
  <1>6. ASSUME u.down # <<>>
        PROVE  LET v == Hears(u)
               IN  /\ Stirs(p, u, v) /\ v.closed = u.closed /\ v.down = Tail(u.down) /\ v.up = u.up
                   /\ v \in PortRecords /\ v.page = p
    <2> DEFINE v == Hears(u)
               a == Tail(u.down)
    <2>1. a \in Seq(DownMsgs)
      BY <1>1, <1>6
    <2>2. v = [u EXCEPT !.down = a]
      BY DEF Hears
    <2> HIDE DEF a, v
    <2>3. v \in PortRecords /\ v.page = p /\ v.closed = u.closed /\ v.down = a /\ v.up = u.up
      BY <2>1, <2>2 DEF PortRecords
    <2> QED BY <1>6, <2>3 DEF Stirs, v, a
  <1>7. ASSUME u.down # <<>>
        PROVE  LET v == HungUp(Hears(u))
               IN  Stirs(p, u, v) /\ v.closed /\ v.down = <<>> /\ v.up = Append(u.up, Say("unsubscribe"))
    <2> DEFINE x == Hears(u)
    <2>1. x \in PortRecords /\ x.page = p /\ x.up = u.up /\ x.closed = u.closed
      BY <1>6, <1>7
    <2> HIDE DEF x
    <2>2. LET v == HungUp(x)
          IN  Stirs(p, u, v) /\ v.closed /\ v.down = <<>> /\ v.up = Append(u.up, Say("unsubscribe"))
      BY <1>4, <2>1
    <2> QED BY <2>2 DEF x
  <1>8. LET v == HungUp(u)
        IN  Stirs(p, u, v) /\ v.closed /\ v.down = <<>> /\ v.up = Append(u.up, Say("unsubscribe"))
    BY <1>4
  <1> QED BY <1>3, <1>5, <1>6, <1>7, <1>8

\* A new port.
Call(p, visible) == [page |-> p, closed |-> FALSE, down |-> <<>>,
                     up |-> <<Msg("connect", page[p].since, None, visible)>>]

\* The port a page has just opened.
LEMMA CallFacts ==
    ASSUME SyncAssumption, NEW p \in Pages, page[p].since \in Nat, NEW v \in BOOLEAN,
           NEW u, u.page = None
    PROVE  LET c == Call(p, v)
           IN  /\ Dials(p, u, c) /\ c \in PortRecords /\ ~c.closed /\ c.page = p
               /\ c.down = <<>> /\ c.up = <<Msg("connect", page[p].since, None, v)>>
  <1> DEFINE m == Msg("connect", page[p].since, None, v)
             s == <<m>>
             c == Call(p, v)
  <1>1. m \in UpMsgs
    BY DEF Msg, UpMsgs, UpTypes
  <1>2. c = [page |-> p, closed |-> FALSE, down |-> <<>>, up |-> s] /\ <<>> \in Seq(DownMsgs)
    BY DEF Call
  <1>3. s \in Seq(UpMsgs)
    <2> HIDE DEF m
    <2> QED BY <1>1
  <1>4. s = <<Msg("connect", page[p].since, None, v)>>
    OBVIOUS
  <1> HIDE DEF s, c
  <1>5. c \in PortRecords /\ ~c.closed /\ c.page = p /\ c.down = <<>> /\ c.up = s
    BY <1>2, <1>3 DEF PortRecords
  <1> QED BY <1>4, <1>5 DEF Dials, c

\* The page that asks for its stream through q.
LEMMA OpeningFacts ==
    ASSUME SyncAssumption, NEW p \in Pages, page[p] \in StreamPages, NEW q \in Ports
    PROVE  LET g == Opening(p, q)
           IN  /\ g \in StreamPages /\ g.st = "on" /\ g.port = q /\ g.port # None /\ ~g.ready
               /\ g.last = 0 /\ g.since = page[p].since /\ g.hidden = page[p].hidden
               /\ g.repair = page[p].repair /\ g.startup = page[p].startup /\ g.got = page[p].got
  BY DEF Opening, StreamPages, PageStates, SyncAssumption

\* What each step of a page makes of it and of the ports.
Opens1(p, q, g, v) ==
    /\ port[q].page = None
    /\ page' = [page EXCEPT ![p] = g]
    /\ port' = [port EXCEPT ![q] = Call(p, v)]

\* A page starts its stream.
LEMMA StartFacts ==
    ASSUME SyncAssumption, BooksInv, NEW p \in Pages, NEW q \in Ports, Start(p, q)
    PROVE  /\ page[p].st = "away"
           /\ Opens1(p, q, Opening(p, q), ~page[p].hidden)
           /\ UNCHANGED <<of, cap, w, seq, log>>
  BY DEF Start, FreePorts, Dialled, Call, hostVars, Opens1

\* A suspended page asks for its stream again.
LEMMA ResumeFacts ==
    ASSUME SyncAssumption, BooksInv, NEW p \in Pages, NEW q \in Ports, Resume(p, q)
    PROVE  /\ page[p].st = "suspended"
           /\ Opens1(p, q, [Opening(p, q) EXCEPT !.hidden = FALSE], TRUE)
           /\ UNCHANGED <<of, cap, w, seq, log>>
  BY DEF Resume, FreePorts, Dialled, Call, hostVars, Opens1

\* A page opens a port it did not have.
LEMMA OpenBooks ==
    ASSUME SyncAssumption, BooksInv, NEW p \in Pages, NEW q \in Ports, NEW g \in StreamPages,
           NEW v \in BOOLEAN, page[p].st # "on", g.st = "on", g.port = q,
           Opens1(p, q, g, v), UNCHANGED <<of, cap, w, seq, log>>
    PROVE  BooksInv'
  <1>1. page[p].since \in Nat /\ port \in [Ports -> PortRecords]
    BY PortDocs DEF BooksInv, StreamPages
  <1> DEFINE c == Call(p, v)
  <1>2. Dials(p, port[q], c) /\ c \in PortRecords /\ ~c.closed /\ c.page = p
    BY <1>1, CallFacts DEF Opens1
  <1>3. page' = [page EXCEPT ![p] = g] /\ port' = [port EXCEPT ![q] = c]
    BY DEF Opens1
  <1> HIDE DEF c
  <1>4. /\ port' \in [Ports -> PortRecords]
        /\ port'[q] = c /\ \A r \in Ports : r # q => port'[r] = port[r]
    BY <1>1, <1>2, <1>3
  <1>5. g.port # None /\ port'[g.port].page = p /\ ~port'[g.port].closed
    BY <1>2, <1>4 DEF SyncAssumption
  <1>6. \A r \in Ports : \/ port'[r] = port[r]
                         \/ Stirs(p, port[r], port'[r])
                         \/ Dials(p, port[r], port'[r])
    BY <1>2, <1>4
  <1> QED BY <1>3, <1>4, <1>5, <1>6, PageStep

\* A step of a page that has port o and keeps or gives it up.
Moves1(p, g, v) ==
    /\ page' = [page EXCEPT ![p] = g]
    /\ port' = [port EXCEPT ![page[p].port] = v]

\* A page does something on the port it has, or gives it up.
LEMMA MoveBooks ==
    ASSUME SyncAssumption, BooksInv, NEW p \in Pages, NEW g \in StreamPages, NEW v,
           page[p].st = "on", Stirs(p, port[page[p].port], v),
           g.st = "on" <=> g.port # None,
           g.st = "on" => g.port = page[p].port /\ v.closed = port[page[p].port].closed,
           Moves1(p, g, v), UNCHANGED <<of, cap, w, seq, log>>
    PROVE  BooksInv'
  <1> DEFINE o == page[p].port
  <1>1. o \in Ports /\ port[o].page = p /\ ~port[o].closed
    BY PagePort
  <1>2. port \in [Ports -> PortRecords] /\ v \in PortRecords /\ v.page = p
    BY DEF BooksInv, Stirs
  <1>3. page' = [page EXCEPT ![p] = g] /\ port' = [port EXCEPT ![o] = v]
    BY DEF Moves1
  <1>4. g.st = "on" => g.port = o /\ v.closed = port[o].closed
    OBVIOUS
  <1>5. Stirs(p, port[o], v)
    OBVIOUS
  <1> HIDE DEF o
  <1>6. /\ port' \in [Ports -> PortRecords]
        /\ port'[o] = v /\ \A r \in Ports : r # o => port'[r] = port[r]
    BY <1>1, <1>2, <1>3
  <1>7. g.st = "on" => port'[g.port].page = p /\ ~port'[g.port].closed
    BY <1>1, <1>2, <1>4, <1>6
  <1>8. \A r \in Ports : \/ port'[r] = port[r]
                         \/ Stirs(p, port[r], port'[r])
                         \/ Dials(p, port[r], port'[r])
    BY <1>5, <1>6
  <1> QED BY <1>3, <1>6, <1>7, <1>8, PageStep

\* A page's steps.
LEMMA StartBooks ==
    ASSUME SyncAssumption, BooksInv, NEW p \in Pages, NEW q \in Ports, Start(p, q) PROVE BooksInv'
  <1> DEFINE g == Opening(p, q)
  <1>1. page[p].st # "on" /\ Opens1(p, q, g, ~page[p].hidden) /\ UNCHANGED <<of, cap, w, seq, log>>
    BY StartFacts
  <1>2. page[p] \in StreamPages /\ (~page[p].hidden) \in BOOLEAN
    <2>1. page[p] \in StreamPages
      BY PortDocs
    <2> QED BY <2>1 DEF StreamPages
  <1>3. g \in StreamPages /\ g.st = "on" /\ g.port = q
    BY <1>2, OpeningFacts
  <1> HIDE DEF g
  <1> QED BY <1>1, <1>2, <1>3, OpenBooks

\* A page that returns dials as one that starts.
LEMMA ResumeBooks ==
    ASSUME SyncAssumption, BooksInv, NEW p \in Pages, NEW q \in Ports, Resume(p, q) PROVE BooksInv'
  <1> DEFINE o == Opening(p, q)
             g == [o EXCEPT !.hidden = FALSE]
  <1>1. page[p].st # "on" /\ Opens1(p, q, g, TRUE) /\ UNCHANGED <<of, cap, w, seq, log>>
    BY ResumeFacts
  <1>2. page[p] \in StreamPages
    BY PortDocs
  <1>3. o \in StreamPages /\ o.st = "on" /\ o.port = q
    BY <1>2, OpeningFacts
  <1> HIDE DEF o
  <1>4. g \in StreamPages /\ g.st = "on" /\ g.port = q
    BY <1>3 DEF StreamPages
  <1> HIDE DEF g
  <1> QED BY <1>1, <1>4, OpenBooks

\* What becomes of the page and of its port when it does not open another.
LEMMA HideFacts ==
    ASSUME SyncAssumption, BooksInv, NEW p \in Pages, Hide(p)
    PROVE  /\ page[p].st = "on" /\ UNCHANGED <<of, cap, w, seq, log>>
           /\ Moves1(p, [page[p] EXCEPT !.hidden = TRUE], Tells(port[page[p].port], "hidden"))
  <1>1. page[p].port # None
    BY PagePort DEF Hide
  <1> QED BY <1>1 DEF Hide, Told, Tells, Moves1, hostVars

\* A page is visible again and says so.
LEMMA ShowFacts ==
    ASSUME SyncAssumption, BooksInv, NEW p \in Pages, Show(p)
    PROVE  /\ page[p].st = "on" /\ UNCHANGED <<of, cap, w, seq, log>>
           /\ Moves1(p, [page[p] EXCEPT !.hidden = FALSE], Tells(port[page[p].port], "visible"))
  <1>1. page[p].port # None
    BY PagePort DEF Show
  <1> QED BY <1>1 DEF Show, Told, Tells, Moves1, hostVars

\* A suspended page gives up its port.
LEMMA SuspendFacts ==
    ASSUME SyncAssumption, BooksInv, NEW p \in Pages, Suspend(p)
    PROVE  /\ page[p].st = "on" /\ UNCHANGED <<of, cap, w, seq, log>>
           /\ Moves1(p, Suspended(p), HungUp(port[page[p].port]))
  <1>1. page[p].port # None
    BY PagePort DEF Suspend
  <1> QED BY <1>1 DEF Suspend, Closed, Moves1, hostVars

\* A page that goes direct gives up its port.
LEMMA GoDirectFacts ==
    ASSUME SyncAssumption, BooksInv, NEW p \in Pages, GoDirect(p)
    PROVE  /\ page[p].st = "on" /\ UNCHANGED <<of, cap, w, seq, log>>
           /\ Moves1(p, [page[p] EXCEPT !.st = "direct", !.repair = TRUE, !.port = None],
                     HungUp(port[page[p].port]))
  <1>1. page[p].port # None
    BY PagePort DEF GoDirect
  <1> QED BY <1>1 DEF GoDirect, Closed, Moves1, hostVars

GoneFrom(g) == [g EXCEPT !.st = "gone", !.ready = FALSE, !.port = None]

\* A page that closes gives up its port if it has one.
LEMMA CloseFacts ==
    ASSUME SyncAssumption, BooksInv, NEW p \in Pages, Close(p)
    PROVE  /\ UNCHANGED <<of, cap, w, seq, log>>
           /\ page' = [page EXCEPT ![p] = GoneFrom(page[p])]
           /\ page[p].st = "on" => Moves1(p, GoneFrom(page[p]), HungUp(port[page[p].port]))
           /\ page[p].st # "on" => port' = port
  <1>1. page[p].st = "on" <=> page[p].port # None
    BY PagePort
  <1> QED BY <1>1 DEF Close, Closed, Moves1, hostVars, GoneFrom

\* A tab that dies says nothing.
LEMMA KillFacts ==
    ASSUME SyncAssumption, BooksInv, NEW p \in Pages, Kill(p)
    PROVE  /\ page[p].st = "on" /\ UNCHANGED <<of, cap, w, seq, log>>
           /\ Moves1(p, [page[p] EXCEPT !.st = "dead", !.ready = FALSE, !.port = None],
                     Dies(port[page[p].port]))
  <1> DEFINE o == page[p].port
  <1>1. /\ page[p].st = "on" /\ UNCHANGED <<of, cap, w, seq, log>>
        /\ page' = [page EXCEPT ![p] = [page[p] EXCEPT !.st = "dead", !.ready = FALSE, !.port = None]]
        /\ port' = [port EXCEPT ![o].closed = TRUE, ![o].down = <<>>]
    BY DEF Kill, hostVars
  <1>2. o \in Ports /\ port[o] \in PortRecords /\ port \in [Ports -> PortRecords]
    BY <1>1, PagePort DEF BooksInv
  <1> HIDE DEF o
  <1>3. port' = [port EXCEPT ![o] = Dies(port[o])]
    BY <1>1, <1>2 DEF Dies, PortRecords
  <1> QED BY <1>1, <1>3 DEF Moves1, o

\* What a page makes of a message.
Heard1(p) == TakeMsg(p, Head(port[page[p].port].down))

\* A page reads its first message, and hangs up when that is a refusal.
LEMMA HearFacts ==
    ASSUME SyncAssumption, BooksInv, NEW p \in Pages, Hear(p)
    PROVE  LET q == page[p].port
               m == Head(port[q].down)
           IN  /\ page[p].st = "on" /\ UNCHANGED <<of, cap, w, seq, log>>
               /\ port[q].down # <<>>
               /\ m.t # "gone" => Moves1(p, Heard1(p), Hears(port[q]))
               /\ m.t = "gone" => Moves1(p, Heard1(p), HungUp(Hears(port[q])))
  <1> DEFINE q == page[p].port
             m == Head(port[q].down)
             ps == [port EXCEPT ![q].down = Tail(@)]
  <1>1. /\ page[p].st = "on" /\ port[q].down # <<>> /\ UNCHANGED <<of, cap, w, seq, log>>
        /\ page' = [page EXCEPT ![p] = Heard1(p)]
        /\ port' = IF m.t = "gone" THEN Closed(ps, p) ELSE ps
    BY DEF Hear, hostVars, Heard1
  <1>2. q \in Ports /\ port[q] \in PortRecords /\ port \in [Ports -> PortRecords] /\ q # None
    BY <1>1, PagePort DEF BooksInv, SyncAssumption
  <1>3. ps = [port EXCEPT ![q] = Hears(port[q])]
    BY DEF Hears
  <1>4. m.t = "gone" => port' = [port EXCEPT ![q] = HungUp(Hears(port[q]))]
    <2> DEFINE h == Hears(port[q])
    <2>1. Closed(ps, p) = [ps EXCEPT ![q] = HungUp(@)]
      <3>1. page[p].port # None
        BY <1>2
      <3> HIDE DEF ps
      <3> QED BY <3>1 DEF Closed
    <2>2. ps = [port EXCEPT ![q] = h]
      BY <1>3
    <2> HIDE DEF h, ps, q
    <2>3. [ps EXCEPT ![q] = HungUp(@)] = [port EXCEPT ![q] = HungUp(h)]
      BY <1>2, <2>2
    <2> QED BY <1>1, <2>1, <2>3 DEF q, h, ps
  <1> QED BY <1>1, <1>3, <1>4 DEF Moves1

\* A page after what it heard.
LEMMA TakeMsgFacts ==
    ASSUME SyncAssumption, seq \in Nat, NEW p \in Pages, page[p] \in StreamPages, page[p].st = "on",
           page[p].port # None, NEW m \in DownMsgs
    PROVE  LET g == TakeMsg(p, m)
           IN  /\ g \in StreamPages /\ g.hidden = page[p].hidden
               /\ m.t = "gone" => g.st = "gone" /\ g.port = None
               /\ m.t # "gone" => /\ g.st = "on" /\ g.port = page[p].port
               /\ m.t = "status" => /\ g.since = page[p].since /\ g.got = page[p].got /\ g.last = page[p].last
                                    /\ g.repair = page[p].repair /\ g.startup = page[p].startup
                                    /\ g.ready = CASE m.k = "open" -> TRUE
                                                   [] m.k = "connecting" -> FALSE
                                                   [] OTHER -> page[p].ready
               /\ m.t = "cursor" => /\ g.since = Higher(page[p].since, m.n)
                                    /\ ~g.repair /\ ~g.startup
                                    /\ g.ready = page[p].ready /\ g.last = page[p].last
                                    /\ g.got = IF m.r \/ page[p].repair \/ page[p].startup THEN Whole
                                               ELSE page[p].got
               /\ m.t = "frame" => /\ g.since = Higher(page[p].since, m.n)
                                   /\ g.repair = page[p].repair /\ g.startup = page[p].startup
                                   /\ g.ready = page[p].ready /\ g.last = m.n
                                   /\ g.got = [page[p].got EXCEPT ![m.k] = Higher(@, m.n)]
  <1> DEFINE c == page[p]
             g == TakeMsg(p, m)
             h == Higher(c.since, m.n)
  <1>1. /\ m.t \in DownTypes /\ m.n \in Nat /\ m.r \in BOOLEAN /\ (m.t = "frame" => m.k \in Kinds)
        /\ c.since \in Nat /\ c.got \in [Kinds -> Nat] /\ c.ready \in BOOLEAN
        /\ c.repair \in BOOLEAN /\ c.startup \in BOOLEAN
    BY DEF DownMsgs, StreamPages
  <1>2. h \in Nat
    BY <1>1 DEF Higher
  <1>3. CASE m.t = "status"
    <2> DEFINE r == CASE m.k = "open" -> TRUE [] m.k = "connecting" -> FALSE [] OTHER -> c.ready
    <2>1. r \in BOOLEAN
      BY <1>1
    <2>2. g = [c EXCEPT !.heard = TRUE, !.ready = r]
      BY <1>3 DEF TakeMsg
    <2> HIDE DEF r, g
    <2>3. /\ g \in StreamPages /\ g.hidden = c.hidden /\ g.st = c.st /\ g.port = c.port
          /\ g.since = c.since /\ g.got = c.got /\ g.last = c.last
          /\ g.repair = c.repair /\ g.startup = c.startup /\ g.ready = r
      BY <2>1, <2>2 DEF StreamPages
    <2> QED BY <1>3, <2>3 DEF g, r
  <1>4. CASE m.t = "cursor"
    <2> DEFINE o == IF m.r \/ c.repair \/ c.startup THEN Whole ELSE c.got
    <2>1. o \in [Kinds -> Nat]
      BY <1>1 DEF Whole
    <2>2. g = [c EXCEPT !.heard = TRUE, !.since = h, !.repair = FALSE, !.startup = FALSE, !.got = o]
      BY <1>4 DEF TakeMsg
    <2> HIDE DEF o, g, h
    <2>3. /\ g \in StreamPages /\ g.hidden = c.hidden /\ g.st = c.st /\ g.port = c.port
          /\ g.since = h /\ g.got = o /\ g.last = c.last
          /\ ~g.repair /\ ~g.startup /\ g.ready = c.ready
      BY <1>2, <2>1, <2>2 DEF StreamPages
    <2> QED BY <1>4, <2>3 DEF g, o, h
  <1>5. CASE m.t = "frame"
    <2> DEFINE o == [c.got EXCEPT ![m.k] = Higher(@, m.n)]
    <2>1. o \in [Kinds -> Nat]
      BY <1>1, <1>5 DEF Higher
    <2>2. g = [c EXCEPT !.heard = TRUE, !.since = h, !.got = o, !.last = m.n]
      BY <1>1, <1>5 DEF TakeMsg, StreamPages
    <2> HIDE DEF o, g, h
    <2>3. /\ g \in StreamPages /\ g.hidden = c.hidden /\ g.st = c.st /\ g.port = c.port
          /\ g.since = h /\ g.got = o /\ g.last = m.n
          /\ g.repair = c.repair /\ g.startup = c.startup /\ g.ready = c.ready
      BY <1>1, <1>2, <2>1, <2>2 DEF StreamPages
    <2> QED BY <1>5, <2>3 DEF g, o, h
  <1>6. CASE m.t = "gone"
    <2>1. g = [c EXCEPT !.st = "gone", !.heard = TRUE, !.ready = FALSE, !.port = None]
      BY <1>6 DEF TakeMsg
    <2>2. g \in StreamPages /\ g.hidden = c.hidden /\ g.st = "gone" /\ g.port = None
      BY <2>1 DEF StreamPages, PageStates
    <2> QED BY <1>6, <2>2
  <1> QED BY <1>1, <1>3, <1>4, <1>5, <1>6 DEF DownTypes

\* The first message on the page's port.
LEMMA HeadFacts ==
    ASSUME SyncAssumption, BooksInv, NEW p \in Pages, page[p].st = "on",
           port[page[p].port].down # <<>>
    PROVE  LET down == port[page[p].port].down
               m == Head(down)
           IN  /\ down \in Seq(DownMsgs) /\ m \in DownMsgs /\ Elems(down) = Elems(Tail(down)) \cup {m}
               /\ Tail(down) \in Seq(DownMsgs) /\ seq \in Nat
               /\ page[p] \in StreamPages /\ page[p].port # None
  <1>1. port[page[p].port] \in PortRecords /\ page[p] \in StreamPages /\ page[p].port # None
    BY PagePort
  <1>2. port[page[p].port].down \in Seq(DownMsgs)
    BY <1>1 DEF PortRecords
  <1> QED BY <1>1, <1>2, TailElems DEF BooksInv, LogOK

\* Who has its port keeps it, or gives it up.
LEMMA MovesBooks ==
    ASSUME SyncAssumption, BooksInv, NEW p \in Pages,
           Hide(p) \/ Show(p) \/ Suspend(p) \/ GoDirect(p) \/ Close(p) \/ Kill(p)
    PROVE  BooksInv'
  <1> DEFINE c == page[p]
             u == port[c.port]
  <1>1. c \in StreamPages /\ (c.st = "on" <=> c.port # None)
    BY PagePort
  <1>2. c.st = "on" => u \in PortRecords /\ u.page = p /\ ~u.closed
    BY PagePort
  <1>3. c.st = "on" => /\ \A t \in UpTypes \ {"connect"} : Stirs(p, u, Tells(u, t)) /\ Tells(u, t).closed = u.closed
                       /\ Stirs(p, u, HungUp(u)) /\ Stirs(p, u, Dies(u))
    BY <1>2, PortMoves
  <1>4. "hidden" \in UpTypes \ {"connect"} /\ "visible" \in UpTypes \ {"connect"}
    BY DEF UpTypes
  <1>5. CASE Hide(p)
    <2> DEFINE g == [c EXCEPT !.hidden = TRUE]
    <2>1. c.st = "on" /\ Moves1(p, g, Tells(u, "hidden")) /\ UNCHANGED <<of, cap, w, seq, log>>
      BY <1>5, HideFacts
    <2>2. g \in StreamPages /\ g.st = c.st /\ g.port = c.port
      BY <1>1 DEF StreamPages
    <2> HIDE DEF g
    <2> QED BY <1>1, <1>3, <1>4, <2>1, <2>2, MoveBooks
  <1>6. CASE Show(p)
    <2> DEFINE g == [c EXCEPT !.hidden = FALSE]
    <2>1. c.st = "on" /\ Moves1(p, g, Tells(u, "visible")) /\ UNCHANGED <<of, cap, w, seq, log>>
      BY <1>6, ShowFacts
    <2>2. g \in StreamPages /\ g.st = c.st /\ g.port = c.port
      BY <1>1 DEF StreamPages
    <2> HIDE DEF g
    <2> QED BY <1>1, <1>3, <1>4, <2>1, <2>2, MoveBooks
  <1>7. CASE Suspend(p)
    <2> DEFINE g == Suspended(p)
    <2>1. c.st = "on" /\ Moves1(p, g, HungUp(u)) /\ UNCHANGED <<of, cap, w, seq, log>>
      BY <1>7, SuspendFacts
    <2>2. g \in StreamPages /\ g.st # "on" /\ g.port = None
      BY <1>1 DEF StreamPages, PageStates, Suspended
    <2> HIDE DEF g
    <2> QED BY <1>3, <2>1, <2>2, MoveBooks
  <1>8. CASE GoDirect(p)
    <2> DEFINE g == [c EXCEPT !.st = "direct", !.repair = TRUE, !.port = None]
    <2>1. c.st = "on" /\ Moves1(p, g, HungUp(u)) /\ UNCHANGED <<of, cap, w, seq, log>>
      BY <1>8, GoDirectFacts
    <2>2. g \in StreamPages /\ g.st # "on" /\ g.port = None
      BY <1>1 DEF StreamPages, PageStates
    <2> HIDE DEF g
    <2> QED BY <1>3, <2>1, <2>2, MoveBooks
  <1>9. CASE Close(p)
    <2> DEFINE g == GoneFrom(c)
    <2>1. /\ page' = [page EXCEPT ![p] = g] /\ UNCHANGED <<of, cap, w, seq, log>>
          /\ c.st = "on" => Moves1(p, g, HungUp(u))
          /\ c.st # "on" => port' = port
      BY <1>9, CloseFacts
    <2>2. g \in StreamPages /\ g.st # "on" /\ g.port = None
      BY <1>1 DEF StreamPages, PageStates, GoneFrom
    <2> HIDE DEF g
    <2>3. CASE c.st = "on"
      BY <1>3, <2>1, <2>2, <2>3, MoveBooks
    <2>4. CASE c.st # "on"
      <3>1. port' \in [Ports -> PortRecords] /\ \A r \in Ports : port'[r] = port[r]
        BY <2>1, <2>4 DEF BooksInv
      <3> QED BY <2>1, <2>2, <3>1, PageStep
    <2> QED BY <2>3, <2>4
  <1>10. CASE Kill(p)
    <2> DEFINE g == [c EXCEPT !.st = "dead", !.ready = FALSE, !.port = None]
    <2>1. c.st = "on" /\ Moves1(p, g, Dies(u)) /\ UNCHANGED <<of, cap, w, seq, log>>
      BY <1>10, KillFacts
    <2>2. g \in StreamPages /\ g.st # "on" /\ g.port = None
      BY <1>1 DEF StreamPages, PageStates
    <2> HIDE DEF g
    <2> QED BY <1>3, <2>1, <2>2, MoveBooks
  <1> QED BY <1>5, <1>6, <1>7, <1>8, <1>9, <1>10

\* What a page reads moves only the page, and its port when it hangs up.
LEMMA HearBooks ==
    ASSUME SyncAssumption, BooksInv, NEW p \in Pages, Hear(p) PROVE BooksInv'
  <1> DEFINE u == port[page[p].port]
             m == Head(u.down)
             g == Heard1(p)
  <1>1. /\ page[p].st = "on" /\ UNCHANGED <<of, cap, w, seq, log>> /\ u.down # <<>>
        /\ m.t # "gone" => Moves1(p, g, Hears(u))
        /\ m.t = "gone" => Moves1(p, g, HungUp(Hears(u)))
    BY HearFacts
  <1>2. u \in PortRecords /\ u.page = p /\ page[p].port # None
    BY <1>1, PagePort
  <1>3. /\ Stirs(p, u, Hears(u)) /\ Hears(u).closed = u.closed
        /\ Stirs(p, u, HungUp(Hears(u)))
    <2>1. u.down # <<>>
      BY <1>1
    <2> HIDE DEF u
    <2> QED BY <1>2, <2>1, PortMoves
  <1>4. /\ g \in StreamPages
        /\ m.t = "gone" => g.st = "gone" /\ g.port = None
        /\ m.t # "gone" => g.st = "on" /\ g.port = page[p].port
    BY <1>1, HeadFacts, TakeMsgFacts DEF Heard1
  <1> HIDE DEF g
  <1>5. CASE m.t = "gone"
    <2>1. g.st # "on" /\ g.port = None
      BY <1>4, <1>5
    <2> QED BY <1>1, <1>3, <1>4, <1>5, <2>1, MoveBooks
  <1>6. CASE m.t # "gone"
    BY <1>1, <1>2, <1>3, <1>4, <1>6, MoveBooks
  <1> QED BY <1>5, <1>6

\* A page that opens another port gives up the one it has.
LEMMA ReopenFacts ==
    ASSUME SyncAssumption, BooksInv, NEW p \in Pages, NEW q \in Ports, Reopen(p, q)
    PROVE  LET o == page[p].port
           IN  /\ page[p].st = "on" /\ UNCHANGED <<of, cap, w, seq, log>>
               /\ o \in Ports /\ o # q /\ port[q].page = None
               /\ page' = [page EXCEPT ![p] = [Opening(p, q) EXCEPT !.repair = TRUE]]
               /\ port' \in [Ports -> PortRecords]
               /\ port'[o] = HungUp(port[o]) /\ port'[q] = Call(p, ~page[p].hidden)
               /\ \A r \in Ports : r \notin {o, q} => port'[r] = port[r]
               /\ Stirs(p, port[o], port'[o]) /\ Dials(p, port[q], port'[q])
  <1> DEFINE o == page[p].port
             v == ~page[p].hidden
             h == HungUp(port[o])
             c == Call(p, v)
  <1>1. /\ page[p].st = "on" /\ UNCHANGED <<of, cap, w, seq, log>> /\ port[q].page = None
        /\ page' = [page EXCEPT ![p] = [Opening(p, q) EXCEPT !.repair = TRUE]]
        /\ port' = Dialled(Closed(port, p), p, q, v)
    BY DEF Reopen, FreePorts, hostVars
  <1>2. /\ o \in Ports /\ port[o].page = p /\ port[o] \in PortRecords /\ o # None
        /\ page[p].since \in Nat /\ v \in BOOLEAN
    <2>1. page[p] \in StreamPages
      BY PortDocs
    <2> QED BY <1>1, <2>1, PagePort DEF StreamPages
  <1>3. o # q
    BY <1>1, <1>2 DEF SyncAssumption
  <1>4. Stirs(p, port[o], h)
    BY <1>2, PortMoves
  <1>5. Dials(p, port[q], c) /\ c \in PortRecords
    BY <1>1, <1>2, CallFacts
  <1>6. port' = [[port EXCEPT ![o] = h] EXCEPT ![q] = c]
    BY <1>1, <1>2 DEF Dialled, Closed, Call
  <1>7. port \in [Ports -> PortRecords] /\ h \in PortRecords
    BY <1>4 DEF BooksInv, Stirs
  <1> HIDE DEF h, c, o, v
  <1>8. /\ port' \in [Ports -> PortRecords] /\ port'[o] = h /\ port'[q] = c
        /\ \A r \in Ports : r \notin {o, q} => port'[r] = port[r]
    BY <1>2, <1>3, <1>5, <1>6, <1>7
  <1> QED BY <1>1, <1>2, <1>3, <1>4, <1>5, <1>8 DEF h, c, o, v

\* A page that reopens gives up one port and dials on another.
LEMMA ReopenBooks ==
    ASSUME SyncAssumption, BooksInv, NEW p \in Pages, NEW q \in Ports, Reopen(p, q) PROVE BooksInv'
  <1> DEFINE o == page[p].port
             g == [Opening(p, q) EXCEPT !.repair = TRUE]
  <1>1. /\ UNCHANGED <<of, cap, w, seq, log>> /\ page' = [page EXCEPT ![p] = g]
        /\ port' \in [Ports -> PortRecords]
        /\ \A r \in Ports : r \notin {o, q} => port'[r] = port[r]
        /\ Stirs(p, port[o], port'[o]) /\ Dials(p, port[q], port'[q])
    BY ReopenFacts
  <1>2. Opening(p, q) \in StreamPages /\ Opening(p, q).st = "on" /\ Opening(p, q).port = q /\ q # None
    BY PortDocs, OpeningFacts DEF SyncAssumption
  <1>3. g \in StreamPages /\ g.st = "on" /\ g.port = q
    <2> DEFINE e == Opening(p, q)
    <2> HIDE DEF e
    <2>1. e \in StreamPages /\ e.st = "on" /\ e.port = q
      BY <1>2 DEF e
    <2>2. g = [e EXCEPT !.repair = TRUE]
      BY DEF e
    <2> HIDE DEF g
    <2> QED BY <2>1, <2>2 DEF StreamPages
  <1> HIDE DEF g
  <1>4. port'[q].page = p /\ ~port'[q].closed
    BY <1>1 DEF Dials
  <1>5. \A r \in Ports : \/ port'[r] = port[r]
                         \/ Stirs(p, port[r], port'[r])
                         \/ Dials(p, port[r], port'[r])
    BY <1>1
  <1>6. g.st = "on" <=> g.port # None
    BY <1>2, <1>3
  <1>7. g.st = "on" => port'[g.port].page = p /\ ~port'[g.port].closed
    BY <1>3, <1>4
  <1> QED BY <1>1, <1>3, <1>5, <1>6, <1>7, PageStep

-----------------------------------------------------------------------------
(* The books are in order to begin with, and stay so.                      *)

\* The books agree at the start: nobody has a port.
LEMMA InitBooks == ASSUME SyncAssumption, Init PROVE BooksInv
  <1>1. /\ of \in Placements /\ cap \in Caps /\ page = [p \in Pages |-> FreshPage]
        /\ port = [q \in Ports |-> NoPort] /\ w = NewWorker /\ seq = 1 /\ log = <<>>
    BY DEF Init
  <1>2. FreshPage \in StreamPages /\ FreshPage.st = "away" /\ FreshPage.port = None
    BY DEF FreshPage, StreamPages, PageStates
  <1>3. PagesOK
    <2> HIDE DEF FreshPage
    <2>1. \A p \in Pages : page[p] = FreshPage
      BY <1>1
    <2>2. page \in [Pages -> StreamPages]
      BY <1>1, <1>2
    <2> QED BY <1>2, <2>1, <2>2 DEF PagesOK
  <1>4. LogOK
    BY <1>1 DEF LogOK, Elems
  <1>5. NoPort \in PortRecords /\ NoPort.up = <<>>
    BY DEF NoPort, PortRecords
  <1>6. port \in [Ports -> PortRecords] /\ \A q \in Ports : port[q] = NoPort
    BY <1>1, <1>5
  <1>7. /\ w.state = "closed" /\ w.stream = None /\ ~w.rebuild /\ ~w.reconnect
        /\ w.subs = [d \in Docs |-> None] /\ w.meta = [q \in Ports |-> None]
        /\ w.out = [q \in Ports |-> <<>>]
    BY <1>1 DEF NewWorker
  <1>8. w \in Workers
    <2> DEFINE S == [d \in Docs |-> None]
               M == [q \in Ports |-> None]
               O == [q \in Ports |-> <<>>]
    <2>1. /\ w = [state |-> "closed", subs |-> S, stream |-> None,
                  rebuild |-> FALSE, reconnect |-> FALSE, meta |-> M, out |-> O]
          /\ "closed" \in States
      BY <1>1 DEF NewWorker, States
    <2>2. /\ S \in [Docs -> Subs \cup {None}] /\ M \in [Ports -> Metas \cup {None}]
          /\ O \in [Ports -> Seq(DownMsgs)]
      OBVIOUS
    <2> HIDE DEF S, M, O
    <2> QED BY <2>1, <2>2 DEF Workers
  <1>9. \A q \in Ports : PortOK(q)
    BY <1>5, <1>6, <1>7 DEF PortOK, Dialling
  <1>10. Open(w) = {}
    BY <1>7 DEF Open
  <1>11. IsFiniteSet(Open(w)) /\ Cardinality(Open(w)) <= cap
    <2>1. cap \in Nat
      BY <1>1 DEF SyncAssumption
    <2> QED BY <1>10, <2>1, FS_EmptySet
  <1>12. StreamOK(w) /\ Listed(w)
    BY <1>7, <1>10 DEF StreamOK, Listed
  <1>13. \A d \in Docs : Holders(w, d) = {} /\ w.subs[d] = None
    BY <1>7 DEF Holders
  <1>14. Books(w)
    BY <1>8, <1>10, <1>11, <1>12, <1>13 DEF Books
  <1>15. w.out = NewWorker.out
    BY <1>1
  <1> QED BY <1>1, <1>3, <1>4, <1>6, <1>9, <1>14, <1>15 DEF BooksInv

\* And every step keeps them.
LEMMA BooksStay == ASSUME SyncAssumption, BooksInv, [Next]_vars PROVE BooksInv'
  <1>1. CASE \E p \in Pages, q \in Ports : Start(p, q) \/ Resume(p, q) \/ Reopen(p, q)
    BY <1>1, StartBooks, ResumeBooks, ReopenBooks
  <1>2. CASE \E p \in Pages : Hide(p) \/ Suspend(p) \/ Show(p) \/ GoDirect(p) \/ Close(p) \/ Kill(p)
    BY <1>2, MovesBooks
  <1>3. CASE \E p \in Pages : Hear(p)
    BY <1>3, HearBooks
  <1>4. CASE \E q \in Ports : Handle(q) \/ Sweep(q)
    BY <1>4, HandleBooks, SweepBooks
  <1>5. CASE Rebuild \/ Listen \/ Break \/ Accept
    BY <1>5, RebuildBooks, ListenBooks, BreakBooks, AcceptBooks
  <1>6. CASE \E d \in Lively, k \in Kinds : Publish(d, k)
    <2>1. Lively \subseteq Docs
      BY DEF SyncAssumption
    <2> QED BY <1>6, <2>1, PublishBooks
  <1>7. CASE UNCHANGED vars
    <2>1. /\ of' = of /\ cap' = cap /\ page' = page /\ port' = port /\ w' = w
          /\ seq' = seq /\ log' = log
      BY <1>7 DEF vars
    <2>2. Books(w)'
      <3>1. \A q \in Ports : w.meta[q] # None => port'[q].page = port[q].page
        BY <2>1
      <3> QED BY <2>1, <3>1, PortDocs, BooksKept
    <2>3. PagesOK' /\ LogOK' /\ \A q \in Ports : PortOK(q)'
      BY <2>1 DEF BooksInv, PagesOK, LogOK, PortOK, Dialling, NoPort
    <2>4. (w.out = NewWorker.out)'
      BY <2>1 DEF BooksInv, NewWorker
    <2> QED BY <2>1, <2>2, <2>3, <2>4 DEF BooksInv
  <1> QED BY <1>1, <1>2, <1>3, <1>4, <1>5, <1>6, <1>7 DEF Next

\* What a run checks of the books follows.
LEMMA BooksTell == ASSUME SyncAssumption, BooksInv PROVE BooksAgree
  <1>1. w \in Workers /\ Books(w)
    BY PortDocs
  <1>2. TypeOK
    BY <1>1 DEF BooksInv, PagesOK, TypeOK, Workers
  <1>3. SubsMatchPorts
    <2>1. \A d \in Docs : Holders(w, d) = {q \in Known(w) : w.meta[q].sub /\ DocOf(q) = d}
      BY DEF Holders, Known
    <2> QED BY <1>1, <2>1 DEF SubsMatchPorts, Books
  <1>4. StreamListsAll
    BY <1>1 DEF StreamListsAll, Books, Listed
  <1> QED BY <1>2, <1>3, <1>4 DEF BooksAgree

\* The worker's books (sync-worker.js: ports, subs and the stream's entries) agree in
\* every state, for any number of pages and documents: a document is held by exactly
\* the ports subscribed to it, never more than maxSubs of them, and the open stream
\* lists just those unless a rebuild or a reconnection is due.
THEOREM BooksAlwaysAgree == Spec => []BooksAgree
  <1>1. Init => BooksInv
    BY SyncAssumption, InitBooks
  <1>2. BooksInv /\ [Next]_vars => BooksInv'
    BY SyncAssumption, BooksStay
  <1>3. BooksInv => BooksAgree
    BY SyncAssumption, BooksTell
  <1> QED BY <1>1, <1>2, <1>3, PTL DEF Spec
-----------------------------------------------------------------------------
(* The order of frames, from the host's log to what a page has read.       *)

\* Settles d's entry of the stream: before it nothing of the entry counts.
IsAnswer(e, d) == e.doc = d /\ e.t \in {"cursor", "error"}
Due(s, d) == \E e \in Elems(s.q) : IsAnswer(e, d)

\* Events of one document come in order, its answer first.
Following == {p \in GoodEvents \X GoodEvents :
                 p[1].doc = p[2].doc /\ p[1].t # "open" =>
                    p[2].t = "frame" /\ (p[1].t # "error" => p[1].n < p[2].n)}

\* The stream's events go on where the document's record is, once it is answered.
EntryOrder(s, d, sub) ==
    /\ ~s.joined /\ sub.opened => s.asked[d] = sub.since
    /\ s.joined /\ ~sub.opened => Due(s, d)
    /\ sub.opened => \A e \in Elems(s.q) : e.doc = d =>
          /\ e.t = "frame" => Due(s, d) \/ sub.since < e.n
          /\ e.t = "cursor" => e.n = sub.since

StreamRight(s) ==
    /\ ~s.joined => s.q = <<>>
    /\ \A d \in DOMAIN s.asked : s.asked[d] <= seq
    /\ \A e \in Elems(s.q) : e.n <= seq /\ (e.t = "cursor" => 0 < e.n)
    /\ SortedBy(s.q, Following)

StreamOrder(x) ==
    x.stream # None => /\ StreamRight(x.stream)
                       /\ \A d \in x.stream.docs : EntryOrder(x.stream, d, x.subs[d])

\* A document's latest frames are not beyond its position, and no port has seen more.
SubRight(sub) ==
    /\ sub.since <= seq /\ (sub.opened => 0 < sub.since)
    /\ \A k \in Kinds : sub.content[k] <= sub.since
    /\ ~sub.opened => sub.content = NoContent
    /\ Distinct(sub)

SeenRight(m, sub) == m.seen <= sub.since /\ (~sub.opened => m.seen = 0)

SubOrder(x) ==
    \A d \in Open(x) : /\ SubRight(x.subs[d])
                       /\ \A q \in x.subs[d].ports : SeenRight(x.meta[q], x.subs[d])

\* What is on its way to a page is in order, and the worker has noted it as seen.
PortOrder(q) ==
    /\ \A m \in Elems(port[q].up) : m.n <= seq
    /\ \A m \in Elems(port[q].down) : m.n <= seq
    /\ SortedBy(port[q].down, Rising)
    /\ w.meta[q] # None => \A m \in Elems(port[q].down) : m.t = "frame" => m.n <= w.meta[q].seen

PageOrder(p) ==
    LET q == page[p].port
    IN /\ page[p].since <= seq
       /\ page[p].st = "on" =>
             /\ \A m \in Elems(port[q].down) : m.t = "frame" => page[p].last < m.n
             /\ Dialling(q) => page[p].last = 0
             /\ w.meta[q] # None => page[p].last <= w.meta[q].seen

OrderInv ==
    /\ StreamOrder(w) /\ SubOrder(w)
    /\ \A q \in Ports : PortOrder(q)
    /\ \A p \in Pages : PageOrder(p)

-----------------------------------------------------------------------------
(* What a handler must keep of the order.                                  *)

\* What r is sent goes on where the worker's record of it was.
Shows(y, r) ==
    /\ SortedBy(y.out[r], Rising)
    /\ \A m \in Elems(y.out[r]) : m.n <= seq
    /\ \A m \in Elems(y.out[r]) : m.t = "frame" =>
          /\ y.meta[r] # None /\ m.n <= y.meta[r].seen
          /\ IF w.meta[r] = None THEN 0 < m.n ELSE w.meta[r].seen < m.n
    /\ y.meta[r] # None => IF w.meta[r] = None THEN Dialling(r) ELSE w.meta[r].seen <= y.meta[r].seen

\* The port keeps what its page has to read, or is swept.
Reads(u, v) ==
    \/ u = NoPort /\ v.closed
    \/ u.closed = v.closed /\ u.down = v.down /\ Elems(u.up) \subseteq Elems(v.up)

\* A connection is a message of the port.
LEMMA DiallingElems == ASSUME NEW q PROVE Dialling(q) <=> \E m \in Elems(port[q].up) : m.t = "connect"
  BY DEF Dialling, Elems

\* The books and the order, for one port.
LEMMA PortKnown ==
    ASSUME SyncAssumption, BooksInv, OrderInv, NEW q \in Ports
    PROVE  /\ port[q] \in PortRecords /\ port[q].down \in Seq(DownMsgs) /\ port[q].up \in Seq(UpMsgs)
           /\ PortOrder(q) /\ PortOK(q)
           /\ Dialling(q) => w.meta[q] = None /\ Elems(port[q].down) = {}
           /\ w.meta[q] # None => w.meta[q] \in Metas /\ w.meta[q].seen \in Nat
           /\ seq \in Nat
  <1>1. /\ port[q] \in PortRecords /\ PortOK(q) /\ PortOrder(q) /\ seq \in Nat /\ w \in Workers
    BY BooksSay DEF BooksInv, OrderInv, LogOK
  <1>2. Dialling(q) => w.meta[q] = None /\ Elems(port[q].down) = {}
    BY <1>1, NoElems DEF PortOK
  <1>3. w.meta[q] # None => w.meta[q] \in Metas /\ w.meta[q].seen \in Nat
    BY <1>1 DEF Workers, Metas
  <1> QED BY <1>1, <1>2, <1>3 DEF PortRecords

\* What a page has to read after a handler.
LEMMA ReadsFacts ==
    ASSUME SyncAssumption, BooksInv, OrderInv, NEW r \in Ports, NEW u \in PortRecords, Reads(u, port[r])
    PROVE  /\ u.down \in Seq(DownMsgs)
           /\ \A m \in Elems(u.up) : m.n <= seq
           /\ \A m \in Elems(u.down) : m.n <= seq
           /\ SortedBy(u.down, Rising)
           /\ w.meta[r] # None => \A m \in Elems(u.down) : m.t = "frame" => m.n <= w.meta[r].seen
           /\ Dialling(r) => Elems(u.down) = {}
  <1>1. /\ PortOrder(r)
        /\ Dialling(r) => Elems(port[r].down) = {}
    BY PortKnown
  <1>2. CASE u = NoPort
    <2>1. u.up = <<>> /\ u.down = <<>>
      BY <1>2 DEF NoPort
    <2> QED BY <2>1, NoElems DEF SortedBy
  <1>3. CASE u.down = port[r].down /\ Elems(u.up) \subseteq Elems(port[r].up)
    BY <1>1, <1>3 DEF PortOrder, PortRecords
  <1> QED BY <1>2, <1>3 DEF Reads, PortRecords

\* The order of one port's messages after a handler.
LEMMA PortGoesOn ==
    ASSUME SyncAssumption, BooksInv, OrderInv, NEW y \in Workers, NEW r \in Ports,
           NEW u \in PortRecords, Reads(u, port[r]), Shows(y, r), NEW down,
           down = IF u.closed THEN u.down ELSE Joined(u.down, y.out[r])
    PROVE  /\ \A m \in Elems(down) : m.n <= seq
           /\ SortedBy(down, Rising)
           /\ \A m \in Elems(down) : m \in Elems(u.down) \/ m \in Elems(y.out[r])
           /\ y.meta[r] # None => \A m \in Elems(down) : m.t = "frame" => m.n <= y.meta[r].seen
  <1> DEFINE out == y.out[r]
  <1>1. /\ u.down \in Seq(DownMsgs) /\ \A m \in Elems(u.down) : m.n <= seq
        /\ SortedBy(u.down, Rising)
        /\ w.meta[r] # None => \A m \in Elems(u.down) : m.t = "frame" => m.n <= w.meta[r].seen
        /\ Dialling(r) => Elems(u.down) = {}
    BY ReadsFacts
  <1>2. out \in Seq(DownMsgs) /\ (y.meta[r] # None => y.meta[r].seen \in Nat)
    BY DEF Workers, Metas
  <1>3. w.meta[r] # None => w.meta[r].seen \in Nat
    BY PortKnown
  <1>4. /\ SortedBy(out, Rising)
        /\ \A m \in Elems(out) : m.n <= seq
        /\ \A m \in Elems(out) : m.t = "frame" =>
              /\ y.meta[r] # None /\ m.n <= y.meta[r].seen
              /\ IF w.meta[r] = None THEN 0 < m.n ELSE w.meta[r].seen < m.n
        /\ y.meta[r] # None => IF w.meta[r] = None THEN Dialling(r) ELSE w.meta[r].seen <= y.meta[r].seen
    BY DEF Shows
  <1>5. \A m \in Elems(u.down) \cup Elems(out) : m \in DownMsgs /\ m.n \in Nat
    BY <1>1, <1>2 DEF Elems, DownMsgs
  <1> HIDE DEF out
  <1>6. \A e \in Elems(u.down), f \in Elems(out) : <<e, f>> \in Rising
    <2> SUFFICES ASSUME NEW e \in Elems(u.down), NEW f \in Elems(out), e.t = "frame", f.t = "frame"
                 PROVE  e.n < f.n
      BY <1>5 DEF Rising
    <2>1. w.meta[r] # None
      BY <1>1, <1>4
    <2> QED BY <1>1, <1>3, <1>4, <1>5, <2>1
  <1>7. /\ \A m \in Elems(down) : m \in Elems(u.down) \/ m \in Elems(out)
        /\ SortedBy(down, Rising)
    <2>1. CASE u.closed
      BY <1>1, <2>1
    <2>2. CASE ~u.closed
      <3>1. LET d == Joined(u.down, out)
            IN  /\ \A e \in Elems(d) : e \in Elems(u.down) \/ e \in Elems(out)
                /\ \A R : SortedBy(u.down, R) /\ SortedBy(out, R)
                          /\ (\A e \in Elems(u.down), f \in Elems(out) : <<e, f>> \in R)
                          => SortedBy(d, R)
        BY <1>1, <1>2, JoinedElems
      <3> QED BY <1>1, <1>4, <1>6, <2>2, <3>1 DEF out
    <2> QED BY <2>1, <2>2
  <1>8. ASSUME y.meta[r] # None, NEW m \in Elems(u.down), m.t = "frame"
        PROVE  m.n <= y.meta[r].seen
    <2>1. w.meta[r] # None
      BY <1>1, <1>4, <1>8
    <2> QED BY <1>1, <1>2, <1>3, <1>4, <1>5, <1>8, <2>1
  <1> QED BY <1>1, <1>4, <1>7, <1>8 DEF out

\* A handler that returns with the order kept.
LEMMA WorkerOrder ==
    ASSUME SyncAssumption, BooksInv, OrderInv, NEW y \in Workers, StreamOrder(y), SubOrder(y),
           NEW ps \in [Ports -> PortRecords], Returns(y, ps), UNCHANGED <<of, cap, page, seq, log>>,
           \A r \in Ports : Reads(ps[r], port[r]) /\ Shows(y, r)
    PROVE  OrderInv'
  <1>1. /\ w' \in Workers
        /\ w'.subs = y.subs /\ w'.stream = y.stream /\ w'.meta = y.meta
        /\ \A q \in Ports : /\ port'[q].closed = ps[q].closed
                            /\ port'[q].up = ps[q].up
                            /\ port'[q].down = IF ps[q].closed THEN ps[q].down
                                               ELSE Joined(ps[q].down, y.out[q])
    BY ReturnsFacts
  <1>2. StreamOrder(w)'
    BY <1>1 DEF StreamOrder, StreamRight, EntryOrder, Due, IsAnswer
  <1>3. SubOrder(w)'
    BY <1>1 DEF SubOrder, SubRight, Open
  <1>4. ASSUME NEW r \in Ports PROVE PortOrder(r)'
    <2>1. ps[r] \in PortRecords /\ Reads(ps[r], port[r]) /\ Shows(y, r)
      OBVIOUS
    <2>2. \A m \in Elems(ps[r].up) : m.n <= seq
      BY <2>1, ReadsFacts
    <2>3. /\ \A m \in Elems(port'[r].down) : m.n <= seq
          /\ SortedBy(port'[r].down, Rising)
          /\ y.meta[r] # None => \A m \in Elems(port'[r].down) : m.t = "frame" => m.n <= y.meta[r].seen
      BY <1>1, <2>1, PortGoesOn
    <2> QED BY <1>1, <2>2, <2>3 DEF PortOrder
  <1>5. ASSUME NEW p \in Pages PROVE PageOrder(p)'
    <2> DEFINE q == page[p].port
    <2>1. /\ page[p].since <= seq /\ page[p] \in StreamPages /\ page[p].last \in Nat
          /\ page[p].st = "on" => /\ q \in Ports /\ ~port[q].closed
                                  /\ \A m \in Elems(port[q].down) : m.t = "frame" => page[p].last < m.n
                                  /\ Dialling(q) => page[p].last = 0
                                  /\ w.meta[q] # None => page[p].last <= w.meta[q].seen
      BY DEF OrderInv, PageOrder, BooksInv, PagesOK, StreamPages
    <2> HIDE DEF q
    <2>2. ASSUME page[p].st = "on"
          PROVE  /\ \A m \in Elems(port'[q].down) : m.t = "frame" => page[p].last < m.n
                 /\ (\E i \in DOMAIN port'[q].up : port'[q].up[i].t = "connect") => page[p].last = 0
                 /\ y.meta[q] # None => page[p].last <= y.meta[q].seen
      <3>1. ps[q] \in PortRecords /\ Reads(ps[q], port[q]) /\ Shows(y, q) /\ q \in Ports
        BY <2>1, <2>2
      <3>2. ps[q].down = port[q].down /\ Elems(ps[q].up) \subseteq Elems(port[q].up)
        BY <2>1, <2>2, <3>1 DEF Reads
      <3>3. \A m \in Elems(port'[q].down) : m \in Elems(ps[q].down) \/ m \in Elems(y.out[q])
        BY <1>1, <3>1, PortGoesOn
      <3>4. /\ w.meta[q] # None => w.meta[q].seen \in Nat
            /\ y.meta[q] # None => y.meta[q].seen \in Nat
            /\ \A m \in Elems(y.out[q]) : m.n \in Nat
        <4>1. y.out[q] \in Seq(DownMsgs) /\ (y.meta[q] # None => y.meta[q].seen \in Nat)
          BY <3>1 DEF Workers, Metas
        <4> QED BY <3>1, <4>1, PortKnown DEF Elems, DownMsgs
      <3>5. \A m \in Elems(y.out[q]) : m.t = "frame" => page[p].last < m.n
        BY <2>1, <2>2, <3>1, <3>4 DEF Shows
      <3>6. (\E i \in DOMAIN port'[q].up : port'[q].up[i].t = "connect") => Dialling(q)
        <4>1. port'[q].up = ps[q].up
          BY <1>1, <3>1
        <4>2. ASSUME NEW i \in DOMAIN ps[q].up, ps[q].up[i].t = "connect" PROVE Dialling(q)
          <5>1. ps[q].up[i] \in Elems(port[q].up)
            BY <3>2 DEF Elems
          <5> QED BY <4>2, <5>1, DiallingElems
        <4> QED BY <4>1, <4>2
      <3>7. y.meta[q] # None => page[p].last <= y.meta[q].seen
        BY <2>1, <2>2, <3>1, <3>4 DEF Shows
      <3> QED BY <2>1, <2>2, <3>2, <3>3, <3>5, <3>6, <3>7
    <2> QED BY <1>1, <2>1, <2>2 DEF PageOrder, Dialling, q
  <1> QED BY <1>2, <1>3, <1>4, <1>5 DEF OrderInv

-----------------------------------------------------------------------------
(* The order after each of the worker's operations.                        *)

\* A handler that sends r no frame.
LEMMA ShowsPlain ==
    ASSUME SyncAssumption, BooksInv, NEW y \in Workers, NEW r \in Ports,
           \A m \in Elems(y.out[r]) : m.t # "frame" /\ m.n <= seq,
           y.meta[r] # None => IF w.meta[r] = None THEN Dialling(r) ELSE w.meta[r].seen <= y.meta[r].seen
    PROVE  Shows(y, r)
  <1>1. y.out[r] \in Seq(DownMsgs)
    BY DEF Workers
  <1>2. SortedBy(y.out[r], Rising)
    BY <1>1 DEF SortedBy, Rising, Elems
  <1> QED BY <1>2 DEF Shows

\* One that sends it nothing.
LEMMA ShowsNothing ==
    ASSUME SyncAssumption, BooksInv, NEW y \in Workers, NEW r \in Ports, y.out[r] = <<>>,
           y.meta[r] # None => w.meta[r] # None /\ y.meta[r].seen = w.meta[r].seen
    PROVE  Shows(y, r)
  <1>1. y.meta[r] # None => w.meta[r].seen <= y.meta[r].seen
    BY DEF Workers, Metas
  <1> QED BY <1>1, NoElems, ShowsPlain

\* A stream that loses at most a document goes on for documents that stay where they are.
LEMMA StreamStays ==
    ASSUME SyncAssumption, NEW x \in Workers, StreamOrder(x), NEW y, NEW e \in Docs,
           y.stream = x.stream \/ y.stream = Trimmed(x.stream, e),
           \A d \in Docs : x.stream # None /\ y.stream # None /\ d \in y.stream.docs =>
              /\ y.subs[d].opened = x.subs[d].opened
              /\ x.subs[d].opened => y.subs[d].since = x.subs[d].since
    PROVE  StreamOrder(y)
  <1> SUFFICES ASSUME y.stream # None PROVE StreamOrder(y)
    BY DEF StreamOrder
  <1>1. x.stream \in Streams \cup {None}
    BY DEF Workers
  <1>2. /\ x.stream # None /\ y.stream.docs \subseteq x.stream.docs
        /\ y.stream.asked = x.stream.asked /\ y.stream.joined = x.stream.joined
        /\ y.stream.q = x.stream.q /\ x.stream.docs \subseteq Docs
    BY <1>1, TrimmedFacts, StreamParts
  <1>3. StreamRight(y.stream)
    BY <1>2 DEF StreamOrder, StreamRight
  <1>4. ASSUME NEW d \in y.stream.docs PROVE EntryOrder(y.stream, d, y.subs[d])
    <2>1. EntryOrder(x.stream, d, x.subs[d])
      BY <1>2 DEF StreamOrder
    <2>2. y.subs[d].opened = x.subs[d].opened /\ (x.subs[d].opened => y.subs[d].since = x.subs[d].since)
      BY <1>2
    <2> QED BY <1>2, <2>1, <2>2 DEF EntryOrder, Due
  <1> QED BY <1>3, <1>4 DEF StreamOrder

\* Documents that stay as they are, with no port they did not have.
LEMMA SubsStay ==
    ASSUME NEW x, SubOrder(x), NEW y, Open(y) \subseteq Open(x),
           \A d \in Open(y) :
              /\ y.subs[d].since = x.subs[d].since /\ y.subs[d].opened = x.subs[d].opened
              /\ y.subs[d].content = x.subs[d].content /\ y.subs[d].ports \subseteq x.subs[d].ports
              /\ \A q \in y.subs[d].ports : y.meta[q].seen = x.meta[q].seen
    PROVE  SubOrder(y)
  <1> SUFFICES ASSUME NEW d \in Open(y)
               PROVE  /\ SubRight(y.subs[d])
                      /\ \A q \in y.subs[d].ports : SeenRight(y.meta[q], y.subs[d])
    BY DEF SubOrder
  <1>1. SubRight(x.subs[d]) /\ \A q \in x.subs[d].ports : SeenRight(x.meta[q], x.subs[d])
    BY DEF SubOrder
  <1>2. SubRight(y.subs[d])
    BY <1>1 DEF SubRight, Distinct
  <1> QED BY <1>1, <1>2 DEF SeenRight

\* A port gives up its subscription.
LEMMA UnsubscribeOrder ==
    ASSUME SyncAssumption, BooksInv, OrderInv, NEW q \in Ports
    PROVE  LET y == Unsubscribe(w, q)
           IN  /\ y \in Workers /\ StreamOrder(y) /\ SubOrder(y)
               /\ \A r \in Ports : y.out[r] = <<>>
               /\ \A r \in Ports : /\ y.meta[r] = None <=> w.meta[r] = None
                                   /\ w.meta[r] # None => y.meta[r].seen = w.meta[r].seen
  <1> DEFINE y == Unsubscribe(w, q)
             d == DocOf(q)
  <1>1. /\ w \in Workers /\ Books(w) /\ \A r \in Ports : w.out[r] = <<>>
        /\ \A r \in Ports : w.meta[r] # None => DocOf(r) \in Docs /\ w.meta[r] \in Metas
        /\ StreamOrder(w) /\ SubOrder(w)
    BY PortDocs, BooksSay DEF OrderInv
  <1>2. CASE w.meta[q] = None \/ ~w.meta[q].sub
    BY <1>1, <1>2, UnsubscribeFacts
  <1>3. CASE w.meta[q] # None /\ w.meta[q].sub
    <2>1. d \in Docs /\ w.subs[d] # None /\ w.subs[d] \in Subs
      BY <1>1, <1>3, BooksSay DEF Listens
    <2>2. Leaves(w, y, q, d)
      BY <1>1, <1>3, <2>1, UnsubscribeFacts
    <2> HIDE DEF y, d
    <2>3. /\ y \in Workers /\ y.out = w.out /\ y.meta = [w.meta EXCEPT ![q] = Quit(@)]
          /\ \/ y.subs = [w.subs EXCEPT ![d] = None] /\ y.stream = Trimmed(w.stream, d)
             \/ y.subs = [w.subs EXCEPT ![d] = Left(@, q)] /\ y.stream = w.stream
      BY <2>2 DEF Leaves
    <2>4. /\ Quit(w.meta[q]) # None /\ Quit(w.meta[q]).seen = w.meta[q].seen
      BY <1>1, <1>3, MetaFacts
    <2>5. \A r \in Ports : y.meta[r] = IF r = q THEN Quit(w.meta[q]) ELSE w.meta[r]
      BY <1>1, <2>3 DEF Workers
    <2>6. \A r \in Ports : /\ y.meta[r] = None <=> w.meta[r] = None
                           /\ w.meta[r] # None => y.meta[r].seen = w.meta[r].seen
      BY <1>3, <2>4, <2>5
    <2>7. /\ \A c \in Docs : c # d => y.subs[c] = w.subs[c]
          /\ \/ y.subs[d] = None /\ y.stream = Trimmed(w.stream, d)
             \/ y.subs[d] = Left(w.subs[d], q) /\ y.stream = w.stream
      <3>1. w.subs \in [Docs -> Subs \cup {None}]
        BY <1>1 DEF Workers
      <3> QED BY <2>1, <2>3, <3>1
    <2>8. LET s == Left(w.subs[d], q)
          IN  s # None /\ s.ports \subseteq w.subs[d].ports /\ s.since = w.subs[d].since
              /\ s.opened = w.subs[d].opened /\ s.content = w.subs[d].content
      BY <2>1, SubFacts
    <2>9. StreamOrder(y)
      <3>1. w.stream \in Streams \cup {None}
        BY <1>1 DEF Workers
      <3>2. y.stream # None /\ w.stream # None /\ d \in y.stream.docs => y.subs[d] = Left(w.subs[d], q)
        BY <2>1, <2>7, <3>1, TrimmedFacts
      <3> QED BY <1>1, <2>1, <2>7, <2>8, <3>2, StreamStays
    <2>10. SubOrder(y)
      <3>1. \A c \in Open(w) : w.subs[c].ports \subseteq Ports /\ \A r \in w.subs[c].ports : w.meta[r] # None
        BY <1>1, BooksSay DEF Listens
      <3>2. Open(y) \subseteq Open(w)
        BY <2>1, <2>7 DEF Open
      <3>3. ASSUME NEW c \in Open(y)
            PROVE  /\ y.subs[c].since = w.subs[c].since /\ y.subs[c].opened = w.subs[c].opened
                   /\ y.subs[c].content = w.subs[c].content /\ y.subs[c].ports \subseteq w.subs[c].ports
                   /\ \A r \in y.subs[c].ports : y.meta[r].seen = w.meta[r].seen
        <4>1. c \in Docs /\ y.subs[c] # None
          BY DEF Open
        <4>2. /\ y.subs[c].since = w.subs[c].since /\ y.subs[c].opened = w.subs[c].opened
              /\ y.subs[c].content = w.subs[c].content /\ y.subs[c].ports \subseteq w.subs[c].ports
          BY <2>7, <2>8, <4>1
        <4> QED BY <2>6, <3>1, <3>2, <4>2
      <3> QED BY <1>1, <3>2, <3>3, SubsStay
    <2> QED BY <1>1, <2>3, <2>6, <2>9, <2>10 DEF y
  <1> QED BY <1>2, <1>3

\* A document that has been answered has seen nothing beyond its position.
LEMMA LatestRight ==
    ASSUME SyncAssumption, seq \in Nat, NEW sub \in Subs, SubRight(sub)
    PROVE  /\ Latest(sub) \in Nat /\ Latest(sub) <= sub.since
           /\ ~sub.opened => Latest(sub) = 0
           /\ \A n \in Nat : \A e \in Elems(Repeats(sub, n)) :
                 e.t = "frame" /\ n < e.n /\ e.n <= Latest(sub) /\ e.n <= seq /\ e.n \in Nat
           /\ \A n \in Nat : SortedBy(Repeats(sub, n), Rising)
  <1>1. /\ Latest(sub) \in Nat
        /\ \E k \in Kinds : Latest(sub) = sub.content[k]
        /\ \A k \in Kinds : sub.content[k] <= Latest(sub)
    BY LatestFacts
  <1>2. sub.since \in Nat /\ sub.since <= seq /\ \A k \in Kinds : sub.content[k] \in Nat
    BY DEF Subs, SubRight
  <1>3. /\ Latest(sub) <= sub.since
        /\ ~sub.opened => Latest(sub) = 0
    BY <1>1 DEF SubRight, NoContent
  <1>4. ASSUME NEW n \in Nat
        PROVE  /\ \A e \in Elems(Repeats(sub, n)) :
                     e.t = "frame" /\ n < e.n /\ e.n <= Latest(sub) /\ e.n <= seq /\ e.n \in Nat
               /\ SortedBy(Repeats(sub, n), Rising)
    <2>1. LET r == Repeats(sub, n)
          IN  /\ \A e \in Elems(r) : e.t = "frame" /\ e.k \in Kinds /\ e.n = sub.content[e.k] /\ n < e.n
              /\ Distinct(sub) => SortedBy(r, Rising)
      BY RepeatsFacts
    <2> QED BY <1>1, <1>2, <1>3, <2>1 DEF SubRight
  <1> QED BY <1>1, <1>3, <1>4

\* A port hears that its page is visible, or not: it may be sent what it has not seen.
LEMMA ViewOrder ==
    ASSUME SyncAssumption, BooksInv, OrderInv, NEW q \in Ports, w.meta[q] # None,
           NEW y, SameBut(w, y, q),
           LET m == w.meta[q]
               sub == w.subs[DocOf(q)]
           IN  \/ y.out[q] = <<>> /\ y.meta[q].seen = m.seen
               \/ /\ m.sub
                  /\ y.out[q] = Repeats(sub, m.seen)
                  /\ y.meta[q].seen = Higher(m.seen, Latest(sub))
    PROVE  /\ y \in Workers /\ StreamOrder(y) /\ SubOrder(y)
           /\ \A r \in Ports : Shows(y, r)
  <1> DEFINE m == w.meta[q]
             d == DocOf(q)
             sub == w.subs[d]
  <1>1. /\ w \in Workers /\ Books(w) /\ \A r \in Ports : w.out[r] = <<>>
        /\ d \in Docs /\ m \in Metas /\ m.seen \in Nat
        /\ StreamOrder(w) /\ SubOrder(w) /\ seq \in Nat
    BY PortDocs, BooksSay, PortKnown DEF OrderInv
  <1>2. /\ y \in Workers /\ y.subs = w.subs /\ y.stream = w.stream
        /\ \A r \in Ports : r # q => y.meta[r] = w.meta[r] /\ y.out[r] = w.out[r]
        /\ y.meta[q] # None
    BY DEF SameBut
  <1>3. StreamOrder(y)
    BY <1>1, <1>2 DEF StreamOrder
  <1>4. \A r \in Ports : r # q => Shows(y, r)
    BY <1>1, <1>2, ShowsNothing
  <1>5. CASE y.out[q] = <<>> /\ y.meta[q].seen = m.seen
    <2>1. Shows(y, q)
      BY <1>2, <1>5, ShowsNothing
    <2>2. SubOrder(y)
      <3>1. \A c \in Open(w) : w.subs[c].ports \subseteq Ports
        BY <1>1, BooksSay
      <3>2. Open(y) = Open(w)
        BY <1>2 DEF Open
      <3>3. \A r \in Ports : y.meta[r].seen = w.meta[r].seen
        BY <1>2, <1>5
      <3> QED BY <1>1, <1>2, <3>1, <3>2, <3>3, SubsStay
    <2> QED BY <1>2, <1>3, <1>4, <2>1, <2>2
  <1>6. CASE /\ m.sub
             /\ y.out[q] = Repeats(sub, m.seen)
             /\ y.meta[q].seen = Higher(m.seen, Latest(sub))
    <2>1. d \in Open(w) /\ q \in sub.ports /\ sub \in Subs
      BY <1>1, <1>6, BooksSay DEF Listens
    <2>2. SubRight(sub) /\ SeenRight(m, sub)
      BY <1>1, <2>1 DEF SubOrder
    <2>3. /\ Latest(sub) \in Nat /\ Latest(sub) <= sub.since
          /\ ~sub.opened => Latest(sub) = 0
          /\ \A e \in Elems(Repeats(sub, m.seen)) :
                e.t = "frame" /\ m.seen < e.n /\ e.n <= Latest(sub) /\ e.n <= seq /\ e.n \in Nat
          /\ SortedBy(Repeats(sub, m.seen), Rising)
      BY <1>1, <2>1, <2>2, LatestRight
    <2> HIDE DEF m, sub, d
    <2>4. y.meta[q].seen \in Nat /\ m.seen <= y.meta[q].seen /\ Latest(sub) <= y.meta[q].seen
      BY <1>1, <1>6, <2>3 DEF Higher
    <2>5. Shows(y, q)
      BY <1>2, <1>6, <2>3, <2>4 DEF Shows, m
    <2>6. SeenRight(y.meta[q], sub)
      <3>1. m.seen <= sub.since /\ (~sub.opened => m.seen = 0)
        BY <2>2 DEF SeenRight
      <3>2. y.meta[q].seen = m.seen \/ y.meta[q].seen = Latest(sub)
        BY <1>6 DEF Higher
      <3> QED BY <2>3, <3>1, <3>2 DEF SeenRight
    <2>7. SubOrder(y)
      <3> SUFFICES ASSUME NEW c \in Open(y)
                   PROVE  SubRight(y.subs[c]) /\ \A r \in y.subs[c].ports : SeenRight(y.meta[r], y.subs[c])
        BY DEF SubOrder
      <3>1. c \in Open(w) /\ y.subs[c] = w.subs[c]
        BY <1>2 DEF Open
      <3>2. SubRight(w.subs[c]) /\ \A r \in w.subs[c].ports : r \in Ports /\ SeenRight(w.meta[r], w.subs[c])
        BY <1>1, <3>1, BooksSay DEF SubOrder
      <3>3. q \in w.subs[c].ports => c = d
        BY <1>1, <3>1, BooksSay DEF d
      <3> QED BY <1>2, <2>6, <3>1, <3>2, <3>3 DEF sub
    <2> QED BY <1>2, <1>3, <1>4, <2>5, <2>7
  <1> QED BY <1>5, <1>6

\* A port that connects is greeted, and shown what its document has.
LEMMA ConnectOrder ==
    ASSUME SyncAssumption, BooksInv, OrderInv, NEW q \in Ports, Dialling(q), DocOf(q) \in Docs,
           NEW y, NEW v \in BOOLEAN, NEW since \in Nat, since <= seq, Connects(w, y, q, v, since)
    PROVE  /\ y \in Workers /\ StreamOrder(y) /\ SubOrder(y)
           /\ \A r \in Ports : Shows(y, r)
  <1> DEFINE d == DocOf(q)
             sub == w.subs[d]
             g == Greeting(w)
  <1>1. /\ w \in Workers /\ Books(w) /\ \A r \in Ports : w.out[r] = <<>>
        /\ w.meta[q] = None
        /\ StreamOrder(w) /\ SubOrder(w) /\ seq \in Nat
    BY PortDocs, PortKnown DEF OrderInv
  <1>2. /\ OnlyPort(w, y, q, d)
        /\ \/ TurnedAway(w, y, q, d)
           \/ Opened(w, y, q, d, v, since)
           \/ JoinedEarly(w, y, q, d, v, since)
           \/ JoinedLate(w, y, q, d, v, since)
    BY DEF Connects
  <1> HIDE DEF d, sub
  <1>3. /\ y \in Workers /\ y.stream = w.stream
        /\ \A r \in Ports : r # q => y.meta[r] = w.meta[r] /\ y.out[r] = w.out[r]
        /\ \A e \in Docs : e # d => y.subs[e] = w.subs[e]
        /\ d \in Docs
    BY <1>2 DEF OnlyPort, d
  <1>4. \A r \in Ports : r # q => Shows(y, r)
    BY <1>1, <1>3, ShowsNothing
  <1>5. g \in DownMsgs /\ g.t = "status" /\ g.n = 0
    BY <1>1, StatusMsg DEF Greeting, Msg, Workers
  <1> HIDE DEF g
  <1>6. w.subs[d] # None => d \in Open(w) /\ sub \in Subs /\ SubRight(sub)
                            /\ \A r \in sub.ports : r \in Ports /\ SeenRight(w.meta[r], sub)
    BY <1>1, <1>3, BooksSay DEF SubOrder, sub
  <1>7. \A c \in Open(w) : q \notin w.subs[c].ports /\ w.subs[c].ports \subseteq Ports
    BY <1>1, BooksSay DEF Listens
  <1>8. w.stream # None => w.stream.docs \subseteq Open(w)
    BY <1>1, BooksSay DEF StreamOK
  <1>9. SubOrder(y)
        <=> (d \in Open(y) => SubRight(y.subs[d])
                              /\ \A r \in y.subs[d].ports : SeenRight(y.meta[r], y.subs[d]))
    <2>1. ASSUME NEW c \in Open(y), c # d
          PROVE  SubRight(y.subs[c]) /\ \A r \in y.subs[c].ports : SeenRight(y.meta[r], y.subs[c])
      <3>1. c \in Open(w) /\ y.subs[c] = w.subs[c]
        BY <1>3, <2>1 DEF Open
      <3>2. SubRight(w.subs[c]) /\ \A r \in w.subs[c].ports : SeenRight(w.meta[r], w.subs[c])
        BY <1>1, <3>1 DEF SubOrder
      <3> QED BY <1>3, <1>7, <3>1, <3>2
    <2> QED BY <2>1 DEF SubOrder
  <1>10. \A c \in Docs : w.stream # None /\ c \in w.stream.docs /\ c # d => y.subs[c] = w.subs[c]
    BY <1>3
  <1>11. (w.stream # None /\ d \in w.stream.docs
              => y.subs[d].opened = w.subs[d].opened
                 /\ (w.subs[d].opened => y.subs[d].since = w.subs[d].since))
         => StreamOrder(y)
    BY <1>1, <1>3, <1>10, StreamStays
  <1>12. CASE TurnedAway(w, y, q, d)
    <2>1. /\ y.subs[d] = None /\ y.out[q] = <<g, Msg("gone", 0, None, FALSE)>> /\ w.subs[d] = None
      BY <1>12 DEF TurnedAway, g
    <2>2. d \notin Open(y) /\ d \notin Open(w)
      BY <2>1 DEF Open
    <2>3. Shows(y, q)
      <3> DEFINE m == Msg("gone", 0, None, FALSE)
      <3>1. m \in DownMsgs /\ m.t = "gone" /\ m.n = 0
        BY GoneMsg DEF Msg
      <3>2. y.out[q] = <<g, m>>
        BY <2>1
      <3> HIDE DEF m
      <3>3. Elems(<<g, m>>) = {g, m}
        BY <1>5, <3>1, TwoElems
      <3>4. \A e \in Elems(y.out[q]) : e.t # "frame" /\ e.n <= seq
        BY <1>1, <1>5, <3>1, <3>2, <3>3
      <3> QED BY <1>1, <1>3, <3>4, ShowsPlain
    <2> QED BY <1>3, <1>4, <1>8, <1>9, <1>11, <2>2, <2>3
  <1>13. ASSUME y.out[q] = <<g>> PROVE Shows(y, q)
    <2>1. \A e \in Elems(y.out[q]) : e.t # "frame" /\ e.n <= seq
      BY <1>1, <1>5, <1>13, OneElem
    <2> QED BY <1>1, <1>3, <2>1, ShowsPlain
  <1>14. CASE Opened(w, y, q, d, v, since)
    <2>1. /\ w.subs[d] = None /\ y.subs[d] = With(FreshSub(since), q)
          /\ y.meta[q] = NewMeta(v, since) /\ y.out[q] = <<g>>
      BY <1>14 DEF Opened, g
    <2>2. LET s == FreshSub(since)
          IN  s \in Subs /\ ~s.opened /\ s.content = NoContent /\ s.ports = {} /\ s.since = since
      BY FreshSubFacts
    <2>3. LET s == With(FreshSub(since), q)
          IN  ~s.opened /\ s.content = NoContent /\ s.ports = {q} /\ s.since = since
      BY <2>2, SubFacts
    <2>4. y.meta[q].seen = 0
      BY <2>1, NewMetaFacts
    <2>5. SubRight(y.subs[d]) /\ \A r \in y.subs[d].ports : SeenRight(y.meta[r], y.subs[d])
      BY <2>1, <2>3, <2>4 DEF SubRight, SeenRight, NoContent, Distinct
    <2>6. d \notin Open(w)
      BY <2>1 DEF Open
    <2> QED BY <1>3, <1>4, <1>8, <1>9, <1>11, <1>13, <2>1, <2>5, <2>6
  <1>15. CASE JoinedEarly(w, y, q, d, v, since)
    <2>1. /\ w.subs[d] # None /\ ~sub.opened /\ y.subs[d] = With(Lowered(sub, since), q)
          /\ y.meta[q] = NewMeta(v, since) /\ y.out[q] = <<g>>
      BY <1>15 DEF JoinedEarly, sub, g
    <2>2. LET s == Lowered(sub, since)
          IN  /\ s \in Subs /\ ~s.opened /\ s.content = sub.content /\ s.ports = sub.ports
              /\ s.since = sub.since \/ s.since = since
      <3>1. sub \in Subs
        BY <1>6, <2>1 DEF sub
      <3> DEFINE s == Lowered(sub, since)
      <3>2. /\ s \in Subs /\ s.opened = sub.opened /\ s.content = sub.content /\ s.ports = sub.ports
            /\ s.since = sub.since \/ (~sub.opened /\ s.since = since)
        BY <3>1, LoweredFacts
      <3> HIDE DEF s
      <3>3. s.opened \in BOOLEAN /\ sub.opened \in BOOLEAN
        BY <3>1, <3>2 DEF Subs
      <3>4. ~s.opened /\ (s.since = sub.since \/ s.since = since)
        BY <2>1, <3>2, <3>3
      <3> QED BY <3>2, <3>4 DEF s
    <2>3. LET s == With(Lowered(sub, since), q)
          IN  /\ s.since \in Nat /\ ~s.opened /\ s.content = sub.content /\ s.ports = sub.ports \cup {q}
              /\ s.since = sub.since \/ s.since = since
      BY <2>2, SubFacts DEF Subs
    <2>4. y.meta[q].seen = 0
      BY <2>1, NewMetaFacts
    <2>5. SubRight(y.subs[d])
      <3>1. sub.content = NoContent /\ sub.since <= seq /\ Distinct(sub)
        BY <1>6, <2>1 DEF SubRight
      <3> QED BY <2>1, <2>3, <3>1 DEF SubRight, NoContent, Distinct
    <2>6. ASSUME NEW r \in y.subs[d].ports PROVE SeenRight(y.meta[r], y.subs[d])
      <3>1. y.meta[r].seen = 0
        <4>1. CASE r = q
          BY <2>4, <4>1
        <4>2. CASE r # q
          <5>1. r \in sub.ports
            BY <2>1, <2>3, <2>6, <4>2
          <5> QED BY <1>3, <1>6, <2>1, <4>2, <5>1 DEF SeenRight
        <4> QED BY <4>1, <4>2
      <3> QED BY <2>1, <2>3, <3>1 DEF SeenRight
    <2>7. ~y.subs[d].opened /\ ~w.subs[d].opened /\ y.subs[d].opened = w.subs[d].opened
      <3>1. w.subs[d].opened \in BOOLEAN /\ y.subs[d].opened \in BOOLEAN
        BY <1>6, <2>1, <2>2, SubFacts DEF Subs, sub
      <3> QED BY <2>1, <2>3, <3>1 DEF sub
    <2> QED BY <1>3, <1>4, <1>9, <1>11, <1>13, <2>1, <2>5, <2>6, <2>7
  <1>16. CASE JoinedLate(w, y, q, d, v, since)
    <2>1. /\ w.subs[d] # None /\ sub.opened /\ y.subs[d] = With(sub, q)
          /\ y.meta[q] # None /\ y.meta[q].seen = IF v THEN Latest(sub) ELSE 0
          /\ \E c \in DownMsgs :
                /\ c.t = "cursor" /\ c.n = sub.since
                /\ y.out[q] = <<g, c>> \o (IF v THEN Repeats(sub, 0) ELSE <<>>)
      BY <1>16 DEF JoinedLate, sub, g
    <2>2. /\ sub \in Subs /\ sub.since <= seq /\ sub.since \in Nat
          /\ Latest(sub) \in Nat /\ Latest(sub) <= sub.since
          /\ \A e \in Elems(Repeats(sub, 0)) :
                e.t = "frame" /\ 0 < e.n /\ e.n <= Latest(sub) /\ e.n <= seq /\ e.n \in Nat
          /\ SortedBy(Repeats(sub, 0), Rising)
      BY <1>1, <1>6, <2>1, LatestRight DEF SubRight, Subs
    <2>3. LET s == With(sub, q)
          IN  /\ s.since = sub.since /\ s.opened = sub.opened /\ s.content = sub.content
              /\ s.ports = sub.ports \cup {q}
      BY <2>2, SubFacts
    <2>4. Shows(y, q)
      <3>1. PICK c \in DownMsgs : /\ c.t = "cursor" /\ c.n = sub.since
                                  /\ y.out[q] = <<g, c>> \o (IF v THEN Repeats(sub, 0) ELSE <<>>)
        BY <2>1
      <3> DEFINE t == IF v THEN Repeats(sub, 0) ELSE <<>>
      <3>2. /\ t \in Seq(DownMsgs) /\ SortedBy(t, Rising)
            /\ \A e \in Elems(t) : v /\ e.t = "frame" /\ 0 < e.n /\ e.n <= Latest(sub) /\ e.n <= seq
        BY <2>2, NoElems, RepeatsFacts DEF SortedBy
      <3>3. /\ <<g, c>> \in Seq(DownMsgs) /\ Elems(<<g, c>>) = {g, c}
            /\ \A e \in Elems(<<g, c>>) : e.t # "frame" /\ e.n <= seq
            /\ DOMAIN <<g, c>> = {1, 2} /\ <<g, c>>[1] = g /\ <<g, c>>[2] = c
        <4>1. /\ <<g, c>> \in Seq(DownMsgs) /\ Elems(<<g, c>>) = {g, c}
              /\ DOMAIN <<g, c>> = {1, 2} /\ <<g, c>>[1] = g /\ <<g, c>>[2] = c
          BY <1>5, TwoElems
        <4>2. \A e \in {g, c} : e.t # "frame" /\ e.n <= seq
          BY <1>1, <1>5, <2>2, <3>1
        <4> QED BY <4>1, <4>2
      <3>4. SortedBy(<<g, c>>, Rising)
        BY <1>5, <3>1, <3>3 DEF SortedBy, Rising
      <3>5. \A e \in Elems(<<g, c>>), f \in Elems(t) : <<e, f>> \in Rising
        <4>1. \A f \in Elems(t) : f \in DownMsgs
          BY <3>2 DEF Elems
        <4> QED BY <1>5, <3>1, <3>3, <4>1 DEF Rising
      <3> HIDE DEF t
      <3>6. LET s == <<g, c>> \o t
            IN  Elems(s) = Elems(<<g, c>>) \cup Elems(t) /\ SortedBy(s, Rising)
        BY <3>2, <3>3, <3>4, <3>5, ConcatElems
      <3>7. y.out[q] = <<g, c>> \o t
        BY <3>1 DEF t
      <3>8. y.meta[q] # None /\ (v => y.meta[q].seen = Latest(sub))
        BY <2>1
      <3> QED BY <1>1, <3>2, <3>3, <3>6, <3>7, <3>8 DEF Shows
    <2>5. SubRight(y.subs[d])
      BY <1>6, <2>1, <2>3 DEF SubRight, Distinct
    <2>6. ASSUME NEW r \in y.subs[d].ports PROVE SeenRight(y.meta[r], y.subs[d])
      <3>1. CASE r = q
        BY <2>1, <2>2, <2>3, <3>1 DEF SeenRight
      <3>2. CASE r # q
        <4>1. r \in sub.ports
          BY <2>1, <2>3, <2>6, <3>2
        <4> QED BY <1>3, <1>6, <2>1, <2>3, <3>2, <4>1 DEF SeenRight
      <3> QED BY <3>1, <3>2
    <2> QED BY <1>3, <1>4, <1>9, <1>11, <2>1, <2>3, <2>4, <2>5, <2>6 DEF sub
  <1> QED BY <1>2, <1>12, <1>14, <1>15, <1>16

\* The worker's answer to one message of a port.
LEMMA HandledOrder ==
    ASSUME SyncAssumption, BooksInv, OrderInv, NEW q \in Ports, NEW m \in UpMsgs, m.n <= seq,
           m.t = "connect" => Dialling(q) /\ port[q].page # None
    PROVE  LET y == Handled(w, q, m)
           IN  y \in Workers /\ StreamOrder(y) /\ SubOrder(y) /\ \A r \in Ports : Shows(y, r)
  <1> DEFINE y == Handled(w, q, m)
             v == [w EXCEPT !.meta[q].visible = TRUE]
             h == [w EXCEPT !.meta[q].visible = FALSE]
  <1>1. /\ w \in Workers /\ Books(w) /\ \A r \in Ports : w.out[r] = <<>>
        /\ StreamOrder(w) /\ SubOrder(w)
    BY PortDocs DEF OrderInv
  <1>2. \/ m.t = "connect" /\ w.meta[q] = None /\ Connects(w, y, q, m.r, m.n)
        \/ m.t # "connect" /\ w.meta[q] = None /\ y = w
        \/ m.t = "unsubscribe" /\ w.meta[q] # None /\ y = Unsubscribe(w, q)
        \/ m.t = "visible" /\ w.meta[q] # None /\ y = DeliverLatest(v, q)
        \/ m.t = "hidden" /\ w.meta[q] # None /\ y = h
    BY HandledCases
  <1>3. CASE m.t = "connect" /\ w.meta[q] = None /\ Connects(w, y, q, m.r, m.n)
    <2>1. DocOf(q) \in Docs /\ Dialling(q) /\ m.r \in BOOLEAN /\ m.n \in Nat
      BY <1>3, PortDocs DEF UpMsgs
    <2> HIDE DEF y
    <2> QED BY <1>3, <2>1, ConnectOrder DEF y
  <1>4. CASE y = w
    <2>1. \A r \in Ports : Shows(w, r)
      BY <1>1, ShowsNothing
    <2> QED BY <1>1, <1>4, <2>1
  <1>5. CASE y = Unsubscribe(w, q)
    <2> DEFINE u == Unsubscribe(w, q)
    <2>1. /\ u \in Workers /\ StreamOrder(u) /\ SubOrder(u)
          /\ \A r \in Ports : u.out[r] = <<>>
          /\ \A r \in Ports : /\ u.meta[r] = None <=> w.meta[r] = None
                              /\ w.meta[r] # None => u.meta[r].seen = w.meta[r].seen
      BY UnsubscribeOrder
    <2> HIDE DEF u
    <2>2. \A r \in Ports : Shows(u, r)
      BY <2>1, ShowsNothing
    <2> QED BY <1>5, <2>1, <2>2 DEF u
  <1>6. CASE w.meta[q] # None /\ y = DeliverLatest(v, q)
    <2> DEFINE z == DeliverLatest(v, q)
               sub == w.subs[DocOf(q)]
    <2>1. w.meta[q].sub => DocOf(q) \in Docs /\ w.subs[DocOf(q)] # None
      BY <1>1, <1>6, PortDocs, BooksSay DEF Listens
    <2>2. /\ SameBut(w, z, q) /\ z.meta[q].visible
          /\ ~w.meta[q].sub => z.out[q] = w.out[q] /\ z.meta[q].seen = w.meta[q].seen
          /\ w.meta[q].sub => /\ z.out[q] = w.out[q] \o Repeats(sub, w.meta[q].seen)
                              /\ z.meta[q].seen = Higher(w.meta[q].seen, Latest(sub))
      BY <1>1, <1>6, <2>1, VisibleFacts
    <2> HIDE DEF z
    <2>3. w.meta[q].sub => z.out[q] = Repeats(sub, w.meta[q].seen)
      <3>1. ASSUME w.meta[q].sub PROVE Repeats(sub, w.meta[q].seen) \in Seq(DownMsgs)
        <4>1. sub \in Subs /\ w.meta[q].seen \in Nat
          BY <1>1, <1>6, <2>1, <3>1, PortKnown DEF Workers
        <4> HIDE DEF sub
        <4> QED BY <4>1, RepeatsFacts
      <3> DEFINE t == Repeats(sub, w.meta[q].seen)
      <3>2. w.meta[q].sub => z.out[q] = w.out[q] \o t /\ t \in Seq(DownMsgs)
        BY <2>2, <3>1
      <3>3. w.out[q] = <<>>
        BY <1>1
      <3> HIDE DEF t
      <3>4. w.meta[q].sub => z.out[q] = t
        BY <3>2, <3>3
      <3> QED BY <3>4 DEF t
    <2>4. \/ z.out[q] = <<>> /\ z.meta[q].seen = w.meta[q].seen
          \/ /\ w.meta[q].sub
             /\ z.out[q] = Repeats(sub, w.meta[q].seen)
             /\ z.meta[q].seen = Higher(w.meta[q].seen, Latest(sub))
      BY <1>1, <2>2, <2>3
    <2>5. z \in Workers /\ StreamOrder(z) /\ SubOrder(z) /\ \A r \in Ports : Shows(z, r)
      BY <1>6, <2>2, <2>4, ViewOrder
    <2> QED BY <1>6, <2>5 DEF z
  <1>7. CASE w.meta[q] # None /\ y = h
    <2>1. SameBut(w, h, q) /\ h.out = w.out /\ h.meta[q].seen = w.meta[q].seen
      BY <1>1, <1>7, ViewedFacts
    <2> HIDE DEF h
    <2>2. h.out[q] = <<>> /\ h.meta[q].seen = w.meta[q].seen
      BY <1>1, <2>1
    <2>3. h \in Workers /\ StreamOrder(h) /\ SubOrder(h) /\ \A r \in Ports : Shows(h, r)
      BY <1>7, <2>1, <2>2, ViewOrder
    <2> QED BY <1>7, <2>3
  <1> QED BY <1>2, <1>3, <1>4, <1>5, <1>6, <1>7

\* A handler of a page's message.
LEMMA HandleOrder ==
    ASSUME SyncAssumption, BooksInv, OrderInv, NEW q \in Ports, Handle(q) PROVE OrderInv'
  <1> DEFINE m == Head(port[q].up)
             ps == [port EXCEPT ![q].up = Tail(@)]
             y == Handled(w, q, m)
  <1>1. port[q].up # <<>> /\ Returns(y, ps) /\ UNCHANGED <<of, cap, page, seq, log>>
    BY DEF Handle, hostVars
  <1>2. /\ ps \in [Ports -> PortRecords]
        /\ m \in UpMsgs /\ port[q].page # None
        /\ m.t = "connect" => Dialling(q)
        /\ \A r \in Ports : r # q => ps[r] = port[r]
        /\ ps[q].up = Tail(port[q].up)
        /\ ps[q].closed = port[q].closed /\ ps[q].down = port[q].down
    BY <1>1, UpTail
  <1>3. /\ Elems(port[q].up) = Elems(Tail(port[q].up)) \cup {m}
        /\ m.n <= seq
    <2>1. port[q].up \in Seq(UpMsgs) /\ PortOrder(q)
      BY PortKnown
    <2>2. Elems(port[q].up) = Elems(Tail(port[q].up)) \cup {m}
      BY <1>1, <2>1, TailElems
    <2> QED BY <2>1, <2>2 DEF PortOrder
  <1>4. \A r \in Ports : Reads(ps[r], port[r])
    BY <1>2, <1>3 DEF Reads
  <1> HIDE DEF m, ps
  <1>5. y \in Workers /\ StreamOrder(y) /\ SubOrder(y) /\ \A r \in Ports : Shows(y, r)
    BY <1>2, <1>3, HandledOrder
  <1> HIDE DEF y
  <1> QED BY <1>1, <1>2, <1>4, <1>5, WorkerOrder

\* A port that is dropped takes nothing from the others.
LEMMA SweepOrder ==
    ASSUME SyncAssumption, BooksInv, OrderInv, NEW q \in Ports, Sweep(q) PROVE OrderInv'
  <1> DEFINE ps == IF port[q].closed THEN [port EXCEPT ![q] = NoPort] ELSE port
             y == DropPort(w, q)
             u == Unsubscribe(w, q)
  <1>1. port[q].page # None /\ Returns(y, ps) /\ UNCHANGED <<of, cap, page, seq, log>>
    BY DEF Sweep, hostVars
  <1>2. y \in Workers /\ Minus(u, y, q)
    <2>1. Books(w) /\ cap \in Nat /\ (Listens(w, q) => DocOf(q) \in Docs)
      BY <1>1, PortDocs
    <2> HIDE DEF y, u
    <2>2. Books(y) /\ Minus(u, y, q)
      BY <2>1, DropPortBooks DEF y, u
    <2> QED BY <2>2, BooksSay
  <1>3. port \in [Ports -> PortRecords] /\ NoPort \in PortRecords
    BY DEF BooksInv, NoPort, PortRecords
  <1>4. ps \in [Ports -> PortRecords]
    BY <1>3
  <1>5. \A r \in Ports : Reads(ps[r], port[r])
    BY <1>3 DEF Reads
  <1> HIDE DEF ps, y
  <1>6. /\ u \in Workers /\ StreamOrder(u) /\ SubOrder(u)
        /\ \A r \in Ports : u.out[r] = <<>>
        /\ \A r \in Ports : /\ u.meta[r] = None <=> w.meta[r] = None
                            /\ w.meta[r] # None => u.meta[r].seen = w.meta[r].seen
    BY UnsubscribeOrder
  <1> HIDE DEF u
  <1>7. /\ y.subs = u.subs /\ y.stream = u.stream /\ y.out = u.out
        /\ y.meta[q] = None /\ \A r \in Ports : r # q => y.meta[r] = u.meta[r]
    BY <1>2, <1>6 DEF Minus, Workers
  <1>8. StreamOrder(y)
    BY <1>6, <1>7 DEF StreamOrder
  <1>9. \A r \in Ports : Shows(y, r)
    BY <1>2, <1>6, <1>7, ShowsNothing
  <1>10. SubOrder(y)
    <2>1. \A d \in Open(y) : y.subs[d].ports \subseteq Ports /\ q \notin y.subs[d].ports
      <3>1. Books(y)
        BY <1>1, DropPortQuiet DEF y
      <3> QED BY <1>7, <3>1, BooksSay DEF Listens
    <2>2. Open(y) = Open(u)
      BY <1>7 DEF Open
    <2>3. \A d \in Open(y) : \A r \in y.subs[d].ports : y.meta[r].seen = u.meta[r].seen
      BY <1>7, <2>1
    <2> QED BY <1>6, <1>7, <2>2, <2>3, SubsStay
  <1> QED BY <1>1, <1>2, <1>4, <1>5, <1>8, <1>9, <1>10, WorkerOrder

\* Who is sent one message, or none, has just that to read.
LEMMA OneMessage ==
    ASSUME NEW m \in DownMsgs, NEW s, s = <<>> \/ s = Append(<<>>, m)
    PROVE  /\ \A e \in Elems(s) : e = m
           /\ s = Append(<<>>, m) => Elems(s) = {m} /\ SortedBy(s, Rising)
  <1>1. Append(<<>>, m) = <<m>>
    BY AppendOne
  <1>2. Elems(<<m>>) = {m} /\ DOMAIN <<m>> = {1}
    BY OneElem
  <1>3. SortedBy(<<m>>, Rising)
    BY <1>2 DEF SortedBy
  <1> QED BY <1>1, <1>2, <1>3, NoElems

\* Announcing a state disturbs no order.
LEMMA AnnouncesOrder ==
    ASSUME SyncAssumption, BooksInv, OrderInv, NEW y \in Workers, NEW s \in States, Announces(w, y, s),
           y.meta = w.meta, y.subs = w.subs
    PROVE  SubOrder(y) /\ \A r \in Ports : Shows(y, r)
  <1> DEFINE m == Msg("status", 0, s, FALSE)
  <1>1. w \in Workers /\ (\A r \in Ports : w.out[r] = <<>>) /\ SubOrder(w) /\ seq \in Nat
    BY PortDocs DEF OrderInv, BooksInv, LogOK
  <1>2. m \in DownMsgs /\ m.t = "status" /\ m.n = 0
    BY StatusMsg DEF Msg
  <1>3. \A r \in Ports : y.out[r] = <<>> \/ y.out[r] = Append(<<>>, m)
    BY <1>1 DEF Announces
  <1> HIDE DEF m
  <1>4. ASSUME NEW r \in Ports PROVE Shows(y, r)
    <2>1. \A e \in Elems(y.out[r]) : e = m
      BY <1>2, <1>3, OneMessage
    <2>2. \A e \in Elems(y.out[r]) : e.t # "frame" /\ e.n <= seq
      BY <1>1, <1>2, <2>1
    <2>3. w.meta[r] # None => w.meta[r].seen <= y.meta[r].seen
      BY <1>1 DEF Workers, Metas
    <2> QED BY <2>2, <2>3, ShowsPlain
  <1>5. SubOrder(y)
    BY <1>1 DEF SubOrder, Open
  <1> QED BY <1>4, <1>5

\* A stream opened anew asks for every document where it is.
LEMMA RebuildOrder == ASSUME SyncAssumption, BooksInv, OrderInv, Rebuild PROVE OrderInv'
  <1> DEFINE y == Rebuilt(w)
             s == NewStream(w)
  <1>1. Returns(y, port) /\ UNCHANGED <<of, cap, page, seq, log>>
    BY DEF Rebuild, hostVars
  <1>2. w \in Workers /\ Books(w) /\ SubOrder(w) /\ port \in [Ports -> PortRecords]
    BY PortDocs DEF OrderInv, BooksInv
  <1>3. /\ y \in Workers /\ y.meta = w.meta /\ y.subs = w.subs
        /\ \/ y.stream = None /\ Announces(w, y, "closed")
           \/ y.stream = s /\ Announces(w, y, "connecting")
    BY <1>2, RebuiltFacts
  <1>4. /\ s.docs = Open(w) /\ ~s.joined /\ s.q = <<>>
        /\ DOMAIN s.asked = Open(w)
        /\ \A d \in Open(w) : s.asked[d] = w.subs[d].since
    BY <1>2, NewStreamFacts
  <1> HIDE DEF y, s
  <1>5. StreamOrder(y)
    <2> SUFFICES ASSUME y.stream = s PROVE StreamOrder(y)
      BY <1>3 DEF StreamOrder
    <2>1. \A d \in Open(w) : w.subs[d].since <= seq
      BY <1>2 DEF SubOrder, SubRight
    <2>2. StreamRight(s)
      BY <1>4, <2>1, NoElems DEF StreamRight, SortedBy
    <2>3. \A d \in s.docs : EntryOrder(s, d, y.subs[d])
      BY <1>3, <1>4, NoElems DEF EntryOrder
    <2> QED BY <2>2, <2>3 DEF StreamOrder
  <1>6. SubOrder(y) /\ \A r \in Ports : Shows(y, r)
    BY <1>3, AnnouncesOrder DEF States
  <1>7. \A r \in Ports : Reads(port[r], port[r])
    BY DEF Reads
  <1> QED BY <1>1, <1>2, <1>3, <1>5, <1>6, <1>7, WorkerOrder

\* A broken stream takes what was on its way along.
LEMMA BreakOrder == ASSUME SyncAssumption, BooksInv, OrderInv, Break PROVE OrderInv'
  <1> DEFINE y == Broken(w)
  <1>1. Returns(y, port) /\ UNCHANGED <<of, cap, page, seq, log>>
    BY DEF Break, hostVars
  <1>2. w \in Workers /\ port \in [Ports -> PortRecords]
    BY PortDocs DEF BooksInv
  <1>3. /\ y \in Workers /\ y.meta = w.meta /\ y.subs = w.subs /\ y.stream = None
        /\ Announces(w, y, "connecting")
    BY <1>2, BrokenFacts
  <1> HIDE DEF y
  <1>4. StreamOrder(y)
    BY <1>3 DEF StreamOrder
  <1>5. SubOrder(y) /\ \A r \in Ports : Shows(y, r)
    BY <1>3, AnnouncesOrder DEF States
  <1>6. \A r \in Ports : Reads(port[r], port[r])
    BY DEF Reads
  <1> QED BY <1>1, <1>2, <1>3, <1>4, <1>5, <1>6, WorkerOrder

\* The stream behind its first event.
LEMMA TailOrder ==
    ASSUME SyncAssumption, BooksInv, OrderInv, w.stream # None, w.stream.q # <<>>
    PROVE  LET x == Shorter(w)
               e == Head(w.stream.q)
           IN  /\ w.stream.joined
               /\ StreamRight(x.stream)
               /\ \A d \in x.stream.docs : IsAnswer(e, d) \/ EntryOrder(x.stream, d, x.subs[d])
               /\ \A f \in Elems(x.stream.q) : f \in GoodEvents /\ <<e, f>> \in Following
               /\ Elems(w.stream.q) = Elems(x.stream.q) \cup {e}
  <1> DEFINE x == Shorter(w)
             e == Head(w.stream.q)
             s == w.stream
             t == x.stream
  <1>1. /\ x.subs = w.subs /\ t.docs = s.docs /\ t.asked = s.asked
        /\ t.joined = s.joined /\ t.q = Tail(s.q)
    BY PortDocs, ShorterFacts
  <1>2. s.q \in Seq(GoodEvents)
    BY PortDocs, BooksSay DEF StreamOK
  <1>3. StreamRight(s) /\ \A d \in s.docs : EntryOrder(s, d, w.subs[d])
    BY DEF OrderInv, StreamOrder
  <1> HIDE DEF x, s, t
  <1>4. s.q # <<>>
    BY DEF s
  <1>5. /\ Tail(s.q) \in Seq(GoodEvents)
        /\ Elems(s.q) = Elems(t.q) \cup {e}
        /\ SortedBy(t.q, Following)
        /\ \A f \in Elems(t.q) : <<e, f>> \in Following
    BY <1>1, <1>2, <1>3, <1>4, TailElems DEF StreamRight, s
  <1>6. s.joined
    BY <1>3, <1>4 DEF StreamRight
  <1>7. StreamRight(t)
    BY <1>1, <1>3, <1>5, <1>6 DEF StreamRight
  <1> HIDE DEF e
  <1>8. ASSUME NEW d \in t.docs, ~IsAnswer(e, d)
        PROVE  EntryOrder(t, d, x.subs[d])
    <2>1. EntryOrder(s, d, w.subs[d])
      BY <1>1, <1>3
    <2>2. Due(s, d) => Due(t, d)
      BY <1>5, <1>8 DEF Due
    <2> QED BY <1>1, <1>5, <1>6, <2>1, <2>2 DEF EntryOrder
  <1>9. \A f \in Elems(t.q) : f \in GoodEvents
    BY <1>1, <1>5 DEF Elems
  <1> QED BY <1>5, <1>6, <1>7, <1>8, <1>9 DEF x, s, t, e

\* Behind a document's event come only its frames, in order.
LEMMA BehindFacts ==
    ASSUME NEW e \in GoodEvents, e.t # "open", NEW s,
           \A f \in Elems(s.q) : f \in GoodEvents /\ <<e, f>> \in Following
    PROVE  /\ ~Due(s, e.doc)
           /\ \A f \in Elems(s.q) : f.doc = e.doc => f.t = "frame" /\ (e.t # "error" => e.n < f.n)
  <1>1. \A f \in Elems(s.q) : f.doc = e.doc => f.t = "frame" /\ (e.t # "error" => e.n < f.n)
    BY DEF Following
  <1> QED BY <1>1 DEF Due, IsAnswer

\* A refused document leaves the stream.
LEMMA RefuseOrder ==
    ASSUME SyncAssumption, BooksInv, OrderInv, NEW x, Books(x), NEW d \in Open(x), d \in x.stream.docs,
           x.stream # None, x.subs = w.subs, x.meta = w.meta, x.out = w.out,
           StreamRight(x.stream),
           \A c \in x.stream.docs : c = d \/ EntryOrder(x.stream, c, x.subs[c]),
           NEW y, Refuses(x, y, d)
    PROVE  y \in Workers /\ StreamOrder(y) /\ SubOrder(y) /\ \A r \in Ports : Shows(y, r)
  <1> DEFINE qs == x.subs[d].ports
             m == Msg("gone", 0, None, FALSE)
  <1>1. /\ x \in Workers /\ d \in Docs /\ qs \subseteq Ports /\ \A r \in qs : x.meta[r] # None
        /\ (\A r \in Ports : x.out[r] = <<>>) /\ SubOrder(w) /\ seq \in Nat
        /\ x.stream \in Streams \cup {None}
    BY PortDocs, BooksSay DEF OrderInv, BooksInv, LogOK, Listens, Workers
  <1>2. /\ y \in Workers /\ y.subs = [x.subs EXCEPT ![d] = None]
        /\ y.stream = Trimmed(x.stream, d)
        /\ \A r \in Ports : y.meta[r] = IF r \in qs THEN Quit(x.meta[r]) ELSE x.meta[r]
        /\ \A r \in Ports : y.out[r] = IF r \in qs THEN Append(x.out[r], m) ELSE x.out[r]
    BY DEF Refuses
  <1>3. m \in DownMsgs /\ m.t = "gone" /\ m.n = 0
    BY GoneMsg DEF Msg
  <1> HIDE DEF qs, m
  <1>4. \A c \in Docs : c # d => y.subs[c] = x.subs[c]
    BY <1>1, <1>2 DEF Workers
  <1>5. y.subs[d] = None
    BY <1>1, <1>2 DEF Workers
  <1>6. \A r \in Ports : /\ y.meta[r] = None <=> x.meta[r] = None
                         /\ x.meta[r] # None => y.meta[r].seen = x.meta[r].seen
    <2>1. \A r \in qs : x.meta[r] \in Metas
      BY <1>1 DEF Workers
    <2> QED BY <1>1, <1>2, <2>1, MetaFacts
  <1>7. ASSUME NEW r \in Ports PROVE Shows(y, r)
    <2>1. \A f \in Elems(y.out[r]) : f = m
      BY <1>1, <1>2, <1>3, OneMessage
    <2>2. \A f \in Elems(y.out[r]) : f.t # "frame" /\ f.n <= seq
      BY <1>1, <1>3, <2>1
    <2>3. y.meta[r] # None => w.meta[r] # None /\ w.meta[r].seen <= y.meta[r].seen
      BY <1>1, <1>6 DEF Workers, Metas
    <2> QED BY <1>2, <2>2, <2>3, ShowsPlain
  <1>8. StreamOrder(y)
    <2>1. /\ y.stream.docs = x.stream.docs \ {d} /\ y.stream.asked = x.stream.asked
          /\ y.stream.joined = x.stream.joined /\ y.stream.q = x.stream.q
      BY <1>1, <1>2, TrimmedFacts
    <2>2. StreamRight(y.stream)
      BY <2>1 DEF StreamRight
    <2>3. ASSUME NEW c \in y.stream.docs PROVE EntryOrder(y.stream, c, y.subs[c])
      <3>1. c \in Docs /\ c # d /\ c \in x.stream.docs
        BY <1>1, <2>1, StreamParts
      <3>2. EntryOrder(x.stream, c, x.subs[c]) /\ y.subs[c] = x.subs[c]
        BY <1>4, <3>1
      <3> QED BY <2>1, <3>2 DEF EntryOrder, Due
    <2> QED BY <2>2, <2>3 DEF StreamOrder
  <1>9. SubOrder(y)
    <2>1. Open(y) \subseteq Open(w) /\ \A c \in Open(y) : y.subs[c] = w.subs[c]
      BY <1>4, <1>5 DEF Open
    <2>2. \A c \in Open(w) : w.subs[c].ports \subseteq Ports /\ \A r \in w.subs[c].ports : w.meta[r] # None
      BY PortDocs, BooksSay DEF Listens
    <2>3. ASSUME NEW c \in Open(y), NEW r \in y.subs[c].ports PROVE y.meta[r].seen = w.meta[r].seen
      BY <1>6, <2>1, <2>2
    <2> QED BY <1>1, <2>1, <2>3, SubsStay
  <1> QED BY <1>2, <1>7, <1>8, <1>9

\* A document that is answered goes on from the answer.
LEMMA CursorOrder ==
    ASSUME SyncAssumption, BooksInv, OrderInv, NEW x, Books(x), NEW d \in Open(x), d \in x.stream.docs,
           x.stream # None, x.subs = w.subs, x.meta = w.meta, x.out = w.out, x.stream.joined,
           StreamRight(x.stream),
           \A c \in x.stream.docs : c = d \/ EntryOrder(x.stream, c, x.subs[c]),
           NEW n \in Nat, n <= seq, 0 < n, NEW resync \in BOOLEAN,
           w.subs[d].opened => n = w.subs[d].since,
           \A f \in Elems(x.stream.q) : f.doc = d => f.t = "frame" /\ n < f.n,
           NEW y, Cursors(x, y, d, n, resync)
    PROVE  y \in Workers /\ StreamOrder(y) /\ SubOrder(y) /\ \A r \in Ports : Shows(y, r)
  <1> DEFINE qs == x.subs[d].ports
             sub == x.subs[d]
             a == Answered(sub, n, resync)
  <1>1. /\ x \in Workers /\ d \in Docs /\ qs \subseteq Ports /\ \A r \in qs : x.meta[r] # None
        /\ (\A r \in Ports : x.out[r] = <<>>) /\ SubOrder(w) /\ seq \in Nat
        /\ x.stream \in Streams /\ sub \in Subs /\ Open(x) = Open(w)
    <2>1. (\A r \in Ports : w.out[r] = <<>>) /\ SubOrder(w) /\ seq \in Nat
      BY PortDocs DEF OrderInv, BooksInv, LogOK
    <2>2. /\ x \in Workers /\ d \in Docs /\ x.subs[d] \in Subs /\ x.subs[d].ports \subseteq Ports
          /\ \A r \in x.subs[d].ports : x.meta[r] # None
      BY BooksSay DEF Listens
    <2>3. x.stream \in Streams
      BY <2>2 DEF Workers
    <2>4. Open(x) = Open(w)
      BY DEF Open
    <2> QED BY <2>1, <2>2, <2>3, <2>4
  <1>2. /\ y \in Workers /\ y.stream = x.stream
        /\ y.subs = [x.subs EXCEPT ![d] = Answered(@, n, resync)]
        /\ \A r \in Ports : y.meta[r] = IF r \in qs THEN Resumed(x.meta[r]) ELSE x.meta[r]
        /\ \A r \in Ports : r \notin qs => y.out[r] = x.out[r]
        /\ \A r \in qs : \E c \in DownMsgs : c.t = "cursor" /\ c.n = n /\ y.out[r] = Append(x.out[r], c)
    BY DEF Cursors
  <1>3. /\ a.opened /\ a.since = n /\ a.ports = qs
        /\ a.content = IF resync THEN NoContent ELSE sub.content
    <2>1. sub \in Subs
      BY <1>1
    <2> HIDE DEF sub
    <2> QED BY <2>1, AnsweredFacts DEF sub
  <1>4. /\ \A c \in Docs : c # d => y.subs[c] = x.subs[c]
        /\ y.subs[d] = a
    BY <1>1, <1>2 DEF Workers
  <1> HIDE DEF qs, a, sub
  <1>5. \A r \in Ports : /\ y.meta[r] = None <=> x.meta[r] = None
                         /\ x.meta[r] # None => y.meta[r].seen = x.meta[r].seen
    <2>1. \A r \in qs : x.meta[r] \in Metas
      BY <1>1 DEF Workers
    <2> QED BY <1>1, <1>2, <2>1, ResumedFacts
  <1>6. ASSUME NEW r \in Ports PROVE Shows(y, r)
    <2>1. \A f \in Elems(y.out[r]) : f.t = "cursor" /\ f.n = n
      <3>1. CASE r \in qs
        <4>1. PICK c \in DownMsgs : c.t = "cursor" /\ c.n = n /\ y.out[r] = Append(x.out[r], c)
          BY <1>2, <3>1
        <4>2. y.out[r] = Append(<<>>, c)
          BY <1>1, <4>1
        <4>3. Elems(y.out[r]) = {c}
          BY <4>1, <4>2, OneMessage
        <4> QED BY <4>1, <4>3
      <3>2. CASE r \notin qs
        BY <1>1, <1>2, <3>2, NoElems
      <3> QED BY <3>1, <3>2
    <2>2. \A f \in Elems(y.out[r]) : f.t # "frame" /\ f.n <= seq
      BY <2>1
    <2>3. y.meta[r] # None => w.meta[r] # None /\ w.meta[r].seen <= y.meta[r].seen
      BY <1>1, <1>5 DEF Workers, Metas
    <2> QED BY <1>2, <2>2, <2>3, ShowsPlain
  <1>7. StreamOrder(y)
    <2>1. EntryOrder(x.stream, d, y.subs[d])
      BY <1>3, <1>4 DEF EntryOrder
    <2>2. x.stream.docs \subseteq Docs
      BY <1>1, StreamParts
    <2>3. \A c \in x.stream.docs : EntryOrder(x.stream, c, y.subs[c])
      BY <1>4, <2>1, <2>2
    <2> QED BY <1>2, <2>3 DEF StreamOrder
  <1>8. SubRight(sub) /\ \A r \in qs : SeenRight(x.meta[r], sub)
    BY <1>1 DEF SubOrder, sub, qs
  <1>9. SubRight(a)
    <2>1. sub.opened \in BOOLEAN /\ sub.content \in [Kinds -> Nat]
      BY <1>1 DEF Subs
    <2>2. \A k \in Kinds : a.content[k] <= n
      <3>1. CASE resync \/ ~sub.opened
        BY <1>3, <1>8, <3>1 DEF SubRight, NoContent
      <3>2. CASE ~resync /\ sub.opened
        BY <1>3, <1>8, <3>2 DEF SubRight, sub
      <3> QED BY <3>1, <3>2
    <2>3. Distinct(a)
      BY <1>3, <1>8 DEF SubRight, Distinct, NoContent
    <2> QED BY <1>3, <2>2, <2>3 DEF SubRight
  <1>10. \A r \in qs : SeenRight(y.meta[r], a)
    <2>1. sub.opened \in BOOLEAN
      BY <1>1 DEF Subs
    <2> QED BY <1>1, <1>3, <1>5, <1>8, <2>1 DEF SeenRight, sub
  <1>11. SubOrder(y)
    <2> SUFFICES ASSUME NEW c \in Open(y)
                 PROVE  SubRight(y.subs[c]) /\ \A r \in y.subs[c].ports : SeenRight(y.meta[r], y.subs[c])
      BY DEF SubOrder
    <2>1. CASE c = d
      BY <1>3, <1>4, <1>9, <1>10, <2>1
    <2>2. CASE c # d
      <3>1. c \in Open(w) /\ y.subs[c] = w.subs[c]
        BY <1>4, <2>2 DEF Open
      <3>2. SubRight(w.subs[c]) /\ \A r \in w.subs[c].ports : r \in Ports /\ w.meta[r] # None /\ SeenRight(w.meta[r], w.subs[c])
        BY <1>1, <3>1, PortDocs, BooksSay DEF SubOrder, Listens
      <3> QED BY <1>5, <3>1, <3>2 DEF SeenRight
    <2> QED BY <2>1, <2>2
  <1> QED BY <1>2, <1>6, <1>7, <1>11

\* A document's record after a frame.
LEMMA FedFields ==
    ASSUME SyncAssumption, NEW n \in Nat, NEW sub \in Subs, NEW k \in Kinds
    PROVE  LET s == Fed(sub, n, k)
           IN  /\ s.opened = sub.opened /\ s.since = n /\ s.ports = sub.ports
               /\ s.content[k] = n /\ \A l \in Kinds : l # k => s.content[l] = sub.content[l]
  <1>1. LET s == Fed(sub, n, k)
        IN  /\ s \in Subs /\ s # None /\ s.opened = sub.opened /\ s.since = n
            /\ s.ports = sub.ports /\ s.needsResync = sub.needsResync
            /\ s.content[k] = n /\ \A l \in Kinds : l # k => s.content[l] = sub.content[l]
    BY FedFacts, SMTT(30)
  <1> QED BY <1>1

\* A document that is fed goes on from the frame.
LEMMA FeedOrder ==
    ASSUME SyncAssumption, BooksInv, OrderInv, NEW x, Books(x), NEW d \in Open(x), d \in x.stream.docs,
           x.stream # None, x.subs = w.subs, x.meta = w.meta, x.out = w.out, x.stream.joined,
           StreamRight(x.stream),
           \A c \in x.stream.docs : c = d \/ EntryOrder(x.stream, c, x.subs[c]),
           NEW n \in Nat, n <= seq, NEW k \in Kinds, w.subs[d].opened, w.subs[d].since < n,
           \A f \in Elems(x.stream.q) : f.doc = d => f.t = "frame" /\ n < f.n,
           NEW y, Feeds(x, y, d, n, k)
    PROVE  y \in Workers /\ StreamOrder(y) /\ SubOrder(y) /\ \A r \in Ports : Shows(y, r)
  <1> DEFINE sub == x.subs[d]
             qs == {q \in sub.ports : x.meta[q].visible}
             a == Fed(sub, n, k)
             m == Msg("frame", n, k, FALSE)
  <1>1. /\ x \in Workers /\ d \in Docs /\ sub.ports \subseteq Ports /\ \A r \in sub.ports : x.meta[r] # None
        /\ (\A r \in Ports : x.out[r] = <<>>) /\ SubOrder(w) /\ seq \in Nat
        /\ x.stream \in Streams /\ sub \in Subs /\ Open(x) = Open(w)
    <2>1. (\A r \in Ports : w.out[r] = <<>>) /\ SubOrder(w) /\ seq \in Nat
      BY PortDocs DEF OrderInv, BooksInv, LogOK
    <2>2. /\ x \in Workers /\ d \in Docs /\ x.subs[d] \in Subs /\ x.subs[d].ports \subseteq Ports
          /\ \A r \in x.subs[d].ports : x.meta[r] # None
      BY BooksSay DEF Listens
    <2>3. x.stream \in Streams
      BY <2>2 DEF Workers
    <2>4. Open(x) = Open(w)
      BY DEF Open
    <2> QED BY <2>1, <2>2, <2>3, <2>4
  <1>2. Higher(n, sub.since) = n
    BY <1>1 DEF Higher, Subs
  <1>3. /\ y \in Workers /\ y.stream = x.stream
        /\ y.subs = [x.subs EXCEPT ![d] = Fed(@, n, k)]
        /\ \A r \in Ports : y.meta[r] = IF r \in qs THEN Shown(x.meta[r], n) ELSE x.meta[r]
        /\ \A r \in Ports : y.out[r] = IF r \in qs THEN Append(x.out[r], m) ELSE x.out[r]
    BY <1>2 DEF Feeds
  <1>4. /\ a.opened = sub.opened /\ a.since = n /\ a.ports = sub.ports
        /\ a.content[k] = n /\ \A l \in Kinds : l # k => a.content[l] = sub.content[l]
    <2>1. sub \in Subs
      BY <1>1
    <2> HIDE DEF sub
    <2> QED BY <2>1, FedFields
  <1>5. /\ \A c \in Docs : c # d => y.subs[c] = x.subs[c]
        /\ y.subs[d] = a
    BY <1>1, <1>3 DEF Workers
  <1>6. m \in DownMsgs /\ m.t = "frame" /\ m.n = n
    BY FrameMsg
  <1>7. qs \subseteq sub.ports
    OBVIOUS
  <1>8. SubRight(sub) /\ \A r \in sub.ports : SeenRight(x.meta[r], sub)
    BY <1>1 DEF SubOrder
  <1> HIDE DEF qs, a, m
  <1>9. sub.since \in Nat /\ sub.since < n /\ sub.opened /\ sub.content \in [Kinds -> Nat]
    BY <1>1 DEF Subs
  <1> HIDE DEF sub
  <1>10. \A r \in Ports : /\ y.meta[r] = None <=> x.meta[r] = None
                          /\ r \in qs => y.meta[r].seen = n
                          /\ r \notin qs => y.meta[r] = x.meta[r]
    <2>1. \A r \in qs : x.meta[r] \in Metas /\ x.meta[r] # None
      BY <1>1, <1>7 DEF Workers
    <2>2. \A r \in qs : Shown(x.meta[r], n) # None /\ Shown(x.meta[r], n).seen = n
      BY <2>1, FedFacts
    <2> QED BY <1>3, <2>1, <2>2
  <1>11. ASSUME NEW r \in Ports PROVE Shows(y, r)
    <2>1. CASE r \in qs
      <3>1. y.out[r] = Append(<<>>, m)
        BY <1>1, <1>3, <2>1
      <3>2. Elems(y.out[r]) = {m} /\ SortedBy(y.out[r], Rising)
        BY <1>6, <3>1, OneMessage
      <3>4. w.meta[r] # None /\ w.meta[r].seen <= sub.since /\ w.meta[r].seen \in Nat
        BY <1>1, <1>7, <1>8, <2>1, PortKnown DEF SeenRight
      <3>5. y.meta[r] # None /\ y.meta[r].seen = n /\ w.meta[r].seen < n
        BY <1>9, <1>10, <2>1, <3>4
      <3> QED BY <1>6, <3>2, <3>4, <3>5 DEF Shows
    <2>2. CASE r \notin qs
      BY <1>1, <1>3, <1>10, <2>2, ShowsNothing
    <2> QED BY <2>1, <2>2
  <1>12. StreamOrder(y)
    <2>1. EntryOrder(x.stream, d, y.subs[d])
      BY <1>4, <1>5, <1>9 DEF EntryOrder
    <2>2. x.stream.docs \subseteq Docs
      BY <1>1, StreamParts
    <2>3. \A c \in x.stream.docs : EntryOrder(x.stream, c, y.subs[c])
      BY <1>5, <2>1, <2>2
    <2> QED BY <1>3, <2>3 DEF StreamOrder
  <1>13. SubRight(a)
    <2>1. \A l \in Kinds : l # k => a.content[l] <= sub.since /\ a.content[l] \in Nat
      BY <1>4, <1>8, <1>9 DEF SubRight
    <2>2. \A l \in Kinds : a.content[l] <= n
      BY <1>4, <1>9, <2>1
    <2>3. Distinct(a)
      BY <1>4, <1>8, <1>9, <2>1 DEF SubRight, Distinct
    <2> QED BY <1>4, <1>9, <2>2, <2>3 DEF SubRight
  <1>14. \A r \in sub.ports : SeenRight(y.meta[r], a)
    <2> SUFFICES ASSUME NEW r \in sub.ports PROVE y.meta[r].seen <= n
      BY <1>4, <1>9 DEF SeenRight
    <2>1. x.meta[r].seen \in Nat /\ x.meta[r].seen <= sub.since /\ r \in Ports
      BY <1>1, <1>8, PortKnown DEF SeenRight
    <2> QED BY <1>9, <1>10, <2>1
  <1>15. SubOrder(y)
    <2> SUFFICES ASSUME NEW c \in Open(y)
                 PROVE  SubRight(y.subs[c]) /\ \A r \in y.subs[c].ports : SeenRight(y.meta[r], y.subs[c])
      BY DEF SubOrder
    <2>1. CASE c = d
      BY <1>4, <1>5, <1>13, <1>14, <2>1
    <2>2. CASE c # d
      <3>1. c \in Open(w) /\ y.subs[c] = w.subs[c]
        BY <1>5, <2>2 DEF Open
      <3>2. SubRight(w.subs[c]) /\ \A r \in w.subs[c].ports : r \in Ports /\ SeenRight(w.meta[r], w.subs[c])
        BY <1>1, <3>1, PortDocs, BooksSay DEF SubOrder
      <3>3. \A r \in w.subs[c].ports : r \notin sub.ports
        <4>1. \A r \in w.subs[c].ports : DocOf(r) = c
          BY <3>1, <3>2, PortDocs, BooksSay
        <4>2. \A r \in sub.ports : DocOf(r) = d
          BY <1>1, PortDocs, BooksSay DEF sub
        <4> QED BY <2>2, <4>1, <4>2
      <3> QED BY <1>7, <1>10, <3>1, <3>2, <3>3
    <2> QED BY <2>1, <2>2
  <1> QED BY <1>3, <1>11, <1>12, <1>15

\* The worker takes its stream's events in order.
LEMMA ListenOrder == ASSUME SyncAssumption, BooksInv, OrderInv, Listen PROVE OrderInv'
  <1> DEFINE e == Head(w.stream.q)
             x == Shorter(w)
             y == TakeEvent(x, e)
             Good(z) == z \in Workers /\ StreamOrder(z) /\ SubOrder(z) /\ \A r \in Ports : Shows(z, r)
  <1>1. /\ w.stream # None /\ w.stream.q # <<>>
        /\ Returns(y, port) /\ UNCHANGED <<of, cap, page, seq, log>>
    BY DEF Listen, hostVars, Shorter
  <1>2. /\ w \in Workers /\ Books(w) /\ (\A r \in Ports : w.out[r] = <<>>) /\ SubOrder(w)
        /\ port \in [Ports -> PortRecords]
    BY PortDocs DEF OrderInv, BooksInv
  <1>3. /\ x \in Workers /\ Books(x) /\ x.meta = w.meta /\ x.out = w.out
        /\ x.subs = w.subs /\ Open(x) = Open(w)
        /\ x.stream # None /\ x.stream.docs = w.stream.docs /\ x.stream.joined = w.stream.joined
        /\ e \in GoodEvents
    BY <1>1, <1>2, ShorterFacts
  <1>4. /\ w.stream.joined
        /\ StreamRight(x.stream)
        /\ \A d \in x.stream.docs : IsAnswer(e, d) \/ EntryOrder(x.stream, d, x.subs[d])
        /\ \A f \in Elems(x.stream.q) : f \in GoodEvents /\ <<e, f>> \in Following
        /\ Elems(w.stream.q) = Elems(x.stream.q) \cup {e}
    BY <1>1, TailOrder
  <1>5. x.stream.docs \subseteq Open(x)
    BY <1>3, BooksSay DEF StreamOK
  <1>6. /\ e.t \in EventTypes /\ e.n \in Nat /\ e.r \in BOOLEAN
        /\ e.t # "open" => e.doc \in Docs
        /\ e.t = "frame" => e.k \in Kinds
    BY <1>3 DEF GoodEvents, Events
  <1>7. e.n <= seq /\ (e.t = "cursor" => 0 < e.n)
    BY <1>1, <1>4 DEF OrderInv, StreamOrder, StreamRight
  <1>8. ASSUME NEW z, z = y, Good(z) PROVE OrderInv'
    <2>1. \A r \in Ports : Reads(port[r], port[r])
      BY DEF Reads
    <2> HIDE DEF y
    <2> QED BY <1>1, <1>2, <1>8, <2>1, WorkerOrder
  <1> HIDE DEF e, x
  <1>9. SubOrder(x) /\ \A r \in Ports : Shows(x, r)
    <2>1. SubOrder(x)
      BY <1>2, <1>3 DEF SubOrder
    <2> QED BY <1>2, <1>3, <2>1, ShowsNothing
  <1>10. CASE e.t = "open"
    <2> DEFINE z == SetState(x, "open")
    <2>1. z = y
      BY <1>10 DEF TakeEvent
    <2>2. /\ z \in Workers /\ z.meta = x.meta /\ z.subs = x.subs /\ z.stream = x.stream
          /\ Announces(x, z, "open") /\ "open" \in States
      <3>1. "open" \in States
        BY DEF States
      <3> QED BY <1>3, <3>1, SetStateFacts
    <2> HIDE DEF z
    <2>3. StreamOrder(z)
      BY <1>4, <1>10, <2>2 DEF StreamOrder, IsAnswer
    <2>4. SubOrder(z)
      BY <1>3, <1>9, <2>2 DEF SubOrder, Open
    <2>5. ASSUME NEW r \in Ports PROVE Shows(z, r)
      <3> DEFINE m == Msg("status", 0, "open", FALSE)
      <3>1. m \in DownMsgs /\ m.t = "status" /\ m.n = 0
        BY <2>2, StatusMsg DEF Msg
      <3>2. z.out[r] = <<>> \/ z.out[r] = Append(<<>>, m)
        <4>1. x.out[r] = <<>>
          BY <1>2, <1>3
        <4>2. z.out[r] = x.out[r] \/ z.out[r] = Append(x.out[r], m)
          BY <2>2 DEF Announces
        <4> HIDE DEF m
        <4> QED BY <4>1, <4>2
      <3> HIDE DEF m
      <3>3. \A f \in Elems(z.out[r]) : f = m
        BY <3>1, <3>2, OneMessage
      <3>4. \A f \in Elems(z.out[r]) : f.t # "frame" /\ f.n <= seq
        BY <1>6, <1>7, <3>1, <3>3 DEF BooksInv, LogOK
      <3>5. w.meta[r] # None => w.meta[r].seen <= z.meta[r].seen
        BY <1>2, <1>3, <2>2 DEF Workers, Metas
      <3> QED BY <1>3, <2>2, <3>4, <3>5, ShowsPlain
    <2> QED BY <1>8, <2>1, <2>2, <2>3, <2>4, <2>5
  <1>11. CASE e.t # "open" /\ e.doc \notin x.stream.docs
    <2>1. x = y
      BY <1>11 DEF TakeEvent
    <2>2. StreamOrder(x)
      BY <1>4, <1>11 DEF StreamOrder, IsAnswer
    <2> QED BY <1>3, <1>8, <1>9, <2>1, <2>2
  <1>12. ASSUME e.t # "open", e.doc \in x.stream.docs
         PROVE  OrderInv'
    <2> DEFINE d == e.doc
    <2>1. /\ d \in Open(x) /\ d \in Docs /\ x.subs[d] # None
          /\ \A q \in x.subs[d].ports : x.meta[q] # None /\ DocOf(q) = d
      BY <1>3, <1>5, <1>12, BooksSay DEF Listens
    <2>2. /\ ~Due(x.stream, d)
          /\ \A f \in Elems(x.stream.q) : f.doc = d => f.t = "frame" /\ (e.t # "error" => e.n < f.n)
      BY <1>3, <1>4, <1>12, BehindFacts
    <2>3. \A c \in x.stream.docs : c = d \/ EntryOrder(x.stream, c, x.subs[c])
      BY <1>4 DEF IsAnswer
    <2>4. EntryOrder(w.stream, d, w.subs[d]) /\ e \in Elems(w.stream.q)
      BY <1>1, <1>3, <1>4, <1>12 DEF OrderInv, StreamOrder
    <2>5. CASE e.t = "error"
      <3> DEFINE z == Refused(x, d)
      <3>1. z = y
        BY <1>12, <2>5 DEF TakeEvent
      <3>2. Refuses(x, z, d)
        <4>1. x \in Workers /\ d \in Docs /\ x.subs[d] # None /\ \A q \in x.subs[d].ports : x.meta[q] # None
          BY <1>3, <2>1
        <4> HIDE DEF d
        <4> QED BY <4>1, RefusedFacts
      <3> HIDE DEF z
      <3>3. Good(z)
        BY <1>3, <1>4, <1>12, <2>1, <2>3, <3>2, RefuseOrder
      <3> QED BY <1>8, <3>1, <3>3
    <2>6. CASE e.t = "cursor"
      <3> DEFINE z == Cursored(x, d, e.n, e.r)
      <3>1. z = y
        BY <1>12, <2>6 DEF TakeEvent
      <3>2. Cursors(x, z, d, e.n, e.r)
        <4>1. e.n \in Nat /\ e.r \in BOOLEAN
          BY <1>6
        <4>2. x \in Workers /\ d \in Docs /\ x.subs[d] # None
          BY <1>3, <2>1
        <4> HIDE DEF d
        <4> QED BY <2>1, <4>1, <4>2, CursoredFacts
      <3>3. w.subs[d].opened => e.n = w.subs[d].since
        BY <2>4, <2>6 DEF EntryOrder
      <3>4. \A f \in Elems(x.stream.q) : f.doc = d => f.t = "frame" /\ e.n < f.n
        BY <2>2, <2>6
      <3>5. x.stream.joined /\ e.n <= seq /\ 0 < e.n
        BY <1>3, <1>4, <1>7, <2>6
      <3> HIDE DEF z, d
      <3>6. d \in x.stream.docs
        BY <1>12 DEF d
      <3>7. Good(z)
        BY <1>3, <1>4, <1>6, <2>1, <2>3, <3>2, <3>3, <3>4, <3>5, <3>6, CursorOrder
      <3> QED BY <1>8, <3>1, <3>7
    <2>7. CASE e.t = "frame"
      <3> DEFINE z == Framed(x, d, e.n, e.k)
      <3>1. z = y
        BY <1>12, <2>7 DEF TakeEvent
      <3>2. Feeds(x, z, d, e.n, e.k)
        <4>1. e.n \in Nat /\ e.k \in Kinds
          BY <1>6, <2>7
        <4>2. \A q \in x.subs[d].ports : x.meta[q] # None
          BY <2>1
        <4> HIDE DEF d
        <4> QED BY <1>3, <2>1, <4>1, <4>2, FramedFacts
      <3>3. ~Due(w.stream, d)
        BY <1>4, <2>2, <2>7 DEF Due, IsAnswer
      <3>4. w.subs[d].opened /\ w.subs[d].since < e.n
        <4>1. w.subs[d].opened \in BOOLEAN
          BY <1>3, <2>1, BooksSay DEF Subs
        <4> QED BY <1>4, <2>4, <2>7, <3>3, <4>1 DEF EntryOrder
      <3>5. \A f \in Elems(x.stream.q) : f.doc = d => f.t = "frame" /\ e.n < f.n
        BY <2>2, <2>7
      <3>6. x.stream.joined /\ e.k \in Kinds
        BY <1>3, <1>4, <1>6, <2>7
      <3> HIDE DEF z, d
      <3>7. d \in x.stream.docs
        BY <1>12 DEF d
      <3>8. Good(z)
        BY <1>3, <1>4, <1>6, <1>7, <2>1, <2>3, <3>2, <3>4, <3>5, <3>6, <3>7, FeedOrder
      <3> QED BY <1>8, <3>1, <3>8
    <2> QED BY <1>6, <1>12, <2>5, <2>6, <2>7 DEF EventTypes
  <1> QED BY <1>10, <1>11, <1>12

-----------------------------------------------------------------------------
(* The order after the host's steps.                                       *)

\* A step of the host that leaves the stream in order leaves the rest as it was.
LEMMA HostOrder ==
    ASSUME SyncAssumption, BooksInv, OrderInv, UNCHANGED <<of, cap, page, port>>,
           w'.subs = w.subs, w'.meta = w.meta, seq' \in Nat, seq <= seq', StreamOrder(w)'
    PROVE  OrderInv'
  <1>1. /\ w \in Workers /\ Books(w) /\ SubOrder(w) /\ seq \in Nat
        /\ \A p \in Pages : page[p] \in StreamPages
    BY PortDocs DEF OrderInv, BooksInv, LogOK
  <1>2. SubOrder(w)'
    <2> SUFFICES ASSUME NEW d \in Open(w)'
                 PROVE  SubRight(w.subs[d])' /\ \A q \in w.subs[d].ports : SeenRight(w.meta[q], w.subs[d])
      BY DEF SubOrder, SeenRight
    <2>1. d \in Open(w) /\ w.subs[d] \in Subs
      BY <1>1, BooksSay DEF Open
    <2>2. SubRight(w.subs[d]) /\ \A q \in w.subs[d].ports : SeenRight(w.meta[q], w.subs[d])
      BY <1>1, <2>1 DEF SubOrder
    <2>3. w.subs[d].since <= seq'
      BY <1>1, <2>1, <2>2 DEF SubRight, Subs
    <2> QED BY <2>2, <2>3 DEF SubRight, Distinct, NoContent
  <1>3. ASSUME NEW q \in Ports PROVE PortOrder(q)'
    <2>1. port[q].down \in Seq(DownMsgs) /\ port[q].up \in Seq(UpMsgs) /\ PortOrder(q)
      BY PortKnown
    <2>2. \A m \in Elems(port[q].down) : m.n \in Nat
      BY <2>1 DEF Elems, DownMsgs
    <2>3. \A m \in Elems(port[q].up) : m.n \in Nat
      <3>1. \A m \in Elems(port[q].up) : m \in UpMsgs
        BY <2>1 DEF Elems
      <3>2. \A m \in UpMsgs : m.n \in Nat
        BY DEF UpMsgs
      <3> QED BY <3>1, <3>2
    <2>4. /\ \A m \in Elems(port[q].down) : m.n <= seq'
          /\ \A m \in Elems(port[q].up) : m.n <= seq'
      BY <1>1, <2>1, <2>2, <2>3 DEF PortOrder
    <2> QED BY <2>1, <2>4 DEF PortOrder
  <1>4. ASSUME NEW p \in Pages PROVE PageOrder(p)'
    <2>1. PageOrder(p) /\ page[p].since \in Nat
      BY <1>1 DEF OrderInv, StreamPages
    <2> QED BY <1>1, <2>1 DEF PageOrder, Dialling
  <1> QED BY <1>2, <1>3, <1>4 DEF OrderInv

\* The record of a worker whose stream got something to read.
LEMMA RequeuedFacts ==
    ASSUME SyncAssumption, BooksInv, w.stream # None, NEW b \in BOOLEAN, NEW t \in Seq(GoodEvents),
           w' = [w EXCEPT !.stream = Requeued(@, b, t)]
    PROVE  /\ w'.subs = w.subs /\ w'.meta = w.meta /\ w'.stream # None
           /\ w'.stream.docs = w.stream.docs /\ w'.stream.asked = w.stream.asked
           /\ w'.stream.joined = b /\ w'.stream.q = t
  <1> DEFINE u == Requeued(w.stream, b, t)
  <1>1. w \in Workers /\ w.stream \in Streams
    BY PortDocs DEF Workers
  <1>2. /\ u \in Streams
        /\ u.docs = w.stream.docs /\ u.asked = w.stream.asked /\ u.joined = b /\ u.q = t
    BY <1>1, StreamQueue
  <1>3. w' = [w EXCEPT !.stream = u]
    BY <1>1
  <1> HIDE DEF u
  <1>4. w'.subs = w.subs /\ w'.meta = w.meta /\ w'.stream = u
    BY <1>1, <1>3 DEF Workers
  <1>5. u # None
    BY <1>2 DEF SyncAssumption
  <1> QED BY <1>2, <1>4, <1>5

\* What the host answers for one document goes on where the document was asked for.
LEMMA EntryGoesOn ==
    ASSUME LogOK, NEW d \in Docs, w.stream.asked[d] \in Nat, w.stream.asked[d] <= seq,
           NEW how \in {"replay", "refused", "resync"}
    PROVE  /\ SortedBy(Entry(d, how), Following)
           /\ \E e \in Elems(Entry(d, how)) : IsAnswer(e, d)
           /\ \A e \in Elems(Entry(d, how)) :
                 /\ e \in GoodEvents /\ e.doc = d /\ e.n <= seq
                 /\ e.t = "cursor" => e.n = Base(d) /\ 0 < e.n
                 /\ e.t = "frame" => Base(d) < e.n
  <1> DEFINE a == Answered1(d, how)
             fs == FramesOf(d, Base(d))
  <1>1. /\ Base(d) \in Nat /\ a \in GoodEvents /\ a.doc = d
        /\ a.t = IF how = "refused" THEN "error" ELSE "cursor"
        /\ how # "refused" => a.n = Base(d)
        /\ Entry(d, how) = <<a>> \/ Entry(d, how) = <<a>> \o fs
    BY EntryFacts
  <1>2. 0 < Base(d) /\ Base(d) <= seq /\ seq \in Nat
    BY DEF Base, LogOK
  <1>3. how = "refused" => a.n = 0
    BY DEF Answered1, Event
  <1>4. a.n <= seq /\ (a.t = "cursor" => a.n = Base(d) /\ 0 < a.n) /\ a.t # "frame"
    BY <1>1, <1>2, <1>3
  <1>5. /\ fs \in Seq(GoodEvents)
        /\ \A e \in Elems(fs) : e \in Elems(log) /\ e.doc = d /\ e.n > Base(d)
        /\ \A R : SortedBy(log, R) => SortedBy(fs, R)
    BY FramesOfFacts
  <1> HIDE DEF a, fs
  <1>6. \A e \in Elems(log) : e \in GoodEvents /\ e.t = "frame" /\ e.n <= seq /\ e.n \in Nat
    BY DEF LogOK, Elems, GoodEvents, Events
  <1>7. SortedBy(log, Following)
    <2>1. \A i \in DOMAIN log : log[i] \in Elems(log)
      BY DEF Elems
    <2>2. \A i, j \in DOMAIN log : i < j => log[i].n < log[j].n
      BY DEF LogOK
    <2> QED BY <1>6, <2>1, <2>2 DEF SortedBy, Following
  <1>8. <<a>> \in Seq(GoodEvents) /\ Elems(<<a>>) = {a} /\ SortedBy(<<a>>, Following)
    <2>1. <<a>> \in Seq(GoodEvents) /\ Elems(<<a>>) = {a}
      BY <1>1, OneElem
    <2>2. DOMAIN <<a>> = {1}
      OBVIOUS
    <2> QED BY <2>1, <2>2 DEF SortedBy
  <1>9. \A e \in Elems(<<a>>), f \in Elems(fs) : <<e, f>> \in Following
    BY <1>1, <1>4, <1>5, <1>6, <1>8 DEF Following
  <1>10. /\ Elems(<<a>> \o fs) = Elems(<<a>>) \cup Elems(fs)
         /\ SortedBy(<<a>> \o fs, Following)
    BY <1>5, <1>7, <1>8, <1>9, ConcatElems
  <1>11. /\ SortedBy(Entry(d, how), Following) /\ a \in Elems(Entry(d, how))
         /\ \A e \in Elems(Entry(d, how)) : e = a \/ e \in Elems(fs)
    <2>1. CASE Entry(d, how) = <<a>>
      BY <1>8, <2>1
    <2>2. CASE Entry(d, how) = <<a>> \o fs
      BY <1>8, <1>10, <2>2
    <2> QED BY <1>1, <2>1, <2>2
  <1>12. IsAnswer(a, d)
    BY <1>1 DEF IsAnswer
  <1> QED BY <1>1, <1>4, <1>5, <1>6, <1>11, <1>12

\* The host answers every document of the stream where it was asked for.
LEMMA AcceptOrder == ASSUME SyncAssumption, BooksInv, OrderInv, Accept PROVE OrderInv'
  <1> DEFINE o == Event("open", None, 0, None, FALSE)
             s == w.stream
  <1>1. PICK how \in [DOMAIN w.stream.asked -> Answers] :
           w' = [w EXCEPT !.stream.joined = TRUE, !.stream.q = <<o>> \o Entries(how)]
    BY DEF Accept
  <1>2. s # None /\ ~s.joined /\ UNCHANGED <<of, cap, page, port>> /\ UNCHANGED <<seq, log>>
    BY DEF Accept, pageVars, hostVars
  <1> DEFINE t == <<o>> \o Entries(how)
  <1>3. /\ w \in Workers /\ s \in Streams /\ s.docs \subseteq Open(w) /\ s.docs \subseteq DOMAIN s.asked
        /\ LogOK /\ seq \in Nat
    BY <1>2, PortDocs, BooksSay DEF StreamOK, Workers, BooksInv, LogOK
  <1>4. \A d \in DOMAIN s.asked : d \in Docs /\ s.asked[d] \in Nat
    BY <1>3, StreamParts
  <1>5. StreamRight(s) /\ \A d \in s.docs : EntryOrder(s, d, w.subs[d])
    BY <1>2 DEF OrderInv, StreamOrder
  <1> DEFINE X(d) == Entry(d, how[d])
  <1>6. ASSUME NEW d \in DOMAIN how
        PROVE  /\ SortedBy(X(d), Following)
               /\ \E e \in Elems(X(d)) : IsAnswer(e, d)
               /\ \A e \in Elems(X(d)) :
                     /\ e \in GoodEvents /\ e.doc = d /\ e.n <= seq
                     /\ e.t = "cursor" => e.n = Base(d) /\ 0 < e.n
                     /\ e.t = "frame" => Base(d) < e.n
    <2>1. d \in Docs /\ s.asked[d] \in Nat /\ s.asked[d] <= seq /\ how[d] \in {"replay", "refused", "resync"}
      BY <1>4, <1>5 DEF StreamRight, Answers
    <2> HIDE DEF s
    <2> QED BY <1>3, <2>1, EntryGoesOn DEF s
  <1>7. /\ Entries(how) \in Seq(GoodEvents)
        /\ \A e : e \in Elems(Entries(how)) <=> \E d \in DOMAIN how : e \in Elems(X(d))
        /\ \A R :
              /\ \A d \in DOMAIN how : SortedBy(X(d), R)
              /\ \A d, c \in DOMAIN how : d # c =>
                    \A e \in Elems(X(d)), f \in Elems(X(c)) : <<e, f>> \in R
              => SortedBy(Entries(how), R)
    BY <1>2, EntriesFacts
  <1>8. o \in GoodEvents /\ o.t = "open" /\ o.n = 0
    BY DEF Event, GoodEvents, Events, EventTypes
  <1> HIDE DEF o, X
  <1>9. SortedBy(Entries(how), Following)
    <2>1. ASSUME NEW d \in DOMAIN how, NEW c \in DOMAIN how, d # c,
                 NEW e \in Elems(X(d)), NEW f \in Elems(X(c))
          PROVE  <<e, f>> \in Following
      <3>1. e \in GoodEvents /\ e.doc = d /\ f \in GoodEvents /\ f.doc = c
        BY <1>6
      <3> QED BY <2>1, <3>1 DEF Following
    <2> QED BY <1>6, <1>7, <2>1
  <1>10. /\ <<o>> \in Seq(GoodEvents) /\ Elems(<<o>>) = {o} /\ SortedBy(<<o>>, Following)
         /\ \A e \in Elems(<<o>>), f \in Elems(Entries(how)) : <<e, f>> \in Following
    <2>1. <<o>> \in Seq(GoodEvents) /\ Elems(<<o>>) = {o}
      BY <1>8, OneElem
    <2>2. DOMAIN <<o>> = {1}
      OBVIOUS
    <2>3. \A f \in Elems(Entries(how)) : f \in GoodEvents
      BY <1>7 DEF Elems
    <2> QED BY <1>8, <2>1, <2>2, <2>3 DEF SortedBy, Following
  <1>11. /\ t \in Seq(GoodEvents) /\ Elems(t) = {o} \cup Elems(Entries(how))
         /\ SortedBy(t, Following)
    BY <1>7, <1>9, <1>10, ConcatElems
  <1> HIDE DEF t, s
  <1>12. w' = [w EXCEPT !.stream = Requeued(@, TRUE, t)]
    <2>1. w' = [w EXCEPT !.stream.joined = TRUE, !.stream.q = t]
      BY <1>1 DEF t
    <2> QED BY <1>3, <2>1 DEF Requeued, Workers, Streams, s
  <1> DEFINE z == w'.stream
  <1>13. /\ w'.subs = w.subs /\ w'.meta = w.meta /\ z # None
         /\ z.docs = s.docs /\ z.asked = s.asked /\ z.joined /\ z.q = t
    BY <1>2, <1>11, <1>12, RequeuedFacts DEF s
  <1> HIDE DEF z
  <1>14. StreamRight(z)
    <2>1. \A e \in Elems(t) : e.n <= seq /\ (e.t = "cursor" => 0 < e.n)
      BY <1>3, <1>6, <1>7, <1>8, <1>11
    <2> QED BY <1>5, <1>11, <1>13, <2>1 DEF StreamRight
  <1>15. ASSUME NEW d \in s.docs PROVE EntryOrder(z, d, w.subs[d])
    <2>1. d \in DOMAIN how /\ d \in Open(w) /\ w.subs[d] \in Subs
      BY <1>3, PortDocs, BooksSay DEF s
    <2>2. Due(z, d)
      BY <1>6, <1>7, <1>11, <1>13, <2>1 DEF Due
    <2>3. ASSUME w.subs[d].opened, NEW e \in Elems(t), e.doc = d
          PROVE  (e.t = "frame" => w.subs[d].since < e.n) /\ (e.t = "cursor" => e.n = w.subs[d].since)
      <3>1. w.stream.asked[d] = w.subs[d].since /\ 0 < w.subs[d].since /\ w.subs[d].since \in Nat
        <4>1. SubRight(w.subs[d])
          BY <2>1 DEF OrderInv, SubOrder
        <4> QED BY <1>2, <1>5, <2>1, <2>3, <4>1 DEF EntryOrder, SubRight, Subs, s
      <3>2. Base(d) = w.subs[d].since
        BY <3>1 DEF Base
      <3>3. CASE e = o
        BY <1>8, <3>3
      <3>4. CASE \E c \in DOMAIN how : e \in Elems(X(c))
        BY <1>6, <2>3, <3>2, <3>4
      <3> QED BY <1>7, <1>11, <2>3, <3>3, <3>4
    <2> QED BY <1>13, <2>2, <2>3 DEF EntryOrder
  <1>16. StreamOrder(w)'
    <2>1. seq' = seq
      BY <1>2
    <2>3. StreamRight(w.stream)' <=> StreamRight(z)
      BY <2>1 DEF StreamRight, z
    <2>4. \A d \in s.docs : EntryOrder(w.stream, d, w.subs[d])'
      BY <1>13, <1>15 DEF EntryOrder, Due, IsAnswer, z
    <2> QED BY <1>13, <1>14, <2>3, <2>4 DEF StreamOrder, z
  <1>17. seq' \in Nat /\ seq <= seq'
    BY <1>2, <1>3
  <1> QED BY <1>2, <1>13, <1>16, <1>17, HostOrder

\* A published frame comes last in the stream.
LEMMA PublishOrder ==
    ASSUME SyncAssumption, BooksInv, OrderInv, NEW d \in Docs, NEW k \in Kinds, Publish(d, k) PROVE OrderInv'
  <1> DEFINE f == Event("frame", d, seq + 1, k, FALSE)
             s == w.stream
             t == Append(w.stream.q, f)
             due == w.stream # None /\ w.stream.joined /\ d \in DOMAIN w.stream.asked
  <1>1. /\ f \in GoodEvents /\ f.t = "frame" /\ f.doc = d /\ f.n = seq + 1
        /\ seq' = seq + 1
    BY PublishFacts
  <1>2. UNCHANGED <<of, cap, page, port>> /\ w' = IF due THEN [w EXCEPT !.stream.q = t] ELSE w
    BY DEF Publish, pageVars
  <1>3. /\ w \in Workers /\ StreamOK(w) /\ s \in Streams \cup {None} /\ seq \in Nat /\ StreamOrder(w)
        /\ \A c \in Open(w) : w.subs[c].since <= seq /\ w.subs[c].since \in Nat
    <2>1. /\ w \in Workers /\ StreamOK(w) /\ seq \in Nat /\ StreamOrder(w) /\ SubOrder(w)
          /\ \A c \in Open(w) : w.subs[c] \in Subs
      BY PortDocs, BooksSay DEF OrderInv, BooksInv, LogOK
    <2> QED BY <2>1 DEF SubOrder, SubRight, Subs, Workers
  <1>4. seq' \in Nat /\ seq <= seq'
    BY <1>1, <1>3
  <1>5. s # None => /\ s.q \in Seq(GoodEvents) /\ s.docs \subseteq Open(w)
                    /\ \A e \in Elems(s.q) : e \in GoodEvents /\ e.n \in Nat /\ e.n <= seq
                    /\ \A c \in DOMAIN s.asked : s.asked[c] \in Nat /\ s.asked[c] <= seq
    <2> SUFFICES ASSUME s # None
                 PROVE  /\ s.q \in Seq(GoodEvents) /\ s.docs \subseteq Open(w)
                        /\ \A e \in Elems(s.q) : e \in GoodEvents /\ e.n \in Nat /\ e.n <= seq
                        /\ \A c \in DOMAIN s.asked : s.asked[c] \in Nat /\ s.asked[c] <= seq
      OBVIOUS
    <2>1. s.q \in Seq(GoodEvents) /\ s.docs \subseteq Open(w) /\ StreamRight(s)
      BY <1>3 DEF StreamOK, StreamOrder
    <2>2. \A e \in Elems(s.q) : e \in GoodEvents
      BY <2>1 DEF Elems
    <2>3. \A e \in GoodEvents : e.n \in Nat
      BY DEF GoodEvents, Events
    <2>4. \A c \in DOMAIN s.asked : s.asked[c] \in Nat
      BY <1>3, StreamParts
    <2> QED BY <2>1, <2>2, <2>3, <2>4 DEF StreamRight
  <1> HIDE DEF f
  <1>6. CASE ~due
    <2>1. w' = w
      BY <1>2, <1>6
    <2>2. ASSUME s # None PROVE StreamRight(s)'
      <3>1. StreamRight(s)
        BY <1>3, <2>2 DEF StreamOrder
      <3>2. \A e \in Elems(s.q) : e.n <= seq'
        BY <1>3, <1>4, <1>5, <2>2
      <3>3. \A c \in DOMAIN s.asked : s.asked[c] <= seq'
        BY <1>3, <1>4, <1>5, <2>2
      <3> QED BY <2>1, <3>1, <3>2, <3>3 DEF StreamRight
    <2>3. StreamOrder(w)'
      BY <1>3, <2>1, <2>2 DEF StreamOrder, EntryOrder, Due, IsAnswer
    <2> QED BY <1>2, <1>4, <2>1, <2>3, HostOrder
  <1>7. CASE due
    <2>1. /\ s # None /\ s \in Streams /\ s.joined
          /\ StreamRight(s) /\ \A c \in s.docs : EntryOrder(s, c, w.subs[c])
      BY <1>3, <1>7 DEF StreamOrder
    <2>2. \A e \in Elems(s.q) : <<e, f>> \in Following
      BY <1>1, <1>3, <1>5, <2>1 DEF Following
    <2>3. s.q \in Seq(GoodEvents)
      BY <1>5, <2>1
    <2>4. t \in Seq(GoodEvents) /\ Elems(t) = Elems(s.q) \cup {f} /\ SortedBy(t, Following)
      BY <1>1, <2>1, <2>2, <2>3, AppendElems DEF StreamRight
    <2>5. w' = [w EXCEPT !.stream.q = t]
      BY <1>2, <1>7
    <2> HIDE DEF t
    <2>6. w' = [w EXCEPT !.stream = Requeued(@, TRUE, t)]
      <3>1. Requeued(s, TRUE, t) = [s EXCEPT !.q = t]
        BY <2>1 DEF Requeued, Streams
      <3> QED BY <1>3, <2>5, <3>1 DEF Workers
    <2> DEFINE z == w'.stream
    <2>7. /\ w'.subs = w.subs /\ w'.meta = w.meta /\ z # None
          /\ z.docs = s.docs /\ z.asked = s.asked /\ z.joined /\ z.q = t
      BY <2>1, <2>4, <2>6, RequeuedFacts
    <2> HIDE DEF z, s
    <2>8. StreamRight(w.stream)'
      <3>1. \A e \in Elems(t) : e.n <= seq' /\ (e.t = "cursor" => 0 < e.n)
        <4>1. \A e \in Elems(s.q) : e.n <= seq' /\ (e.t = "cursor" => 0 < e.n)
          BY <1>3, <1>4, <1>5, <2>1 DEF StreamRight
        <4> QED BY <1>1, <1>4, <2>4, <4>1
      <3>2. \A c \in DOMAIN s.asked : s.asked[c] <= seq'
        BY <1>3, <1>4, <1>5, <2>1
      <3> QED BY <2>4, <2>7, <3>1, <3>2 DEF StreamRight, z
    <2>9. ASSUME NEW c \in s.docs PROVE EntryOrder(z, c, w.subs[c])
      <3>1. EntryOrder(s, c, w.subs[c]) /\ w.subs[c].since < f.n
        BY <1>1, <1>3, <1>5, <2>1
      <3>2. Due(s, c) => Due(z, c)
        BY <2>4, <2>7 DEF Due
      <3> QED BY <1>1, <2>1, <2>4, <2>7, <3>1, <3>2 DEF EntryOrder
    <2>10. StreamOrder(w)'
      <3>1. \A c \in s.docs : EntryOrder(w.stream, c, w.subs[c])'
        BY <2>7, <2>9 DEF EntryOrder, Due, IsAnswer, z
      <3> QED BY <2>7, <2>8, <3>1 DEF StreamOrder, z
    <2> QED BY <1>2, <1>4, <2>7, <2>10, HostOrder
  <1> QED BY <1>6, <1>7

-----------------------------------------------------------------------------
(* The order after the pages' steps.                                       *)

\* A port's messages after its page did something on it.
LEMMA StirsOrder ==
    ASSUME SyncAssumption, BooksInv, OrderInv, NEW p \in Pages, NEW q \in Ports, NEW v,
           Stirs(p, port[q], v)
    PROVE  /\ v.up \in Seq(UpMsgs) /\ v.down \in Seq(DownMsgs)
           /\ \A m \in Elems(v.up) : m.n <= seq
           /\ Elems(v.down) \subseteq Elems(port[q].down)
           /\ SortedBy(v.down, Rising)
           /\ (\E i \in DOMAIN v.up : v.up[i].t = "connect") => Dialling(q)
  <1>1. /\ port[q] \in PortRecords /\ port[q].up \in Seq(UpMsgs) /\ port[q].down \in Seq(DownMsgs)
        /\ PortOK(q) /\ PortOrder(q) /\ seq \in Nat
    BY PortKnown
  <1>2. (\E i \in DOMAIN v.up : v.up[i].t = "connect") => Dialling(q)
    <2>1. \A i \in DOMAIN port[q].up : port[q].up[i].t = "connect" => i = 1
      BY <1>1 DEF PortOK
    <2> QED BY <1>1, <2>1, StirsOK DEF Dialling
  <1>3. \A m \in Elems(v.up) : m.n <= seq
    <2>1. CASE v.up = port[q].up
      BY <1>1, <2>1 DEF PortOrder
    <2>2. CASE \E t \in UpTypes \ {"connect"} : v.up = Append(port[q].up, Say(t))
      <3>1. PICK t \in UpTypes : v.up = Append(port[q].up, Say(t))
        BY <2>2
      <3>2. Say(t) \in UpMsgs /\ Say(t).n = 0
        BY SayFacts
      <3>3. Elems(v.up) = Elems(port[q].up) \cup {Say(t)}
        BY <1>1, <3>1, <3>2, AppendElems
      <3> QED BY <1>1, <3>2, <3>3 DEF PortOrder
    <2> QED BY <2>1, <2>2 DEF Stirs
  <1>4. Elems(v.down) \subseteq Elems(port[q].down) /\ SortedBy(v.down, Rising)
    <2>1. CASE v.down = port[q].down
      BY <1>1, <2>1 DEF PortOrder
    <2>2. CASE v.down = <<>>
      BY <2>2, NoElems DEF SortedBy
    <2>3. CASE port[q].down # <<>> /\ v.down = Tail(port[q].down)
      BY <1>1, <2>3, TailElems DEF PortOrder
    <2> QED BY <2>1, <2>2, <2>3 DEF Stirs
  <1> QED BY <1>2, <1>3, <1>4 DEF Stirs, PortRecords

\* A page's step that leaves what it has to read in order.
LEMMA PageStepOrder ==
    ASSUME SyncAssumption, BooksInv, OrderInv, NEW p \in Pages, NEW pg \in StreamPages,
           page' = [page EXCEPT ![p] = pg], UNCHANGED <<of, cap, w, seq, log>>,
           \A r \in Ports : \/ port'[r] = port[r]
                            \/ Stirs(p, port[r], port'[r])
                            \/ /\ Dials(p, port[r], port'[r])
                               /\ \A m \in Elems(port'[r].up) : m.n <= seq,
           pg.since <= seq,
           pg.st = "on" =>
              /\ pg.port \in Ports
              /\ \A m \in Elems(port'[pg.port].down) : m.t = "frame" => pg.last < m.n
              /\ (\E i \in DOMAIN port'[pg.port].up : port'[pg.port].up[i].t = "connect") => pg.last = 0
              /\ w.meta[pg.port] # None => pg.last <= w.meta[pg.port].seen
    PROVE  OrderInv'
  <1>1. StreamOrder(w)' /\ SubOrder(w)'
    <2>1. StreamOrder(w) /\ SubOrder(w) /\ w' = w /\ seq' = seq
      BY DEF OrderInv
    <2>2. StreamOrder(w)'
      BY <2>1 DEF StreamOrder, StreamRight, EntryOrder, Due, IsAnswer
    <2>3. SubOrder(w)'
      BY <2>1 DEF SubOrder, SubRight, Open
    <2> QED BY <2>2, <2>3
  <1>2. ASSUME NEW q \in Ports PROVE PortOrder(q)'
    <2>1. PortOrder(q) /\ PortOK(q)
      BY PortKnown
    <2>2. CASE port'[q] = port[q]
      BY <2>1, <2>2 DEF PortOrder
    <2>3. CASE Stirs(p, port[q], port'[q])
      <3>1. /\ \A m \in Elems(port'[q].up) : m.n <= seq
            /\ Elems(port'[q].down) \subseteq Elems(port[q].down)
            /\ SortedBy(port'[q].down, Rising)
        BY <2>3, StirsOrder
      <3> QED BY <2>1, <3>1 DEF PortOrder
    <2>4. CASE /\ Dials(p, port[q], port'[q])
               /\ \A m \in Elems(port'[q].up) : m.n <= seq
      <3>1. port'[q].down = <<>>
        BY <2>4 DEF Dials
      <3> QED BY <2>4, <3>1, NoElems DEF PortOrder, SortedBy
    <2> QED BY <2>2, <2>3, <2>4
  <1>3. /\ page'[p] = pg /\ \A r \in Pages : r # p => page'[r] = page[r]
        /\ \A r \in Pages : page[r] \in StreamPages
    BY DEF BooksInv, PagesOK
  <1>4. ASSUME NEW r \in Pages PROVE PageOrder(r)'
    <2>1. CASE r = p
      BY <1>3, <2>1 DEF PageOrder, Dialling
    <2>2. CASE r # p
      <3>1. PageOrder(r) /\ page'[r] = page[r]
        BY <1>3, <2>2 DEF OrderInv
      <3>2. ASSUME page[r].st = "on" PROVE port'[page[r].port] = port[page[r].port]
        <4>1. page[r].port \in Ports /\ port[page[r].port].page = r
          BY <3>2, PagePort
        <4> QED BY <2>2, <4>1 DEF Stirs, Dials, SyncAssumption
      <3> QED BY <3>1, <3>2 DEF PageOrder, Dialling
    <2> QED BY <2>1, <2>2
  <1> QED BY <1>1, <1>2, <1>4 DEF OrderInv

\* A page that keeps its port, or gives it up.
LEMMA MoveOrder ==
    ASSUME SyncAssumption, BooksInv, OrderInv, NEW p \in Pages, NEW g \in StreamPages, NEW v,
           page[p].st = "on", Stirs(p, port[page[p].port], v), g.since <= seq,
           g.st = "on" =>
              /\ g.port = page[p].port
              /\ \A m \in Elems(v.down) : m.t = "frame" => g.last < m.n
              /\ Dialling(page[p].port) => g.last = 0
              /\ w.meta[page[p].port] # None => g.last <= w.meta[page[p].port].seen,
           Moves1(p, g, v), UNCHANGED <<of, cap, w, seq, log>>
    PROVE  OrderInv'
  <1> DEFINE o == page[p].port
  <1>1. o \in Ports /\ port \in [Ports -> PortRecords]
    BY PagePort DEF BooksInv
  <1>2. page' = [page EXCEPT ![p] = g] /\ port' = [port EXCEPT ![o] = v]
    BY DEF Moves1
  <1>3. Stirs(p, port[o], v)
    OBVIOUS
  <1>4. g.st = "on" => /\ g.port = o
                       /\ \A m \in Elems(v.down) : m.t = "frame" => g.last < m.n
                       /\ Dialling(o) => g.last = 0
                       /\ w.meta[o] # None => g.last <= w.meta[o].seen
    OBVIOUS
  <1> HIDE DEF o
  <1>5. port'[o] = v /\ \A r \in Ports : r # o => port'[r] = port[r]
    BY <1>1, <1>2
  <1>6. (\E i \in DOMAIN v.up : v.up[i].t = "connect") => Dialling(o)
    BY <1>1, <1>3, StirsOrder
  <1>7. \A r \in Ports : \/ port'[r] = port[r]
                         \/ Stirs(p, port[r], port'[r])
    BY <1>3, <1>5
  <1>8. g.st = "on" =>
           /\ g.port \in Ports
           /\ \A m \in Elems(port'[g.port].down) : m.t = "frame" => g.last < m.n
           /\ (\E i \in DOMAIN port'[g.port].up : port'[g.port].up[i].t = "connect") => g.last = 0
           /\ w.meta[g.port] # None => g.last <= w.meta[g.port].seen
    BY <1>1, <1>4, <1>5, <1>6
  <1> QED BY <1>2, <1>7, <1>8, PageStepOrder

\* A page that dials asks for no more than it has.
LEMMA OpenOrder ==
    ASSUME SyncAssumption, BooksInv, OrderInv, NEW p \in Pages, NEW q \in Ports, NEW g \in StreamPages,
           NEW v \in BOOLEAN, g.st = "on", g.port = q, g.last = 0, g.since = page[p].since,
           page' = [page EXCEPT ![p] = g], UNCHANGED <<of, cap, w, seq, log>>,
           port[q].page = None, port'[q] = Call(p, v),
           \A r \in Ports : r # q => port'[r] = port[r] \/ Stirs(p, port[r], port'[r])
    PROVE  OrderInv'
  <1>1. page[p].since \in Nat /\ page[p].since <= seq
    BY PortDocs DEF StreamPages, OrderInv, PageOrder
  <1> DEFINE c == Call(p, v)
             m == Msg("connect", page[p].since, None, v)
  <1>2. Dials(p, port[q], c) /\ c.down = <<>> /\ c.up = <<m>>
    BY <1>1, CallFacts
  <1>3. m.n = page[p].since
    BY DEF Msg
  <1> HIDE DEF c, m
  <1>4. Elems(<<m>>) = {m}
    BY OneElem
  <1>5. port'[q] = c
    BY DEF c
  <1>6. w.meta[q] = None
    BY PortDocs DEF PortOK
  <1>7. \A r \in Ports : \/ port'[r] = port[r]
                         \/ Stirs(p, port[r], port'[r])
                         \/ /\ Dials(p, port[r], port'[r])
                            /\ \A e \in Elems(port'[r].up) : e.n <= seq
    BY <1>1, <1>2, <1>3, <1>4, <1>5
  <1>8. /\ \A e \in Elems(port'[g.port].down) : e.t = "frame" => g.last < e.n
        /\ w.meta[g.port] # None => g.last <= w.meta[g.port].seen
    BY <1>2, <1>5, <1>6, NoElems
  <1> QED BY <1>1, <1>7, <1>8, PageStepOrder

\* A page that opens a port it did not have.
LEMMA DialOrder ==
    ASSUME SyncAssumption, BooksInv, OrderInv, NEW p \in Pages, NEW q \in Ports,
           Start(p, q) \/ Resume(p, q) \/ Reopen(p, q)
    PROVE  OrderInv'
  <1> DEFINE e == Opening(p, q)
  <1>1. page[p] \in StreamPages /\ (~page[p].hidden) \in BOOLEAN /\ port \in [Ports -> PortRecords]
    <2>1. page[p] \in StreamPages
      BY PortDocs
    <2> QED BY <2>1 DEF StreamPages, BooksInv
  <1>2. e \in StreamPages /\ e.st = "on" /\ e.port = q /\ e.last = 0 /\ e.since = page[p].since
    BY <1>1, OpeningFacts
  <1>3. ASSUME NEW g \in StreamPages, NEW v \in BOOLEAN, Opens1(p, q, g, v)
        PROVE  /\ page' = [page EXCEPT ![p] = g] /\ port[q].page = None
               /\ port'[q] = Call(p, v) /\ \A r \in Ports : r # q => port'[r] = port[r]
    BY <1>1, <1>3 DEF Opens1
  <1>4. CASE Start(p, q)
    <2>1. Opens1(p, q, e, ~page[p].hidden) /\ UNCHANGED <<of, cap, w, seq, log>>
      BY <1>4, StartFacts
    <2> HIDE DEF e
    <2>2. /\ page' = [page EXCEPT ![p] = e] /\ port[q].page = None
          /\ port'[q] = Call(p, ~page[p].hidden) /\ \A r \in Ports : r # q => port'[r] = port[r]
      BY <1>1, <1>2, <1>3, <2>1
    <2> QED BY <1>1, <1>2, <2>1, <2>2, OpenOrder
  <1>5. CASE Resume(p, q)
    <2> DEFINE g == [e EXCEPT !.hidden = FALSE]
    <2>1. Opens1(p, q, g, TRUE) /\ UNCHANGED <<of, cap, w, seq, log>>
      BY <1>5, ResumeFacts
    <2> HIDE DEF e
    <2>2. g \in StreamPages /\ g.st = "on" /\ g.port = q /\ g.last = 0 /\ g.since = page[p].since
      BY <1>2 DEF StreamPages
    <2> HIDE DEF g
    <2>3. /\ page' = [page EXCEPT ![p] = g] /\ port[q].page = None
          /\ port'[q] = Call(p, TRUE) /\ \A r \in Ports : r # q => port'[r] = port[r]
      BY <1>3, <2>1, <2>2
    <2> QED BY <2>1, <2>2, <2>3, OpenOrder
  <1>6. CASE Reopen(p, q)
    <2> DEFINE g == [e EXCEPT !.repair = TRUE]
               o == page[p].port
    <2>1. /\ UNCHANGED <<of, cap, w, seq, log>> /\ page' = [page EXCEPT ![p] = g]
          /\ port[q].page = None /\ port'[q] = Call(p, ~page[p].hidden)
          /\ \A r \in Ports : r \notin {o, q} => port'[r] = port[r]
          /\ Stirs(p, port[o], port'[o])
      BY <1>6, ReopenFacts
    <2> HIDE DEF e
    <2>2. g \in StreamPages /\ g.st = "on" /\ g.port = q /\ g.last = 0 /\ g.since = page[p].since
      BY <1>2 DEF StreamPages
    <2> HIDE DEF g
    <2>3. \A r \in Ports : r # q => port'[r] = port[r] \/ Stirs(p, port[r], port'[r])
      BY <2>1
    <2> QED BY <1>1, <2>1, <2>2, <2>3, OpenOrder
  <1> QED BY <1>4, <1>5, <1>6

\* A page that keeps its port and reads nothing, or gives the port up.
LEMMA MovesOrder ==
    ASSUME SyncAssumption, BooksInv, OrderInv, NEW p \in Pages,
           Hide(p) \/ Show(p) \/ Suspend(p) \/ GoDirect(p) \/ Close(p) \/ Kill(p)
    PROVE  OrderInv'
  <1> DEFINE c == page[p]
             u == port[c.port]
  <1>1. c \in StreamPages /\ c.since <= seq
    BY PagePort DEF OrderInv, PageOrder
  <1>2. c.st = "on" => u \in PortRecords /\ u.page = p
    BY PagePort
  <1>3. c.st = "on" => /\ \A t \in UpTypes \ {"connect"} : Stirs(p, u, Tells(u, t)) /\ Tells(u, t).down = u.down
                       /\ Stirs(p, u, HungUp(u)) /\ Stirs(p, u, Dies(u))
    BY <1>2, PortMoves
  <1>4. "hidden" \in UpTypes \ {"connect"} /\ "visible" \in UpTypes \ {"connect"}
    BY DEF UpTypes
  <1>5. c.st = "on" => /\ \A m \in Elems(u.down) : m.t = "frame" => c.last < m.n
                       /\ Dialling(c.port) => c.last = 0
                       /\ w.meta[c.port] # None => c.last <= w.meta[c.port].seen
    BY DEF OrderInv, PageOrder
  <1>6. ASSUME NEW g \in StreamPages, NEW t \in {"hidden", "visible"}, c.st = "on",
               g.st = c.st, g.port = c.port, g.since = c.since, g.last = c.last,
               Moves1(p, g, Tells(u, t)), UNCHANGED <<of, cap, w, seq, log>>
        PROVE  OrderInv'
    <2> DEFINE v == Tells(u, t)
    <2>1. Stirs(p, u, v) /\ v.down = u.down
      BY <1>3, <1>4, <1>6
    <2>2. \A m \in Elems(v.down) : m.t = "frame" => g.last < m.n
      BY <1>5, <1>6, <2>1
    <2> HIDE DEF v
    <2> QED BY <1>1, <1>5, <1>6, <2>1, <2>2, MoveOrder DEF v
  <1>7. ASSUME NEW g \in StreamPages, NEW v, c.st = "on", g.st # "on", g.since = c.since,
               Stirs(p, u, v), Moves1(p, g, v), UNCHANGED <<of, cap, w, seq, log>>
        PROVE  OrderInv'
    BY <1>1, <1>7, MoveOrder
  <1>8. CASE Hide(p)
    <2> DEFINE g == [c EXCEPT !.hidden = TRUE]
    <2>1. c.st = "on" /\ Moves1(p, g, Tells(u, "hidden")) /\ UNCHANGED <<of, cap, w, seq, log>>
      BY <1>8, HideFacts
    <2>2. g \in StreamPages /\ g.st = c.st /\ g.port = c.port /\ g.since = c.since /\ g.last = c.last
      BY <1>1 DEF StreamPages
    <2> HIDE DEF g, c, u
    <2> QED BY <1>6, <2>1, <2>2
  <1>9. CASE Show(p)
    <2> DEFINE g == [c EXCEPT !.hidden = FALSE]
    <2>1. c.st = "on" /\ Moves1(p, g, Tells(u, "visible")) /\ UNCHANGED <<of, cap, w, seq, log>>
      BY <1>9, ShowFacts
    <2>2. g \in StreamPages /\ g.st = c.st /\ g.port = c.port /\ g.since = c.since /\ g.last = c.last
      BY <1>1 DEF StreamPages
    <2> HIDE DEF g, c, u
    <2> QED BY <1>6, <2>1, <2>2
  <1>10. CASE Suspend(p)
    <2> DEFINE g == Suspended(p)
    <2>1. c.st = "on" /\ Moves1(p, g, HungUp(u)) /\ UNCHANGED <<of, cap, w, seq, log>>
      BY <1>10, SuspendFacts
    <2>2. g \in StreamPages /\ g.st # "on" /\ g.since = c.since
      BY <1>1 DEF StreamPages, PageStates, Suspended
    <2> HIDE DEF g, c, u
    <2> QED BY <1>3, <1>7, <2>1, <2>2
  <1>11. CASE GoDirect(p)
    <2> DEFINE g == [c EXCEPT !.st = "direct", !.repair = TRUE, !.port = None]
    <2>1. c.st = "on" /\ Moves1(p, g, HungUp(u)) /\ UNCHANGED <<of, cap, w, seq, log>>
      BY <1>11, GoDirectFacts
    <2>2. g \in StreamPages /\ g.st # "on" /\ g.since = c.since
      BY <1>1 DEF StreamPages, PageStates
    <2> HIDE DEF g, c, u
    <2> QED BY <1>3, <1>7, <2>1, <2>2
  <1>12. CASE Close(p)
    <2> DEFINE g == GoneFrom(c)
    <2>1. /\ page' = [page EXCEPT ![p] = g] /\ UNCHANGED <<of, cap, w, seq, log>>
          /\ c.st = "on" => Moves1(p, g, HungUp(u))
          /\ c.st # "on" => port' = port
      BY <1>12, CloseFacts
    <2>2. g \in StreamPages /\ g.st # "on" /\ g.since = c.since
      BY <1>1 DEF StreamPages, PageStates, GoneFrom
    <2>3. CASE c.st = "on"
      <3> HIDE DEF g, c, u
      <3> QED BY <1>3, <1>7, <2>1, <2>2, <2>3
    <2> HIDE DEF g
    <2>4. CASE c.st # "on"
      <3>1. \A r \in Ports : port'[r] = port[r]
        BY <2>1, <2>4
      <3> QED BY <1>1, <2>1, <2>2, <3>1, PageStepOrder
    <2> QED BY <2>3, <2>4
  <1>13. CASE Kill(p)
    <2> DEFINE g == [c EXCEPT !.st = "dead", !.ready = FALSE, !.port = None]
    <2>1. c.st = "on" /\ Moves1(p, g, Dies(u)) /\ UNCHANGED <<of, cap, w, seq, log>>
      BY <1>13, KillFacts
    <2>2. g \in StreamPages /\ g.st # "on" /\ g.since = c.since
      BY <1>1 DEF StreamPages, PageStates
    <2> HIDE DEF g, c, u
    <2> QED BY <1>3, <1>7, <2>1, <2>2
  <1> QED BY <1>8, <1>9, <1>10, <1>11, <1>12, <1>13

\* A page that reads a frame has only later frames to read.
LEMMA HearOrder == ASSUME SyncAssumption, BooksInv, OrderInv, NEW p \in Pages, Hear(p) PROVE OrderInv'
  <1> DEFINE c == page[p]
             q == c.port
             u == port[q]
             m == Head(u.down)
             g == Heard1(p)
  <1>1. /\ c.st = "on" /\ UNCHANGED <<of, cap, w, seq, log>> /\ u.down # <<>>
        /\ m.t # "gone" => Moves1(p, g, Hears(u))
        /\ m.t = "gone" => Moves1(p, g, HungUp(Hears(u)))
    BY HearFacts
  <1>2. u \in PortRecords /\ u.page = p /\ q # None /\ q \in Ports
    BY <1>1, PagePort DEF SyncAssumption
  <1>3. /\ Stirs(p, u, Hears(u)) /\ Hears(u).down = Tail(u.down)
        /\ Stirs(p, u, HungUp(Hears(u)))
    <2>1. u.down # <<>>
      BY <1>1
    <2> HIDE DEF u
    <2> QED BY <1>2, <2>1, PortMoves
  <1>4. u.down \in Seq(DownMsgs) /\ m \in DownMsgs /\ seq \in Nat /\ c \in StreamPages
    <2>1. c.st = "on" /\ u.down # <<>>
      <3> HIDE DEF c, q, u, m, g
      <3> QED BY <1>1
    <2> QED BY <2>1, HeadFacts
  <1>5. /\ g \in StreamPages
        /\ m.t = "gone" => g.st = "gone" /\ g.port = None
        /\ m.t # "gone" => g.st = "on" /\ g.port = q
        /\ m.t \in {"status", "cursor"} => g.last = c.last
        /\ m.t = "frame" => g.last = m.n
        /\ m.t = "status" => g.since = c.since
        /\ m.t \in {"cursor", "frame"} => g.since = Higher(c.since, m.n)
    BY <1>1, <1>2, <1>4, TakeMsgFacts DEF Heard1
  <1>6. m.t = "gone" => g.since = c.since
    BY <1>4 DEF Heard1, TakeMsg, StreamPages
  <1>7. /\ m.t \in {"status", "cursor", "frame", "gone"} /\ m.n \in Nat
        /\ c.since \in Nat
    BY <1>4 DEF DownMsgs, DownTypes, StreamPages
  <1>8. /\ Elems(u.down) = Elems(Tail(u.down)) \cup {m}
        /\ \A e \in Elems(Tail(u.down)) : <<m, e>> \in Rising
    <2>1. PortOrder(q) /\ u.down # <<>>
      <3> HIDE DEF q, m, g
      <3> QED BY <1>1, <1>2 DEF OrderInv
    <2>2. SortedBy(u.down, Rising)
      BY <2>1 DEF PortOrder
    <2> HIDE DEF u
    <2> QED BY <1>4, <2>1, <2>2, TailElems
  <1>9. /\ c.since <= seq /\ m.n <= seq
        /\ \A e \in Elems(u.down) : e.t = "frame" => c.last < e.n
        /\ ~Dialling(q)
        /\ w.meta[q] # None => /\ c.last <= w.meta[q].seen
                               /\ m.t = "frame" => m.n <= w.meta[q].seen
    <2>1. PageOrder(p) /\ PortOrder(q)
      BY <1>2 DEF OrderInv
    <2>2. ~Dialling(q)
      BY <1>2, <1>8, PortKnown
    <2> QED BY <1>1, <1>8, <2>1, <2>2 DEF PageOrder, PortOrder
  <1> HIDE DEF g, m, u, q, c
  <1>10. g.since <= seq
    BY <1>5, <1>6, <1>7, <1>9 DEF Higher
  <1>11. ASSUME m.t # "gone"
         PROVE  /\ \A e \in Elems(Hears(u).down) : e.t = "frame" => g.last < e.n
                /\ w.meta[q] # None => g.last <= w.meta[q].seen
    <2>1. CASE m.t = "frame"
      BY <1>3, <1>5, <1>8, <1>9, <2>1 DEF Rising
    <2>2. CASE m.t \in {"status", "cursor"}
      BY <1>3, <1>5, <1>8, <1>9, <2>2
    <2> QED BY <1>7, <1>11, <2>1, <2>2
  <1>12. CASE m.t = "gone"
    <2>1. g.st # "on"
      BY <1>5, <1>12
    <2> QED BY <1>1, <1>3, <1>5, <1>10, <1>12, <2>1, MoveOrder DEF q, u, c
  <1>13. CASE m.t # "gone"
    BY <1>1, <1>3, <1>5, <1>9, <1>10, <1>11, <1>13, MoveOrder DEF q, u, c
  <1> QED BY <1>12, <1>13

\* Nothing is on its way at the start.
LEMMA InitOrder == ASSUME SyncAssumption, Init PROVE OrderInv
  <1>1. /\ page = [p \in Pages |-> FreshPage] /\ port = [q \in Ports |-> NoPort]
        /\ w = NewWorker /\ seq = 1
    BY DEF Init
  <1>2. w.stream = None /\ \A d \in Docs : w.subs[d] = None
    BY <1>1 DEF NewWorker
  <1>3. StreamOrder(w) /\ SubOrder(w)
    BY <1>2 DEF StreamOrder, SubOrder, Open
  <1>4. ASSUME NEW q \in Ports PROVE PortOrder(q)
    <2>1. port[q].up = <<>> /\ port[q].down = <<>>
      BY <1>1 DEF NoPort
    <2> QED BY <2>1, NoElems DEF PortOrder, SortedBy
  <1>5. ASSUME NEW p \in Pages PROVE PageOrder(p)
    <2>1. page[p].since = 0 /\ page[p].st = "away"
      BY <1>1 DEF FreshPage
    <2> QED BY <1>1, <2>1 DEF PageOrder
  <1> QED BY <1>3, <1>4, <1>5 DEF OrderInv

\* And every step keeps the order.
LEMMA OrderStays == ASSUME SyncAssumption, BooksInv, OrderInv, [Next]_vars PROVE OrderInv'
  <1>1. CASE \E p \in Pages, q \in Ports : Start(p, q) \/ Resume(p, q) \/ Reopen(p, q)
    BY <1>1, DialOrder
  <1>2. CASE \E p \in Pages : Hide(p) \/ Suspend(p) \/ Show(p) \/ GoDirect(p) \/ Close(p) \/ Kill(p)
    BY <1>2, MovesOrder
  <1>3. CASE \E p \in Pages : Hear(p)
    BY <1>3, HearOrder
  <1>4. CASE \E q \in Ports : Handle(q) \/ Sweep(q)
    BY <1>4, HandleOrder, SweepOrder
  <1>5. CASE Rebuild \/ Listen \/ Break \/ Accept
    BY <1>5, RebuildOrder, ListenOrder, BreakOrder, AcceptOrder
  <1>6. CASE \E d \in Lively, k \in Kinds : Publish(d, k)
    <2>1. Lively \subseteq Docs
      BY DEF SyncAssumption
    <2> QED BY <1>6, <2>1, PublishOrder
  <1>7. CASE UNCHANGED vars
    <2>1. page' = page /\ port' = port /\ w' = w /\ seq' = seq
      BY <1>7 DEF vars
    <2>2. StreamOrder(w)'
      BY <2>1 DEF OrderInv, StreamOrder, StreamRight, EntryOrder, Due, IsAnswer
    <2>3. SubOrder(w)'
      BY <2>1 DEF OrderInv, SubOrder, SubRight, Open
    <2>4. \A q \in Ports : PortOrder(q)'
      BY <2>1 DEF OrderInv, PortOrder
    <2>5. ASSUME NEW p \in Pages PROVE PageOrder(p)'
      <3>1. PageOrder(p)
        BY ZenonT(20) DEF OrderInv
      <3> QED BY <2>1, <3>1 DEF PageOrder, Dialling
    <2> QED BY <2>2, <2>3, <2>4, <2>5 DEF OrderInv
  <1> QED BY <1>1, <1>2, <1>3, <1>4, <1>5, <1>6, <1>7 DEF Next

\* What a run checks of the order follows.
LEMMA OrderTells == ASSUME SyncAssumption, BooksInv, OrderInv PROVE NoRepeatOnPort
  <1> SUFFICES ASSUME NEW p \in Pages, page[p].st = "on"
               PROVE  LET down == port[page[p].port].down
                          fs == {i \in DOMAIN down : down[i].t = "frame"}
                      IN /\ \A i \in fs : down[i].n > page[p].last
                         /\ \A i, j \in fs : i < j => down[i].n < down[j].n
    BY DEF NoRepeatOnPort
  <1> DEFINE q == page[p].port
             down == port[q].down
  <1>1. q \in Ports /\ page[p] \in StreamPages
    BY PagePort
  <1>2. /\ \A m \in Elems(down) : m.t = "frame" => page[p].last < m.n
        /\ SortedBy(down, Rising) /\ down \in Seq(DownMsgs)
    <2>1. PageOrder(p) /\ PortOrder(q) /\ down \in Seq(DownMsgs)
      BY <1>1, PortKnown DEF OrderInv
    <2> QED BY <2>1 DEF PageOrder, PortOrder
  <1>3. page[p].last \in Nat /\ \A i \in DOMAIN down : down[i].n \in Nat
    BY <1>1, <1>2 DEF StreamPages, DownMsgs
  <1> HIDE DEF down
  <1> QED BY <1>2, <1>3 DEF Elems, SortedBy, Rising, down

\* A page that listens through the worker (sync-worker.js: feed, connectPort and the
\* hidden page's catch-up) is sent no frame twice and none out of order, over broken
\* and rebuilt streams, resumed documents, hidden and late pages, refusals and
\* resyncs, for any number of pages, documents, kinds and ports.
THEOREM FramesNeverRepeat == Spec => []NoRepeatOnPort
  <1>1. Init => BooksInv /\ OrderInv
    BY SyncAssumption, InitBooks, InitOrder
  <1>2. BooksInv /\ OrderInv /\ [Next]_vars => (BooksInv /\ OrderInv)'
    BY SyncAssumption, BooksStay, OrderStays
  <1>3. BooksInv /\ OrderInv => NoRepeatOnPort
    BY SyncAssumption, OrderTells
  <1> QED BY <1>1, <1>2, <1>3, PTL DEF Spec
=============================================================================
