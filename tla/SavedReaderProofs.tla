------------------------- MODULE SavedReaderProofs -------------------------
(***************************************************************************)
(* Theorems about SavedReader, for every history of the file, every host's *)
(* stamping, and every bound on versions, numbers, breaks and faults.      *)
(***************************************************************************)
EXTENDS SavedReader, PickingProofs

-----------------------------------------------------------------------------
(* The host, and what the reader's record says of it.                      *)

Data == {"frame", "notice"}

\* What the saved lane published: its numbers rise, its versions do not fall, and
\* when the host has told everything, the last of them names the file as it is.
LogOK ==
    /\ seq \in Nat \ {0} /\ ver \in 0 .. MaxVer
    /\ log \in Seq(Messages)
    /\ \A i \in DOMAIN log :
          /\ log[i].k \in Data
          /\ log[i].seq \in 2 .. seq /\ log[i].v <= ver
    /\ \A i, j \in DOMAIN log : i < j => log[i].seq < log[j].seq /\ log[i].v <= log[j].v
    /\ told => IF log = <<>> THEN ver = 0 ELSE log[Len(log)].v = ver

\* A number or None, and no higher than the reader's watermark.
Seen(r, n) == n # None => n <= r.watermark

\* The version v is at least what every publication up to number n named.
Covers(v, n) == \A i \in DOMAIN log : log[i].seq <= n => log[i].v <= v

\* The article shows what its receipt says.
Shows(r) ==
    /\ r.receipt.bytes = None => r.receipt = NoReceipt
    /\ r.receipt.bytes # None => r.receipt.bytes = text[r.at]
    /\ r.receipt.etag # None => r.receipt.etag = r.receipt.bytes
    /\ stamped = {"frame", "body"} => r.receipt.etag = r.receipt.bytes
    /\ ~r.matched => r.receipt.bytes # None

\* The numbers the reader knows of arrived, and its article is one the file had.
Numbered(r) ==
    /\ r.watermark <= seq /\ r.at <= ver
    /\ Seen(r, r.receipt.seq)
    /\ r.job # None => Seen(r, r.job.reason.seq)
    /\ r.pending # None => Seen(r, r.pending.seq)

\* The receipt's number is covered, but for a forced body.
Claims(r) == ~r.forced /\ r.receipt.seq # None => Covers(r.at, r.receipt.seq)

\* A matched receipt is the first one, or a publication's.
Placed(r) ==
    r.matched => \/ r.receipt.seq = None /\ r.at = 0
                 \/ \E i \in DOMAIN log : log[i].seq = r.receipt.seq /\ log[i].v = r.at

\* A body nothing arrived under is no older than the article and all that arrived.
FreshRead(r) ==
    r.job # None =>
       /\ ~r.paused
       /\ r.job.read # None => r.job.read <= ver
       /\ r.job.read # None /\ ~r.job.stale =>
             r.at <= r.job.read /\ Covers(r.job.read, r.watermark)

Sound(r) == r \in Readers /\ Shows(r) /\ Numbered(r) /\ Claims(r) /\ Placed(r) /\ FreshRead(r)

\* The order of the messages of a connection: an open, a cursor, then publications with
\* rising numbers, all above the cursor's.
Before(m, n) ==
    /\ n.k # "open"
    /\ n.k = "cursor" => m.k = "open"
    /\ n.k \in Data => m.seq < n.seq

\* What the host sends. A cursor resumes at the browser's last event id or says resync.
Sent(m) ==
    \/ m = OpenMsg
    \/ /\ m.k = "cursor" /\ m.seq \in 1 .. seq
       /\ asked /\ ~m.resync => m.seq = since
       /\ ~asked => ~m.resync
    \/ m \in Elems(log)

\* A cursor, or one that says resync, is still to be taken.
CursorDue == \E i \in DOMAIN wire : wire[i].k = "cursor"
ResyncDue == \E i \in DOMAIN wire : wire[i].k = "cursor" /\ wire[i].resync

\* The latest publication.
Newest == log[Len(log)]

\* What is on its way: messages in order, past what the browser has, and the newest
\* publication behind any other.
WireOK ==
    /\ wire \in Seq(Messages)
    /\ ~conn => wire = <<>>
    /\ since \in 0 .. seq /\ (asked <=> since > 0)
    /\ \A i \in DOMAIN wire : Sent(wire[i])
    /\ \A i, j \in DOMAIN wire : i < j => Before(wire[i], wire[j])
    /\ \A i \in DOMAIN wire :
          wire[i].k \in Data =>
             /\ Newest \in Elems(wire)
             /\ CursorDue \/ wire[i].seq > since
    /\ conn /\ ~asked => CursorDue

\* The newest publication, or a resync that covers it, will reach the reader.
Coming == log # <<>> /\ Newest.seq > since /\ (conn => Newest \in Elems(wire) \/ ResyncDue)

\* The reader will still ask for the page, or was told that something is wrong.
Owed(r) == r.job # None \/ r.pending # None \/ r.warned \/ r.forced

\* The reader has caught up with the file, or will, or was told.
Caught(r) == Owed(r) \/ r.receipt.bytes = text[ver]

\* The GET holds a body that nothing has arrived under.
Reads(r) == r.job # None /\ r.job.read # None /\ ~r.job.stale

\* When the host has told everything, the reader misses nothing that is not coming.
Following ==
    /\ asked \/ (rd.job = None /\ rd.pending = None)
    /\ told /\ asked /\ ~stopped => Coming \/ Caught(rd)
    /\ told /\ asked /\ Reads(rd) => Coming \/ rd.job.read = ver

-----------------------------------------------------------------------------
(* What each operator on the reader's record keeps.                        *)

\* The file and the lane, which no handler of the reader changes.
Host ==
    /\ text \in [0 .. MaxVer -> Bodies] /\ stamped \subseteq {"frame", "body"}
    /\ MaxVer \in Nat /\ None \notin Bodies /\ None \notin Nat
    /\ None \notin Reasons /\ None \notin Jobs
    /\ LogOK

\* Owing a repair.
Asks(r) == r.job # None \/ r.pending # None

\* The step from r to q leaves the article as it is, starts no reading that r had
\* not, and loses no repair.
Goes(q, r) ==
    /\ Sound(q) /\ q.at = r.at /\ q.forced = r.forced
    /\ Reads(q) => Reads(r) /\ q.job = r.job
    /\ Caught(r) => Caught(q)
    /\ ~Asks(r) => ~Asks(q)

\* A number that arrives makes a body being read old, and nothing else.
LEMMA ArrivedKeeps ==
    ASSUME Host, NEW r, Sound(r), NEW n \in Nat, n <= seq
    PROVE  LET q == Arrived(r, n)
           IN  Goes(q, r) /\ ~Reads(q) /\ n <= q.watermark
  <1> DEFINE q == Arrived(r, n)
  <1>0. r \in Readers /\ seq \in Nat
    BY DEF Sound, Host, LogOK
  <1>1. /\ q \in Readers
        /\ q.receipt = r.receipt /\ q.at = r.at /\ q.matched = r.matched
        /\ q.warned = r.warned /\ q.forced = r.forced /\ q.pending = r.pending
        /\ q.paused = r.paused
        /\ q.watermark = Higher(r.watermark, n)
    BY <1>0 DEF Arrived, Readers, Jobs, Higher
  <1>9. None \notin Jobs /\ r.job \in Jobs \cup {None}
    BY <1>0 DEF Host, Readers
  <1>8. q.job = IF r.job = None THEN None ELSE [r.job EXCEPT !.stale = TRUE]
    BY <1>0 DEF Arrived, Readers
  <1>2. /\ q.job = None <=> r.job = None
        /\ q.job # None => /\ q.job.stale /\ q.job.read = r.job.read
                           /\ q.job.reason = r.job.reason
    <2> HIDE DEF q
    <2>1. CASE r.job = None
      BY <2>1, <1>8
    <2>2. CASE r.job # None
      <3>1. r.job \in Jobs /\ q.job = [r.job EXCEPT !.stale = TRUE]
        BY <2>2, <1>8, <1>9
      <3>2. /\ q.job \in Jobs /\ q.job.stale /\ q.job.read = r.job.read
            /\ q.job.reason = r.job.reason
        BY <3>1 DEF Jobs
      <3> QED BY <2>2, <3>2, <1>9
    <2> QED BY <2>1, <2>2
  <1>3. r.watermark \in Nat /\ q.watermark \in Nat /\ n <= q.watermark
        /\ r.watermark <= q.watermark
    BY <1>0, <1>1 DEF Readers, Higher
  <1> HIDE DEF q
  <1>4. \A x \in Nat \cup {None} : Seen(r, x) => Seen(q, x)
    BY <1>3 DEF Seen, Host
  <1>5. /\ r.receipt.seq \in Nat \cup {None}
        /\ r.job # None => r.job.reason.seq \in Nat \cup {None}
        /\ r.pending # None => r.pending.seq \in Nat \cup {None}
    BY <1>0 DEF Readers, Receipts, Jobs, Reasons
  <1>6. Numbered(q)
    BY <1>0, <1>1, <1>2, <1>3, <1>4, <1>5 DEF Sound, Numbered, Higher
  <1>7. Shows(q) /\ Claims(q) /\ Placed(q) /\ FreshRead(q)
    BY <1>1, <1>2 DEF Sound, Shows, Claims, Placed, FreshRead
  <1> QED
    BY <1>1, <1>2, <1>3, <1>6, <1>7 DEF q, Goes, Sound, Reads, Caught, Owed, Asks

\* Starting the GET that is owed changes neither the article nor what is known of it.
LEMMA RunRepairKeeps ==
    ASSUME Host, NEW r, Sound(r)
    PROVE  LET q == RunRepair(r) IN Goes(q, r) /\ (Asks(r) => Asks(q))
  <1> DEFINE q == RunRepair(r)
  <1>1. CASE r.job # None \/ r.paused \/ r.pending = None
    BY <1>1 DEF RunRepair, Goes
  <1>2. CASE ~(r.job # None \/ r.paused \/ r.pending = None)
    <2>0. r \in Readers /\ r.pending \in Reasons /\ None \notin Jobs
      BY <1>2 DEF Sound, Readers, Host
    <2> DEFINE j == [reason |-> r.pending, read |-> None, stale |-> FALSE]
    <2>1. j \in Jobs /\ j.reason = r.pending /\ j.read = None
      BY <2>0 DEF Jobs
    <2>2. q = [r EXCEPT !.pending = None, !.job = j]
      BY <1>2 DEF RunRepair
    <2> HIDE DEF q, j
    <2>3. /\ q \in Readers
          /\ q.receipt = r.receipt /\ q.at = r.at /\ q.matched = r.matched
          /\ q.warned = r.warned /\ q.forced = r.forced /\ q.pending = None
          /\ q.paused = FALSE /\ q.watermark = r.watermark
          /\ q.job = j
      BY <2>0, <2>1, <2>2, <1>2 DEF Readers
    <2>6. q.job.reason = r.pending /\ q.job.read = None /\ q.job # None
      BY <2>0, <2>1, <2>3
    <2>4. Numbered(q)
      <3>1. Numbered(r) /\ r.pending # None
        BY <1>2 DEF Sound
      <3>2. Seen(q, q.receipt.seq) /\ Seen(q, q.job.reason.seq)
        BY <3>1, <2>3, <2>6 DEF Numbered, Seen
      <3> QED BY <3>1, <3>2, <2>3 DEF Numbered
    <2>5. Shows(q) /\ Claims(q) /\ Placed(q) /\ FreshRead(q)
      BY <2>3, <2>6 DEF Sound, Shows, Claims, Placed, FreshRead
    <2> QED
      BY <2>3, <2>4, <2>5, <2>6, <1>2 DEF q, Goes, Sound, Reads, Caught, Owed, Asks
  <1> QED BY <1>1, <1>2

\* A repair that is asked for is owed.
LEMMA RequestRepairKeeps ==
    ASSUME Host, NEW r, Sound(r), NEW kind \in {"startup", "resync", "notice", "unmatched"},
           NEW n \in Nat \cup {None}, Seen(r, n)
    PROVE  LET q == RequestRepair(r, kind, n)
           IN  /\ Sound(q) /\ Asks(q) /\ Caught(q) /\ q.at = r.at
               /\ Reads(q) => Reads(r)
  <1> DEFINE p == [r EXCEPT !.pending = [kind |-> kind, seq |-> n], !.paused = FALSE]
  <1>0. r \in Readers /\ [kind |-> kind, seq |-> n] \in Reasons
        /\ [kind |-> kind, seq |-> n] # None
    BY DEF Sound, Reasons, Host, Readers
  <1>1. /\ p \in Readers
        /\ p.receipt = r.receipt /\ p.at = r.at /\ p.matched = r.matched
        /\ p.warned = r.warned /\ p.forced = r.forced
        /\ p.pending = [kind |-> kind, seq |-> n]
        /\ p.paused = FALSE /\ p.watermark = r.watermark /\ p.job = r.job
    BY <1>0 DEF Readers
  <1> HIDE DEF p
  <1>2. Numbered(p)
    BY <1>0, <1>1 DEF Sound, Numbered, Seen
  <1>3. Shows(p) /\ Claims(p) /\ Placed(p) /\ FreshRead(p)
    BY <1>1 DEF Sound, Shows, Claims, Placed, FreshRead
  <1>4. Sound(p) /\ Asks(p)
    BY <1>0, <1>1, <1>2, <1>3 DEF Sound, Asks
  <1>5. RequestRepair(r, kind, n) = RunRepair(p)
    BY DEF RequestRepair, p
  <1> QED
    BY <1>1, <1>4, <1>5, RunRepairKeeps DEF Goes, Reads, Asks, Caught, Owed

\* A stream that opens lets a repair that failed start again.
LEMMA OnOpenKeeps ==
    ASSUME Host, NEW r, Sound(r)
    PROVE  Goes(OnOpen(r), r)
  <1>1. CASE ~r.paused
    BY <1>1 DEF OnOpen, Goes
  <1>2. CASE r.paused
    <2> DEFINE p == [r EXCEPT !.paused = FALSE]
    <2>0. r \in Readers /\ r.job = None
      BY <1>2 DEF Sound, FreshRead
    <2>1. /\ p \in Readers
          /\ p.receipt = r.receipt /\ p.at = r.at /\ p.matched = r.matched
          /\ p.warned = r.warned /\ p.forced = r.forced /\ p.pending = r.pending
          /\ p.watermark = r.watermark /\ p.job = r.job
      BY <2>0 DEF Readers
    <2> HIDE DEF p
    <2>2. Sound(p)
      BY <2>0, <2>1 DEF Sound, Numbered, Seen, Shows, Claims, Placed, FreshRead
    <2>3. OnOpen(r) = RunRepair(p)
      BY <1>2 DEF OnOpen, p
    <2> QED
      BY <2>0, <2>1, <2>2, <2>3, RunRepairKeeps DEF Goes, Reads, Caught, Owed, Asks
  <1> QED BY <1>1, <1>2

\* A cursor that asks for a repair gets one.
LEMMA OnCursorKeeps ==
    ASSUME Host, NEW r, Sound(r), ~Reads(r), NEW c \in Messages, c.seq <= r.watermark
    PROVE  LET q == OnCursor(r, c)
           IN  /\ Sound(q) /\ ~Reads(q) /\ q.at = r.at
               /\ c.resync \/ ~asked => Asks(q)
               /\ Caught(r) => Caught(q)
  <1>1. c.seq \in Nat \cup {None} /\ Seen(r, c.seq) /\ Seen(r, None)
    BY DEF Messages, Seen
  <1>2. CASE c.resync
    BY <1>1, <1>2, RequestRepairKeeps DEF OnCursor
  <1>3. CASE ~c.resync /\ ~asked
    BY <1>1, <1>3, RequestRepairKeeps DEF OnCursor
  <1>4. CASE ~c.resync /\ asked
    BY <1>4 DEF OnCursor
  <1> QED BY <1>2, <1>3, <1>4

\* What a publication is.
LEMMA LogItem ==
    ASSUME Host, NEW i \in DOMAIN log
    PROVE  /\ log[i] \in Messages /\ log[i].k \in Data
           /\ log[i].seq \in Nat \ {0} /\ log[i].seq # None /\ log[i].seq <= seq
           /\ log[i].v \in 0 .. MaxVer /\ log[i].v <= ver
           /\ i \in 1 .. Len(log) /\ Len(log) \in Nat
           /\ seq \in Nat /\ ver \in 0 .. MaxVer
  <1>1. log \in Seq(Messages) /\ seq \in Nat /\ ver \in 0 .. MaxVer /\ None \notin Nat
    BY DEF Host, LogOK
  <1>2. log[i] \in Messages /\ i \in 1 .. Len(log) /\ Len(log) \in Nat
    BY <1>1
  <1>3. log[i].seq \in Nat /\ log[i].v \in 0 .. MaxVer
    BY <1>2 DEF Messages
  <1>4. log[i].k \in Data /\ log[i].seq \in 2 .. seq /\ log[i].v <= ver
    BY DEF Host, LogOK
  <1> QED BY <1>1, <1>2, <1>3, <1>4

\* Past the end of what it names, a later version covers too.
LEMMA LaterCovers ==
    ASSUME Host, NEW v \in Nat, NEW w \in Nat, v <= w, NEW n, Covers(v, n)
    PROVE  Covers(w, n)
  <1>1. \A i \in DOMAIN log : log[i].v \in Nat
    BY LogItem
  <1> QED BY <1>1 DEF Covers

\* A publication covers all before it.
LEMMA PublicationCovers ==
    ASSUME Host, NEW i \in DOMAIN log
    PROVE  Covers(log[i].v, log[i].seq)
  <1>1. DOMAIN log = 1 .. Len(log) /\ Len(log) \in Nat
    BY DEF Host, LogOK
  <1>2. \A j \in DOMAIN log : log[j].v \in Nat /\ log[j].seq \in Nat
    BY LogItem
  <1>3. ASSUME NEW j \in DOMAIN log, log[j].seq <= log[i].seq
        PROVE  log[j].v <= log[i].v
    <2>1. ~(i < j)
      BY <1>2, <1>3 DEF Host, LogOK
    <2>2. i = j \/ j < i
      BY <1>1, <1>3, <2>1
    <2> QED BY <1>2, <1>3, <2>2 DEF Host, LogOK
  <1> QED BY <1>3 DEF Covers

\* A new receipt over an article that shows what it says.
LEMMA ShowsNew ==
    ASSUME Host, NEW r, Sound(r), ~Reads(r), NEW q \in Readers,
           q.job = r.job, q.pending = r.pending, q.watermark = r.watermark,
           r.job = None \/ q.paused = r.paused,
           q.receipt \in Receipts, q.at <= ver, q.receipt.bytes = text[q.at],
           q.receipt.etag # None => q.receipt.etag = q.receipt.bytes,
           stamped = {"frame", "body"} => q.receipt.etag = q.receipt.bytes,
           Seen(r, q.receipt.seq), Claims(q), Placed(q)
    PROVE  Sound(q) /\ ~Reads(q)
  <1>1. q.receipt.bytes \in Bodies /\ q.receipt.bytes # None
    BY DEF Host, Readers
  <1>2. Shows(q)
    BY <1>1 DEF Shows
  <1>3. Numbered(q)
    BY DEF Numbered, Sound, Seen
  <1>4. FreshRead(q)
    BY DEF FreshRead, Sound, Reads
  <1> QED BY <1>2, <1>3, <1>4 DEF Sound, Reads

\* A refused snapshot is reported, and nothing else.
LEMMA WarnKeeps ==
    ASSUME Host, NEW r, Sound(r)
    PROVE  Goes(Warn(r), r) /\ Caught(Warn(r)) /\ Warn(r).job = r.job
  <1> DEFINE q == Warn(r)
  <1>1. r \in Readers
    BY DEF Sound
  <1>2. /\ q \in Readers
        /\ q.receipt = r.receipt /\ q.at = r.at /\ q.matched = r.matched
        /\ q.warned /\ q.forced = r.forced /\ q.pending = r.pending
        /\ q.paused = r.paused /\ q.watermark = r.watermark /\ q.job = r.job
    BY <1>1 DEF Warn, Readers
  <1> HIDE DEF q
  <1>3. Sound(q)
    BY <1>2 DEF Sound, Numbered, Seen, Shows, Claims, Placed, FreshRead
  <1>4. Goes(q, r) /\ Caught(q)
    BY <1>2, <1>3 DEF Goes, Reads, Caught, Owed, Asks
  <1> QED BY <1>2, <1>4 DEF q

\* What a frame leaves behind: a sound record, which has caught up with the file if
\* the frame names it as it is, and which has not rewound.
Applied(q, r, f) ==
    /\ Sound(q) /\ ~Reads(q)
    /\ f.v = ver => Caught(q)
    /\ stamped = {"frame", "body"} /\ Distinct => r.at <= q.at

\* Every branch of a frame leaves that behind.
LEMMA OnFrameKeeps ==
    ASSUME Host, NEW r, Sound(r), ~Reads(r), NEW i \in DOMAIN log,
           log[i].seq <= r.watermark, NEW yes \in BOOLEAN
    PROVE  Applied(OnFrame(r, log[i], yes), r, log[i])
  <1> DEFINE f     == log[i]
             bytes == text[f.v]
             etag  == IF "frame" \in stamped THEN text[f.v] ELSE None
             r1    == [r EXCEPT !.matched = Confirmed(r, etag)]
             c     == [bytes |-> bytes, etag |-> etag, seq |-> f.seq]
             q     == OnFrame(r, f, yes)
  <1>1. /\ f \in Messages /\ f.seq \in Nat /\ f.seq # None /\ f.v \in 0 .. MaxVer
        /\ f.v <= ver /\ ver \in Nat
        /\ bytes \in Bodies /\ bytes # None
        /\ etag = bytes \/ etag = None
        /\ stamped = {"frame", "body"} => etag = bytes
    BY LogItem DEF Host
  <1>2. r \in Readers /\ r.receipt \in Receipts /\ r.at \in Nat
        /\ r.receipt.seq \in Nat \cup {None}
    BY DEF Sound, Readers, Receipts
  <1>3. r.receipt.bytes \in Bodies => r.receipt.bytes = text[r.at]
    BY DEF Sound, Shows, Host
  <1>4. Covers(f.v, f.seq)
    BY PublicationCovers
  <1>5. /\ r1 \in Readers /\ r1.matched = Confirmed(r, etag)
        /\ r1.receipt = r.receipt /\ r1.at = r.at /\ r1.watermark = r.watermark
        /\ r1.warned = r.warned /\ r1.forced = r.forced /\ r1.pending = r.pending
        /\ r1.paused = r.paused /\ r1.job = r.job /\ r1.discards = r.discards
    BY <1>2 DEF Readers, Confirmed
  <1>6. /\ c \in Receipts /\ c.bytes = bytes /\ c.etag = etag /\ c.seq = f.seq
    BY <1>1 DEF Receipts
  <1>7. q = CASE Covered(r, f.seq) -> r
              [] ~Covered(r, f.seq) /\ Unplaced(r, etag) ->
                    RequestRepair(r, "unmatched", f.seq)
              [] ~Covered(r, f.seq) /\ ~Unplaced(r, etag) /\ bytes = r.receipt.bytes ->
                    Advance(r1, etag, f.seq, f.v)
              [] OTHER -> [Accept(r1, c, f.v, yes) EXCEPT !.matched = @ \/ Taken(r1, c, yes)]
    BY DEF OnFrame
  <1> HIDE DEF f, bytes, etag, r1, c, q
  <1> SUFFICES Applied(q, r, f)
    BY DEF q, f
  <1>c1. CASE Covered(r, f.seq)
    <2>1. q = r
      BY <1>7, <1>c1
    <2>2. ASSUME f.v = ver
          PROVE  Caught(r)
      <3>1. CASE r.forced
        BY <3>1 DEF Caught, Owed
      <3>2. CASE ~r.forced
        <4>1. Covers(r.at, r.receipt.seq) /\ f.seq <= r.receipt.seq
          BY <3>2, <1>c1 DEF Sound, Claims, Covered
        <4>2. f.v <= r.at
          BY <4>1 DEF Covers, f
        <4>3. r.at = ver
          BY <4>2, <2>2, <1>1, <1>2 DEF Sound, Numbered
        <4>4. r.receipt.bytes # None
          BY <1>c1 DEF Covered, Sound, Shows, NoReceipt
        <4> QED BY <4>3, <4>4 DEF Sound, Shows, Caught
      <3> QED BY <3>1, <3>2
    <2> QED BY <1>2, <2>1, <2>2 DEF Applied
  <1>c2. CASE ~Covered(r, f.seq) /\ Unplaced(r, etag)
    <2>1. q = RequestRepair(r, "unmatched", f.seq)
      BY <1>7, <1>c2
    <2>2. Seen(r, f.seq)
      BY DEF Seen, f
    <2>3. f.seq \in Nat \cup {None}
      BY <1>1
    <2>4. Sound(q) /\ Caught(q) /\ q.at = r.at /\ (Reads(q) => Reads(r))
      BY <2>1, <2>2, <2>3, RequestRepairKeeps
    <2> QED BY <1>2, <2>4 DEF Applied
  <1>c3. CASE ~Covered(r, f.seq) /\ ~Unplaced(r, etag) /\ bytes = r.receipt.bytes
    <2>1. q = Advance(r1, etag, f.seq, f.v)
      BY <1>7, <1>c3
    <2>2. /\ q \in Readers /\ q.receipt \in Receipts
          /\ q.receipt.bytes = bytes /\ q.receipt.etag = Or(etag, r.receipt.etag)
          /\ q.receipt.seq = f.seq /\ q.at = f.v
          /\ q.job = r.job /\ q.pending = r.pending /\ q.watermark = r.watermark
          /\ q.paused = r.paused
      <3> DEFINE n == [bytes |-> r1.receipt.bytes, etag |-> Or(etag, r1.receipt.etag),
                       seq |-> f.seq]
      <3>1. /\ n \in Receipts /\ n.bytes = bytes /\ n.etag = Or(etag, r.receipt.etag)
            /\ n.seq = f.seq
        BY <1>1, <1>2, <1>5, <1>c3 DEF Receipts, Or
      <3>2. q = [r1 EXCEPT !.receipt = n, !.at = f.v, !.warned = FALSE, !.forced = FALSE]
        BY <2>1, <1>5 DEF Advance, Readers
      <3> HIDE DEF n
      <3>3. /\ q \in Readers /\ q.receipt = n /\ q.at = f.v
            /\ q.job = r1.job /\ q.pending = r1.pending /\ q.watermark = r1.watermark
            /\ q.paused = r1.paused
        BY <3>1, <3>2, <1>1, <1>5 DEF Readers
      <3> QED BY <3>1, <3>3, <1>5
    <2>3. q.receipt.etag # None => q.receipt.etag = q.receipt.bytes
      BY <2>2, <1>1, <1>c3 DEF Or, Sound, Shows
    <2>4. stamped = {"frame", "body"} => q.receipt.etag = q.receipt.bytes
      BY <2>2, <1>1 DEF Or
    <2>5. Claims(q) /\ Placed(q) /\ Seen(r, q.receipt.seq)
      BY <2>2, <1>4 DEF Claims, Placed, Seen, f
    <2>6. q.receipt.bytes = text[q.at] /\ q.at <= ver
      BY <2>2, <1>1 DEF bytes
    <2>7. Sound(q) /\ ~Reads(q)
      BY <2>2, <2>3, <2>4, <2>5, <2>6, ShowsNew
    <2>8. f.v = ver => Caught(q)
      BY <2>2, <2>6 DEF Caught
    <2>9. Distinct => r.at = q.at
      <3>1. r.at \in DOMAIN text /\ q.at \in DOMAIN text
        BY <2>2, <1>1, <1>2 DEF Host, Readers
      <3>2. text[r.at] = text[q.at]
        BY <2>2, <2>6, <1>1, <1>3, <1>c3
      <3> QED BY <3>1, <3>2 DEF Distinct
    <2> QED BY <1>2, <2>7, <2>8, <2>9 DEF Applied
  <1>c4. CASE ~Covered(r, f.seq) /\ ~Unplaced(r, etag) /\ bytes # r.receipt.bytes
    <2>1. q = [Accept(r1, c, f.v, yes) EXCEPT !.matched = @ \/ Taken(r1, c, yes)]
      BY <1>7, <1>c4
    <2>2. c # r1.receipt /\ r1.matched = r.matched
      <3>1. c.seq # r.receipt.seq
        BY <1>c4, <1>6, <1>1 DEF Covered
      <3>2. etag # None => etag # r.receipt.etag
        BY <1>c4, <1>1 DEF Sound, Shows
      <3>3. r.matched \in BOOLEAN
        BY <1>2 DEF Readers
      <3> QED BY <3>1, <3>2, <3>3, <1>5 DEF Confirmed
    <2>5. r1 = r
      BY <2>2, <1>2, <1>5 DEF r1, Readers
    <2>3. CASE ~yes
      <3>1. Accept(r, c, f.v, yes) = Warn(r) /\ ~Taken(r, c, yes)
        BY <2>2, <2>3, <2>5 DEF Accept, Taken
      <3>2. q = Warn(r)
        BY <3>1, <2>1, <2>5, <1>2 DEF Warn, Readers
      <3> QED BY <3>2, <1>2, WarnKeeps DEF Goes, Applied
    <2>4. CASE yes
      <3>1. Accept(r1, c, f.v, yes) = [r1 EXCEPT !.receipt = c, !.at = f.v,
                                                 !.warned = FALSE, !.forced = FALSE]
        BY <2>2, <2>4 DEF Accept
      <3>2. /\ q \in Readers /\ q.receipt = c /\ q.at = f.v
            /\ q.job = r.job /\ q.pending = r.pending /\ q.watermark = r.watermark
            /\ q.paused = r.paused
        <4> DEFINE a == [r1 EXCEPT !.receipt = c, !.at = f.v, !.warned = FALSE, !.forced = FALSE]
        <4>1. /\ a \in Readers /\ a.receipt = c /\ a.at = f.v
              /\ a.job = r.job /\ a.pending = r.pending /\ a.watermark = r.watermark
              /\ a.paused = r.paused
          BY <1>1, <1>5, <1>6 DEF Readers
        <4>2. q = [a EXCEPT !.matched = @ \/ Taken(r1, c, yes)]
          BY <2>1, <3>1
        <4> HIDE DEF a
        <4> QED BY <4>1, <4>2 DEF Readers
      <3>3. Claims(q) /\ Placed(q) /\ Seen(r, q.receipt.seq)
        BY <3>2, <1>4, <1>6 DEF Claims, Placed, Seen, f
      <3>4. q.receipt.bytes = text[q.at] /\ q.at <= ver
        BY <3>2, <1>1, <1>6 DEF bytes
      <3>5. Sound(q) /\ ~Reads(q)
        BY <3>2, <3>3, <3>4, <1>1, <1>6, ShowsNew
      <3>6. f.v = ver => Caught(q)
        BY <3>2, <3>4 DEF Caught
      <3>7. ASSUME stamped = {"frame", "body"}
            PROVE  r.at <= f.v
        <4>1. r.matched
          BY <3>7, <1>c4, <1>1 DEF Unplaced, Sound, Shows
        <4>2. CASE r.receipt.seq = None /\ r.at = 0
          BY <4>2, <1>1
        <4>3. CASE \E k \in DOMAIN log : log[k].seq = r.receipt.seq /\ log[k].v = r.at
          <5>1. PICK k \in DOMAIN log : log[k].seq = r.receipt.seq /\ log[k].v = r.at
            BY <4>3
          <5>2. log[k].seq \in Nat /\ log[k].seq <= f.seq
            BY <5>1, <1>c4, <1>1, <1>2, LogItem DEF Covered
          <5> QED BY <5>1, <5>2, <1>4 DEF Covers
        <4> QED BY <4>1, <4>2, <4>3 DEF Sound, Placed
      <3> QED BY <3>2, <3>5, <3>6, <3>7 DEF Applied
    <2> QED BY <2>3, <2>4
  <1> QED BY <1>c1, <1>c2, <1>c3, <1>c4

\* A body that is applied leaves a sound record, which has caught up with the file if
\* the body is the file as it is, and which has rewound only if it was forced.
LEMMA AcceptBodyKeeps ==
    ASSUME Host, NEW r, Sound(r), r.job = None, NEW v \in 0 .. MaxVer, v <= ver,
           NEW reason \in Reasons, Seen(r, reason.seq), NEW yes \in BOOLEAN,
           NEW forced \in BOOLEAN,
           forced \/ (r.at <= v /\ Covers(v, r.watermark))
    PROVE  LET q == AcceptBody(r, v, reason, yes, forced)
           IN  /\ Sound(q) /\ q.job = None
               /\ forced \/ v = ver => Caught(q)
               /\ q.forced \/ r.at <= q.at
  <1> DEFINE n  == IF reason.kind = "startup" THEN r.receipt.seq ELSE Or(reason.seq, r.receipt.seq)
             c  == [bytes |-> text[v], etag |-> BodyStamp(r, v), seq |-> n]
             r1 == Accept(r, c, v, yes)
             q  == AcceptBody(r, v, reason, yes, forced)
  <1>1. r \in Readers /\ r.receipt \in Receipts /\ r.at \in Nat /\ r.watermark \in Nat
        /\ r.receipt.seq \in Nat \cup {None} /\ reason.seq \in Nat \cup {None}
        /\ v \in Nat /\ ver \in 0 .. MaxVer
        /\ text[v] \in Bodies /\ text[v] # None
    BY DEF Sound, Readers, Receipts, Reasons, Host, LogOK
  <1>2. ~Reads(r)
    BY DEF Reads
  <1>3. n \in Nat \cup {None} /\ Seen(r, n)
    BY <1>1 DEF Or, Sound, Numbered
  <1>4. /\ BodyStamp(r, v) \in {None, text[v]}
        /\ stamped = {"frame", "body"} => BodyStamp(r, v) = text[v]
    BY <1>1 DEF BodyStamp, Sound, Shows
  <1>5. /\ c \in Receipts /\ c.bytes = text[v] /\ c.seq = n
        /\ c.etag # None => c.etag = c.bytes
        /\ stamped = {"frame", "body"} => c.etag = c.bytes
    BY <1>1, <1>3, <1>4 DEF Receipts
  <1>6. q = IF Taken(r, c, yes)
            THEN [r1 EXCEPT !.matched = FALSE, !.discards = 0, !.paused = FALSE,
                            !.warned = FALSE, !.forced = forced]
            ELSE r1
    BY DEF AcceptBody
  <1> HIDE DEF n, c, q
  <1>7. CASE ~Taken(r, c, yes)
    <2>1. q = Warn(r)
      BY <1>6, <1>7 DEF Taken, Accept
    <2> QED BY <2>1, <1>1, WarnKeeps DEF Goes, q
  <1>8. CASE Taken(r, c, yes)
    <2> DEFINE w == IF c = r.receipt THEN Higher(r.at, v) ELSE v
    <2>1. /\ r1 \in Readers /\ r1.receipt = c /\ r1.at = w
          /\ r1.job = r.job /\ r1.pending = r.pending /\ r1.watermark = r.watermark
      <3>1. w \in 0 .. MaxVer
        BY <1>1 DEF Higher, Readers
      <3>2. CASE c = r.receipt
        BY <3>1, <3>2, <1>1 DEF Accept, Readers
      <3>3. CASE c # r.receipt
        <4>1. yes
          BY <3>3, <1>8 DEF Taken
        <4>2. r1 = [r EXCEPT !.receipt = c, !.at = v, !.warned = FALSE, !.forced = FALSE]
          BY <3>3, <4>1 DEF Accept
        <4> HIDE DEF r1
        <4>3. /\ r1 \in Readers /\ r1.receipt = c /\ r1.at = v
              /\ r1.job = r.job /\ r1.pending = r.pending /\ r1.watermark = r.watermark
          BY <4>2, <3>3, <1>1, <1>5 DEF Readers
        <4> QED BY <4>3, <3>3
      <3> QED BY <3>2, <3>3
    <2>2. w \in Nat /\ v <= w /\ w <= ver /\ w \in 0 .. MaxVer
      BY <1>1 DEF Higher, Sound, Numbered, Readers
    <2>3. text[w] = text[v]
      BY <1>1, <1>5 DEF Higher, Sound, Shows
    <2> HIDE DEF r1, w
    <2>4. /\ q \in Readers /\ q.receipt = c /\ q.at = w /\ ~q.matched
          /\ q.job = r.job /\ q.pending = r.pending /\ q.watermark = r.watermark
          /\ q.forced = forced
      BY <2>1, <1>6, <1>8 DEF Readers
    <2>5. Claims(q)
      <3>1. ASSUME ~forced, n # None
            PROVE  Covers(w, n)
        <4>1. Covers(v, r.watermark) /\ n <= r.watermark /\ n \in Nat
          BY <3>1, <1>3 DEF Seen
        <4>2. Covers(v, n)
          BY <4>1, <1>1, LogItem DEF Covers
        <4> QED BY <4>2, <2>2, <1>1, LaterCovers
      <3> QED BY <3>1, <2>4, <1>5 DEF Claims
    <2>6. Placed(q) /\ Seen(r, q.receipt.seq)
      BY <2>4, <1>3, <1>5 DEF Placed
    <2>7. Sound(q)
      BY <2>2, <2>3, <2>4, <2>5, <2>6, <1>2, <1>5, ShowsNew
    <2>8. forced \/ v = ver => Caught(q)
      BY <2>2, <2>3, <2>4, <1>1, <1>5 DEF Caught, Owed
    <2>9. q.forced \/ r.at <= q.at
      BY <2>2, <2>4, <1>1
    <2> QED BY <2>4, <2>7, <2>8, <2>9 DEF q
  <1> QED BY <1>7, <1>8

\* A GET that failed leaves its reason owed.
LEMMA FailedKeeps ==
    ASSUME Host, NEW r, Sound(r), r.job # None
    PROVE  LET q == Failed(r)
           IN  Sound(q) /\ ~Reads(q) /\ Caught(q) /\ q.at = r.at
  <1> DEFINE q == Failed(r)
  <1>1. r \in Readers /\ r.job \in Jobs /\ r.job.reason \in Reasons
    BY DEF Sound, Readers, Jobs
  <1>2. /\ q \in Readers
        /\ q.receipt = r.receipt /\ q.at = r.at /\ q.matched = r.matched
        /\ q.warned /\ q.forced = r.forced /\ q.pending = r.job.reason
        /\ q.watermark = r.watermark /\ q.job = None
    BY <1>1 DEF Failed, Warn, Readers
  <1> HIDE DEF q
  <1>3. Sound(q)
    BY <1>2 DEF Sound, Numbered, Seen, Shows, Claims, Placed, FreshRead
  <1> QED BY <1>2, <1>3 DEF q, Reads, Caught, Owed

\* The number a discarded body's repair covers is one that arrived.
LEMMA LatestSeen ==
    ASSUME Host, NEW r, Sound(r), NEW reason \in Reasons, Seen(r, reason.seq)
    PROVE  Latest(r, reason) \in Reasons /\ Seen(r, Latest(r, reason).seq)
  <1>1. r.watermark \in Nat /\ reason.seq \in Nat \cup {None}
        /\ reason.kind \in {"startup", "resync", "notice", "unmatched"}
    BY DEF Sound, Readers, Reasons
  <1>2. LatestSeq(r, reason) \in Nat \cup {None} /\ Seen(r, LatestSeq(r, reason))
    BY <1>1 DEF LatestSeq, Seen, Higher
  <1> QED BY <1>1, <1>2 DEF Latest, Reasons

\* What a finished GET leaves behind.
LEMMA SettledKeeps ==
    ASSUME Host, NEW r, Sound(r), r.job # None, r.job.read # None, NEW yes \in BOOLEAN
    PROVE  LET q == Settled(r, yes)
           IN  /\ Sound(q) /\ ~Reads(q)
               /\ r.job.stale \/ r.job.read = ver => Caught(q)
               /\ q.forced \/ r.at <= q.at
  <1> DEFINE v == r.job.read
             reason == r.job.reason
             q == Settled(r, yes)
  <1>1. /\ r \in Readers /\ r.at \in Nat /\ r.job \in Jobs /\ reason \in Reasons
        /\ v \in 0 .. MaxVer /\ v <= ver /\ r.job.stale \in BOOLEAN /\ Seen(r, reason.seq)
        /\ r.watermark \in Nat /\ reason # None /\ Latest(r, reason) # None
    <2>1. r \in Readers /\ r.job \in Jobs
      BY DEF Sound, Readers
    <2>2. reason \in Reasons /\ v \in 0 .. MaxVer /\ r.job.stale \in BOOLEAN
      BY <2>1 DEF Jobs
    <2>3. r.at \in Nat /\ r.watermark \in Nat /\ v <= ver /\ Seen(r, reason.seq)
      BY <2>1 DEF Readers, Sound, FreshRead, Numbered
    <2>4. Latest(r, reason) \in Reasons
      BY <2>2, <2>3, LatestSeen
    <2> QED BY <2>1, <2>2, <2>3, <2>4 DEF Host
  <1>2. CASE ~r.job.stale
    <2> DEFINE p == [r EXCEPT !.job = None]
               b == AcceptBody(p, v, reason, yes, FALSE)
    <2>1. /\ p \in Readers
          /\ p.receipt = r.receipt /\ p.at = r.at /\ p.matched = r.matched
          /\ p.warned = r.warned /\ p.forced = r.forced /\ p.pending = r.pending
          /\ p.watermark = r.watermark /\ p.job = None
      BY <1>1 DEF Readers
    <2>2. q = RunRepair(b)
      BY <1>2 DEF Settled, Late
    <2> HIDE DEF p, b, q
    <2>3. Sound(p)
      BY <2>1 DEF Sound, Numbered, Seen, Shows, Claims, Placed, FreshRead
    <2>4. p.at <= v /\ Covers(v, p.watermark) /\ Seen(p, reason.seq)
      BY <2>1, <1>1, <1>2 DEF Sound, FreshRead, Seen
    <2>5. Sound(b) /\ b.job = None /\ (v = ver => Caught(b)) /\ (b.forced \/ p.at <= b.at)
      <3> HIDE DEF v, reason
      <3> QED BY <2>1, <2>3, <2>4, <1>1, AcceptBodyKeeps DEF b
    <2>6. Goes(q, b)
      BY <2>2, <2>5, RunRepairKeeps
    <2>7. Sound(q) /\ ~Reads(q) /\ (v = ver => Caught(q)) /\ (q.forced \/ r.at <= q.at)
      BY <2>1, <2>5, <2>6 DEF Goes, Reads
    <2> QED BY <2>7, <1>2 DEF q
  <1>3. CASE r.job.stale /\ ~Overrun(r)
    <2> DEFINE o == Or(r.pending, Latest(r, reason))
               p == [r EXCEPT !.job = None, !.discards = @ + 1, !.pending = o]
    <2>1. Latest(r, reason) \in Reasons /\ Seen(r, Latest(r, reason).seq)
      BY <1>1, LatestSeen
    <2>8. o \in Reasons /\ r.discards + 1 \in Nat /\ r.discards \in Nat
      BY <1>1, <2>1 DEF Readers, Or
    <2>9. Settled(r, yes) = RunRepair(p)
      BY <1>3 DEF Settled, Late, Discard
    <2> HIDE DEF o, q
    <2>2. /\ p \in Readers
          /\ p.receipt = r.receipt /\ p.at = r.at /\ p.matched = r.matched
          /\ p.warned = r.warned /\ p.forced = r.forced
          /\ p.pending = o
          /\ p.watermark = r.watermark /\ p.job = None
      BY <1>1, <2>8 DEF Readers
    <2>3. q = RunRepair(p)
      BY <2>9 DEF q
    <2> HIDE DEF p
    <2>4. p.pending # None /\ Seen(p, p.pending.seq)
      BY <2>1, <2>2, <1>1 DEF o, Or, Sound, Numbered, Seen
    <2>5. Sound(p)
      BY <2>2, <2>4 DEF Sound, Numbered, Seen, Shows, Claims, Placed, FreshRead
    <2>6. Goes(q, p) /\ Asks(q)
      BY <2>3, <2>4, <2>5, RunRepairKeeps DEF Asks
    <2>7. Sound(q) /\ ~Reads(q) /\ Caught(q) /\ q.at = r.at
      BY <2>2, <2>6 DEF Goes, Reads, Asks, Caught, Owed
    <2> QED BY <2>7, <1>1 DEF q
  <1>4. CASE r.job.stale /\ Overrun(r)
    <2> DEFINE p0 == [r EXCEPT !.job = None]
               p == [p0 EXCEPT !.discards = MaxDiscards + 1]
               b == AcceptBody(p, v, Latest(r, reason), yes, TRUE)
    <2>1. /\ p \in Readers
          /\ p.receipt = r.receipt /\ p.at = r.at /\ p.matched = r.matched
          /\ p.warned = r.warned /\ p.forced = r.forced /\ p.pending = r.pending
          /\ p.watermark = r.watermark /\ p.job = None
      <3>1. /\ p0 \in Readers
            /\ p0.receipt = r.receipt /\ p0.at = r.at /\ p0.matched = r.matched
            /\ p0.warned = r.warned /\ p0.forced = r.forced /\ p0.pending = r.pending
            /\ p0.watermark = r.watermark /\ p0.job = None
        BY <1>1 DEF Readers
      <3>2. MaxDiscards + 1 \in Nat
        BY DEF MaxDiscards
      <3> HIDE DEF p0
      <3> QED BY <3>1, <3>2 DEF Readers
    <2>2. q = RunRepair(b)
      BY <1>4 DEF Settled, Late
    <2>3. Latest(r, reason) \in Reasons /\ Seen(p, Latest(r, reason).seq)
      BY <1>1, <2>1, LatestSeen DEF Seen
    <2> HIDE DEF p, b, q
    <2>4. Sound(p)
      BY <2>1 DEF Sound, Numbered, Seen, Shows, Claims, Placed, FreshRead
    <2>5. Sound(b) /\ b.job = None /\ Caught(b) /\ (b.forced \/ p.at <= b.at)
      <3> HIDE DEF v, reason
      <3> QED BY <2>1, <2>3, <2>4, <1>1, AcceptBodyKeeps DEF b
    <2>6. Goes(q, b)
      BY <2>2, <2>5, RunRepairKeeps
    <2>7. Sound(q) /\ ~Reads(q) /\ Caught(q) /\ (q.forced \/ r.at <= q.at)
      BY <2>1, <2>5, <2>6 DEF Goes, Reads
    <2> QED BY <2>7 DEF q
  <1> QED BY <1>1, <1>2, <1>3, <1>4

-----------------------------------------------------------------------------
(* The messages on their way.                                              *)

\* The newest publication has the highest number.
LEMMA NewestIsLast ==
    ASSUME Host, log # <<>>
    PROVE  /\ Len(log) \in DOMAIN log /\ Newest \in Elems(log)
           /\ \A m \in Elems(log) : m = Newest \/ m.seq < Newest.seq
  <1>1. log \in Seq(Messages) /\ Len(log) \in Nat /\ DOMAIN log = 1 .. Len(log)
    BY DEF Host, LogOK
  <1>2. Len(log) \in DOMAIN log
    BY <1>1
  <1>3. ASSUME NEW i \in DOMAIN log
        PROVE  log[i] = Newest \/ log[i].seq < Newest.seq
    <2>1. CASE i = Len(log)
      BY <2>1 DEF Newest
    <2>2. CASE i < Len(log)
      BY <2>2, <1>2 DEF Newest, Host, LogOK
    <2> QED BY <1>1, <2>1, <2>2
  <1> QED BY <1>2, <1>3 DEF Elems, Newest

\* What is in a publication holds for every element of the lane.
LEMMA LogElem ==
    ASSUME Host, NEW m \in Elems(log)
    PROVE  /\ m \in Messages /\ m.k \in Data /\ m.seq \in Nat \ {0} /\ m.seq <= seq
           /\ m.v <= ver /\ log # <<>>
           /\ \E i \in DOMAIN log : m = log[i]
  <1>1. PICK i \in DOMAIN log : m = log[i]
    BY DEF Elems
  <1> QED BY <1>1, LogItem

\* A replay holds exactly what the lane published after its number, in order.
LEMMA AfterLists ==
    ASSUME Host, NEW n \in Nat
    PROVE  LET r == After(n)
           IN  /\ r \in Seq(Messages)
               /\ \A j \in DOMAIN r : r[j] \in Elems(log) /\ r[j].seq > n
               /\ \A j, k \in DOMAIN r : j < k => r[j].seq < r[k].seq
               /\ log # <<>> /\ Newest.seq > n => Newest \in Elems(r)
               /\ r # <<>> => Newest.seq > n
  <1> DEFINE I == {i \in DOMAIN log : log[i].seq > n}
             r == Pick(log, I)
  <1>1. log \in Seq(Messages) /\ Len(log) \in Nat /\ DOMAIN log = 1 .. Len(log)
        /\ \A i \in DOMAIN log : log[i].seq \in Nat
    BY LogItem DEF Host, LogOK
  <1>2. r \in Seq(Messages) /\ Lists(r, log, I, Len(log))
    <2> HIDE DEF I
    <2> QED BY <1>1, PickLists
  <1>3. {i \in I : i \in 1 .. Len(log)} = I
    BY <1>1
  <1>4. PICK h \in [1 .. Len(r) -> I] :
            /\ \A i \in I : \E j \in 1 .. Len(r) : h[j] = i
            /\ \A j, k \in 1 .. Len(r) : j < k => h[j] < h[k]
            /\ \A j \in 1 .. Len(r) : r[j] = log[h[j]]
    BY <1>2, <1>3 DEF Lists
  <1>5. After(n) = r
    BY DEF After
  <1> HIDE DEF r
  <1>6. DOMAIN r = 1 .. Len(r) /\ Len(r) \in Nat
    BY <1>2
  <1>7. \A j \in DOMAIN r : h[j] \in DOMAIN log /\ r[j] = log[h[j]] /\ r[j].seq > n
    BY <1>4, <1>6
  <1>8. \A j \in DOMAIN r : r[j] \in Elems(log) /\ r[j].seq > n
    BY <1>7 DEF Elems
  <1>9. ASSUME NEW j \in DOMAIN r, NEW k \in DOMAIN r, j < k
        PROVE  r[j].seq < r[k].seq
    <2>1. h[j] < h[k]
      BY <1>4, <1>6, <1>9
    <2> QED BY <1>7, <2>1 DEF Host, LogOK
  <1>10. ASSUME log # <<>>, Newest.seq > n
         PROVE  Newest \in Elems(r)
    <2>1. Len(log) \in I
      BY <1>10, NewestIsLast DEF Newest
    <2>2. PICK j \in 1 .. Len(r) : h[j] = Len(log)
      BY <2>1, <1>4
    <2> QED BY <2>2, <1>6, <1>7 DEF Elems, Newest
  <1>11. ASSUME r # <<>>
         PROVE  Newest.seq > n
    <2>1. 1 \in DOMAIN r
      BY <1>11, <1>2, <1>6
    <2>2. r[1] \in Elems(log) /\ r[1].seq > n
      BY <2>1, <1>8
    <2>3. r[1] = Newest \/ r[1].seq < Newest.seq
      BY <2>2, LogElem, NewestIsLast
    <2>4. Newest.seq \in Nat /\ r[1].seq \in Nat
      BY <2>2, LogElem, NewestIsLast
    <2> QED BY <2>2, <2>3, <2>4
  <1> QED BY <1>2, <1>5, <1>8, <1>9, <1>10, <1>11

\* What taking its first message leaves of the wire.
LEMMA TailOf ==
    ASSUME NEW S, NEW w \in Seq(S), w # <<>>
    PROVE  /\ Tail(w) \in Seq(S) /\ 1 \in DOMAIN w /\ Head(w) = w[1] /\ Head(w) \in S
           /\ \A i \in DOMAIN Tail(w) : i + 1 \in DOMAIN w /\ 1 < i + 1 /\ Tail(w)[i] = w[i + 1]
                                        /\ i \in Nat
           /\ \A i \in DOMAIN w : 1 < i => i - 1 \in DOMAIN Tail(w) /\ Tail(w)[i - 1] = w[i]
           /\ \A m \in Elems(w) : m = Head(w) \/ m \in Elems(Tail(w))
  <1>1. /\ Tail(w) \in Seq(S) /\ 1 \in DOMAIN w /\ Head(w) = w[1] /\ Head(w) \in S
        /\ \A i \in DOMAIN Tail(w) : i + 1 \in DOMAIN w /\ 1 < i + 1 /\ Tail(w)[i] = w[i + 1]
                                     /\ i \in Nat
        /\ \A i \in DOMAIN w : i = 1 \/ 1 < i
        /\ \A i \in DOMAIN w : 1 < i => i - 1 \in DOMAIN Tail(w) /\ Tail(w)[i - 1] = w[i]
    OBVIOUS
  <1> QED BY <1>1 DEF Elems

\* v is w with m at its end.
Appended(v, w, m) ==
    /\ v \in Seq(Messages) /\ Len(w) \in Nat /\ Len(v) = Len(w) + 1
    /\ DOMAIN w = 1 .. Len(w) /\ DOMAIN v = DOMAIN w \cup {Len(w) + 1} /\ v # <<>>
    /\ \A i \in DOMAIN w : v[i] = w[i]
    /\ v[Len(w) + 1] = m
    /\ Elems(v) = Elems(w) \cup {m}

\* That is what Append returns.
LEMMA AppendOf ==
    ASSUME NEW w \in Seq(Messages), NEW m \in Messages
    PROVE  Appended(Append(w, m), w, m)
  <1> DEFINE v == Append(w, m)
  <1>1. v \in Seq(Messages) /\ Len(w) \in Nat /\ Len(v) = Len(w) + 1
    OBVIOUS
  <1>2. DOMAIN w = 1 .. Len(w) /\ DOMAIN v = 1 .. Len(w) + 1
    BY <1>1
  <1>3. DOMAIN v = DOMAIN w \cup {Len(w) + 1} /\ v # <<>>
    BY <1>1, <1>2
  <1>4. (\A i \in DOMAIN w : v[i] = w[i]) /\ v[Len(w) + 1] = m
    BY <1>1, <1>2
  <1> HIDE DEF v
  <1>5. Appended(v, w, m)
    BY <1>1, <1>2, <1>3, <1>4 DEF Appended, Elems
  <1> QED BY <1>5 DEF v

\* What is in a message that was sent.
LEMMA SentKind ==
    ASSUME Host, NEW m, Sent(m)
    PROVE  /\ m.k \in Data => m \in Elems(log)
           /\ m.k = "open" => m = OpenMsg
           /\ m.k = "cursor" => /\ m.seq \in 1 .. seq
                                /\ asked /\ ~m.resync => m.seq = since
                                /\ ~asked => ~m.resync
           /\ m.k \in Data \cup {"open", "cursor"}
  <1>1. OpenMsg.k = "open"
    BY DEF OpenMsg
  <1>2. m \in Elems(log) => m.k \in Data
    BY LogElem
  <1> QED BY <1>1, <1>2 DEF Sent, Data

\* Taking an open: a cursor and all that was published stay due.
LEMMA OpenTaken ==
    ASSUME Host, WireOK, wire # <<>>, Head(wire).k = "open", wire' = Tail(wire),
           UNCHANGED <<log, seq, conn, since, asked>>
    PROVE  WireOK' /\ (Coming => Coming')
  <1>1. wire \in Seq(Messages)
    BY DEF WireOK
  <1> DEFINE w == Tail(wire)
  <1>2. /\ w \in Seq(Messages) /\ 1 \in DOMAIN wire /\ Head(wire) = wire[1]
        /\ \A i \in DOMAIN w : i + 1 \in DOMAIN wire /\ 1 < i + 1 /\ w[i] = wire[i + 1] /\ i \in Nat
        /\ \A i \in DOMAIN wire : 1 < i => i - 1 \in DOMAIN w /\ w[i - 1] = wire[i]
        /\ \A m \in Elems(wire) : m = wire[1] \/ m \in Elems(w)
        /\ DOMAIN wire \subseteq Nat \ {0}
    BY <1>1, TailOf
  <1>3. wire' = w /\ wire[1].k = "open"
    BY <1>2
  <1> HIDE DEF w
  <1>4. conn
    BY DEF WireOK
  <1>13. /\ \A i \in DOMAIN wire : Sent(wire[i])
         /\ \A i, j \in DOMAIN wire : i < j => Before(wire[i], wire[j])
    BY DEF WireOK
  <1>12. \A i \in DOMAIN w : i + 1 \in DOMAIN wire /\ w[i] = wire[i + 1] /\ i \in Nat
    BY <1>2
  <1>5. \A i \in DOMAIN w : Sent(w[i])
    BY <1>12, <1>13
  <1>6. ASSUME NEW i \in DOMAIN w, NEW j \in DOMAIN w, i < j
        PROVE  Before(w[i], w[j])
    <2>1. i + 1 < j + 1
      BY <1>6, <1>12
    <2> QED BY <2>1, <1>12, <1>13
  <1>7. (CursorDue => CursorDue') /\ (ResyncDue => ResyncDue')
    <2>1. ASSUME NEW i \in DOMAIN wire, wire[i].k = "cursor"
          PROVE  i - 1 \in DOMAIN w /\ w[i - 1] = wire[i]
      <3>1. i # 1
        BY <2>1, <1>3
      <3> QED BY <3>1, <1>2
    <2> QED BY <2>1, <1>3 DEF CursorDue, ResyncDue
  <1>8. Newest \in Elems(log) => Newest.k # "open"
    BY LogElem DEF Data
  <1>9. \A i \in DOMAIN w : w[i].k \in Data =>
           Newest \in Elems(w) /\ (CursorDue \/ w[i].seq > since)
    <2> TAKE i \in DOMAIN w
    <2> HAVE w[i].k \in Data
    <2>1. Newest \in Elems(wire) /\ (CursorDue \/ w[i].seq > since) /\ Sent(w[i])
      BY <1>2, <1>5 DEF WireOK
    <2>2. Newest \in Elems(log)
      BY <2>1, SentKind, LogElem, NewestIsLast
    <2> QED BY <2>1, <2>2, <1>2, <1>3, <1>8
  <1>10. WireOK'
    BY <1>2, <1>3, <1>4, <1>5, <1>6, <1>7, <1>9 DEF WireOK, Sent, Newest
  <1>11. ASSUME Coming PROVE Coming'
    <2>1. Newest \in Elems(wire) => Newest \in Elems(w)
      BY <1>2, <1>3, <1>8, <1>11, NewestIsLast DEF Coming
    <2> QED BY <2>1, <1>3, <1>7, <1>11 DEF Coming, Newest
  <1> QED BY <1>10, <1>11

\* Behind a cursor come only publications after its number.
LEMMA CursorTaken ==
    ASSUME Host, WireOK, wire # <<>>, Head(wire).k = "cursor", wire' = Tail(wire),
           since' = Head(wire).seq, asked' = TRUE, UNCHANGED <<log, seq, conn>>
    PROVE  /\ WireOK'
           /\ Head(wire) \in Messages /\ Head(wire).seq \in 1 .. seq
           /\ Coming /\ asked => Head(wire).resync \/ Coming'
  <1>1. wire \in Seq(Messages)
    BY DEF WireOK
  <1> DEFINE w == Tail(wire)
             c == Head(wire)
  <1>2. /\ w \in Seq(Messages) /\ 1 \in DOMAIN wire /\ c = wire[1] /\ c \in Messages
        /\ \A i \in DOMAIN w : i + 1 \in DOMAIN wire /\ 1 < i + 1 /\ w[i] = wire[i + 1] /\ i \in Nat
        /\ \A i \in DOMAIN wire : i # 1 => 1 < i
        /\ \A m \in Elems(wire) : m = wire[1] \/ m \in Elems(w)
    BY <1>1, TailOf
  <1>3. wire' = w /\ c.k = "cursor" /\ since' = c.seq
    OBVIOUS
  <1> HIDE DEF w, c
  <1>4. conn
    BY DEF WireOK
  <1>5. c.seq \in 1 .. seq /\ (asked /\ ~c.resync => c.seq = since) /\ (~asked => ~c.resync)
    BY <1>2, <1>3, SentKind DEF WireOK
  <1>6. \A i \in DOMAIN w : Before(c, w[i]) /\ Sent(w[i])
    BY <1>2 DEF WireOK
  <1>7. \A i \in DOMAIN w : w[i].k \in Data /\ w[i] \in Elems(log) /\ w[i].seq > c.seq
    <2>1. c.k # "open" /\ c.k \notin Data
      BY <1>3 DEF Data
    <2> QED BY <2>1, <1>3, <1>6, SentKind DEF Before
  <1>8. ASSUME NEW i \in DOMAIN w, NEW j \in DOMAIN w, i < j
        PROVE  Before(w[i], w[j])
    <2>1. i + 1 < j + 1 /\ i + 1 \in DOMAIN wire /\ j + 1 \in DOMAIN wire
          /\ w[i] = wire[i + 1] /\ w[j] = wire[j + 1]
      BY <1>2, <1>8
    <2> QED BY <2>1 DEF WireOK
  <1>9. Newest \in Elems(log) => Newest.k # "cursor"
    BY LogElem DEF Data
  <1>10. \A i \in DOMAIN w : Newest \in Elems(w)
    <2> TAKE i \in DOMAIN w
    <2>1. Newest \in Elems(wire)
      BY <1>2, <1>7 DEF WireOK
    <2>2. Newest \in Elems(log)
      BY <1>7, LogElem, NewestIsLast
    <2> QED BY <2>1, <2>2, <1>2, <1>3, <1>9
  <1>11. since' \in 0 .. seq /\ since' > 0 /\ seq \in Nat
    BY <1>3, <1>5 DEF Host, LogOK
  <1>12. WireOK'
    BY <1>2, <1>3, <1>4, <1>7, <1>8, <1>10, <1>11 DEF WireOK, Sent, Newest
  <1>13. ASSUME Coming, asked, ~c.resync PROVE Coming'
    <2>1. ~ResyncDue
      <3>1. ASSUME NEW i \in DOMAIN wire, wire[i].k = "cursor", wire[i].resync
            PROVE  FALSE
        <4>1. i # 1
          BY <3>1, <1>2, <1>13
        <4>2. Before(wire[1], wire[i])
          BY <4>1, <1>2 DEF WireOK
        <4> QED BY <4>2, <3>1, <1>2, <1>3 DEF Before
      <3> QED BY <3>1 DEF ResyncDue
    <2>2. Newest \in Elems(w)
      BY <2>1, <1>2, <1>3, <1>4, <1>9, <1>13, NewestIsLast DEF Coming
    <2> QED BY <2>2, <1>3, <1>5, <1>13 DEF Coming, Newest
  <1> QED BY <1>2, <1>5, <1>12, <1>13 DEF c

\* A publication is taken only after a cursor, and the newest one after the others.
LEMMA DataTaken ==
    ASSUME Host, WireOK, wire # <<>>, Head(wire).k \in Data, wire' = Tail(wire),
           since' = Head(wire).seq, UNCHANGED <<log, seq, conn, asked>>
    PROVE  /\ WireOK' /\ asked
           /\ Head(wire) \in Elems(log)
           /\ Head(wire) = Newest \/ Coming'
  <1>1. wire \in Seq(Messages)
    BY DEF WireOK
  <1> DEFINE w == Tail(wire)
             f == Head(wire)
  <1>2. /\ w \in Seq(Messages) /\ 1 \in DOMAIN wire /\ f = wire[1] /\ f \in Messages
        /\ \A i \in DOMAIN w : i + 1 \in DOMAIN wire /\ 1 < i + 1 /\ w[i] = wire[i + 1] /\ i \in Nat
        /\ \A i \in DOMAIN wire : i # 1 => 1 < i
        /\ \A m \in Elems(wire) : m = wire[1] \/ m \in Elems(w)
    BY <1>1, TailOf
  <1>3. wire' = w /\ f.k \in Data /\ since' = f.seq
    OBVIOUS
  <1> HIDE DEF w, f
  <1>4. conn
    BY DEF WireOK
  <1>5. f \in Elems(log)
    BY <1>2, <1>3, SentKind DEF WireOK
  <1>6. \A i \in DOMAIN w : Before(f, w[i]) /\ Sent(w[i])
    BY <1>2 DEF WireOK
  <1>7. \A i \in DOMAIN w : w[i].k \in Data /\ w[i] \in Elems(log) /\ w[i].seq > f.seq
    <2>1. f.k # "open"
      BY <1>3 DEF Data
    <2>2. f.seq \in Nat /\ \A i \in DOMAIN w : w[i].k \in Data
      BY <2>1, <1>5, <1>6, SentKind, LogElem DEF Before
    <2>3. \A i \in DOMAIN w : w[i].seq > f.seq
      BY <2>2, <1>6 DEF Before
    <2> QED BY <2>2, <2>3, <1>6, SentKind
  <1>8. ASSUME NEW i \in DOMAIN w, NEW j \in DOMAIN w, i < j
        PROVE  Before(w[i], w[j])
    <2>1. i + 1 < j + 1 /\ i + 1 \in DOMAIN wire /\ j + 1 \in DOMAIN wire
          /\ w[i] = wire[i + 1] /\ w[j] = wire[j + 1]
      BY <1>2, <1>8
    <2> QED BY <2>1 DEF WireOK
  <1>9. ~CursorDue
    <2>1. ASSUME NEW i \in DOMAIN wire, wire[i].k = "cursor"
          PROVE  FALSE
      <3>1. i # 1
        BY <2>1, <1>2, <1>3 DEF Data
      <3>2. Before(wire[1], wire[i])
        BY <3>1, <1>2 DEF WireOK
      <3> QED BY <3>2, <2>1, <1>2, <1>3 DEF Before, Data
    <2> QED BY <2>1 DEF CursorDue
  <1>10. asked
    BY <1>4, <1>9 DEF WireOK
  <1>11. Newest \in Elems(wire) /\ Newest \in Elems(log)
    BY <1>2, <1>3, <1>5, LogElem, NewestIsLast DEF WireOK
  <1>12. f = Newest \/ (f.seq < Newest.seq /\ Newest \in Elems(w))
    BY <1>2, <1>5, <1>11, LogElem, NewestIsLast
  <1>13. \A i \in DOMAIN w : Newest \in Elems(w)
    <2> TAKE i \in DOMAIN w
    <2>1. w[i] \in Elems(log) /\ w[i].seq > f.seq /\ w[i].seq \in Nat /\ f.seq \in Nat
      BY <1>5, <1>7, LogElem
    <2>2. f # Newest
      BY <2>1, LogElem, NewestIsLast
    <2> QED BY <2>2, <1>12
  <1>14. since' \in 0 .. seq /\ since' > 0 /\ seq \in Nat
    BY <1>3, <1>5, LogElem DEF Host, LogOK
  <1>15. WireOK'
    BY <1>2, <1>3, <1>4, <1>7, <1>8, <1>10, <1>13, <1>14 DEF WireOK, Sent, Newest
  <1>16. f = Newest \/ Coming'
    BY <1>3, <1>5, <1>12, LogElem DEF Coming, Newest
  <1> QED BY <1>5, <1>10, <1>15, <1>16 DEF f

-----------------------------------------------------------------------------
(* The invariant, action by action.                                        *)

\* All that a handler of the reader leaves to its caller.
LEMMA SameHost ==
    ASSUME NEW q, UNCHANGED hostVars, rd' = q
    PROVE  /\ Sound(q) => Sound(rd)'
           /\ Caught(q) => Caught(rd)'
           /\ ~Reads(q) => ~Reads(rd)'
           /\ LogOK => LogOK'
  <1>1. UNCHANGED <<text, stamped, ver, told, seq, log>>
    BY DEF hostVars
  <1>2. Sound(q) => Sound(rd)'
    BY <1>1 DEF Sound, Shows, Numbered, Seen, Claims, Covers, Placed, FreshRead
  <1>3. Caught(q) => Caught(rd)'
    BY <1>1 DEF Caught, Owed
  <1>4. ~Reads(q) => ~Reads(rd)'
    BY DEF Reads
  <1>5. LogOK => LogOK'
    BY <1>1 DEF LogOK
  <1> QED BY <1>2, <1>3, <1>4, <1>5

\* The link's part of the invariant reads none of the reader's.
LEMMA SameLink ==
    ASSUME UNCHANGED <<log, seq, conn, wire, since, asked>>
    PROVE  (WireOK => WireOK') /\ (Coming => Coming')
  <1>1. WireOK => WireOK'
    BY DEF WireOK, Sent, CursorDue, Newest
  <1>2. Coming => Coming'
    BY DEF Coming, Newest, ResyncDue
  <1> QED BY <1>1, <1>2

\* The inductive invariant, next to the types.
Whole == LogOK /\ Sound(rd) /\ WireOK /\ Following

\* The host's part of the invariant.
LEMMA HostHolds ==
    ASSUME TypeOK, LogOK
    PROVE  Host
  <1>1. text \in [0 .. MaxVer -> Bodies] /\ stamped \subseteq {"frame", "body"}
    BY ReaderAssumption DEF TypeOK
  <1> QED BY <1>1, ReaderAssumption DEF Host

\* The invariant holds at the start.
LEMMA InitWhole ==
    ASSUME Init
    PROVE  TypeOK /\ Whole
  <1>1. FreshReader \in Readers
    <2>1. NoReceipt \in Receipts
      BY DEF NoReceipt, Receipts
    <2>2. 0 \in 0 .. MaxVer
      BY ReaderAssumption
    <2> QED BY <2>1, <2>2 DEF FreshReader, Readers
  <1>2. TypeOK
    <2>1. rd.receipt = NoReceipt /\ rd \in Readers
      BY <1>1 DEF Init, FreshReader
    <2>2. NoReceipt.seq = None
      BY DEF NoReceipt
    <2>3. ver \in 0 .. MaxVer
      BY ReaderAssumption DEF Init
    <2>4. <<>> \in Seq(Messages) /\ 0 \in Nat /\ 1 \in Nat
      OBVIOUS
    <2>5. /\ rd.receipt.bytes = None => rd.receipt = NoReceipt
          /\ rd.receipt.seq # None => rd.receipt.seq <= rd.watermark
      BY <2>1, <2>2
    <2> HIDE DEF NoReceipt
    <2> QED BY <2>1, <2>3, <2>4, <2>5 DEF Init, TypeOK
  <1>3. LogOK
    BY ReaderAssumption DEF Init, LogOK
  <1>4. Sound(FreshReader)
    BY <1>1, <1>3, ReaderAssumption
       DEF Init, Sound, Shows, Numbered, Seen, Claims, Placed, FreshRead, FreshReader,
           NoReceipt, LogOK
  <1>5. WireOK
    BY DEF Init, WireOK
  <1>6. Following
    BY DEF Init, Following, FreshReader, Reads
  <1> QED BY <1>2, <1>3, <1>4, <1>5, <1>6 DEF Whole, Init

\* A write leaves the host with something to tell.
LEMMA WriteWhole ==
    ASSUME TypeOK, Whole, Write
    PROVE  Whole'
  <1>1. /\ ver' = ver + 1 /\ ver < MaxVer /\ ver \in 0 .. MaxVer /\ told' = FALSE
        /\ UNCHANGED <<text, stamped, seq, log, conn, wire, since, asked, rd>>
        /\ MaxVer \in Nat
    BY ReaderAssumption DEF Write, linkVars, TypeOK
  <1>2. LogOK'
    <2>1. \A i \in DOMAIN log : log[i].v \in Nat
      BY HostHolds, LogItem DEF Whole
    <2> QED BY <1>1, <2>1 DEF Whole, LogOK
  <1>3. Sound(rd)'
    <2>1. rd \in Readers /\ rd.at \in Nat
          /\ (rd.job # None => rd.job.read \in Nat \cup {None})
      BY DEF Whole, Sound, Readers, Jobs
    <2>2. Numbered(rd)'
      BY <1>1, <2>1 DEF Whole, Sound, Numbered, Seen
    <2>3. FreshRead(rd)'
      BY <1>1, <2>1 DEF Whole, Sound, FreshRead, Covers
    <2>4. Shows(rd)' /\ Claims(rd)' /\ Placed(rd)'
      BY <1>1 DEF Whole, Sound, Shows, Claims, Covers, Placed
    <2> QED BY <1>1, <2>1, <2>2, <2>3, <2>4 DEF Sound
  <1>4. WireOK'
    BY <1>1, SameLink DEF Whole
  <1>5. Following'
    BY <1>1 DEF Whole, Following
  <1> QED BY <1>2, <1>3, <1>4, <1>5 DEF Whole

\* What the lane publishes is the newest, and on its way to a connected reader.
LEMMA AnnounceWhole ==
    ASSUME TypeOK, Whole, Announce
    PROVE  Whole'
  <1>1. PICK k \in Data :
          /\ log' = Append(log, Msg(k, seq + 1, ver))
          /\ wire' = IF conn THEN Append(wire, Msg(k, seq + 1, ver)) ELSE wire
    BY DEF Announce, Data
  <1> DEFINE m == Msg(k, seq + 1, ver)
  <1>2. /\ seq' = seq + 1 /\ told' = TRUE
        /\ UNCHANGED <<text, stamped, ver, conn, since, asked, rd, stopped>>
        /\ ver \in 0 .. MaxVer /\ seq \in Nat \ {0}
        /\ conn \in BOOLEAN /\ since \in 0 .. seq
        /\ log \in Seq(Messages) /\ wire \in Seq(Messages) /\ Len(log) \in Nat
        /\ Len(wire) \in Nat
    BY DEF Announce, TypeOK, Whole, LogOK, WireOK
  <1>3. /\ m \in Messages /\ m.k = k /\ m.seq = seq + 1 /\ m.v = ver
    BY <1>2 DEF Msg, Messages, Data
  <1>4. log' = Append(log, m) /\ wire' = IF conn THEN Append(wire, m) ELSE wire
    BY <1>1
  <1> HIDE DEF m
  <1>12. Appended(log', log, m) /\ (conn => Appended(wire', wire, m))
    BY <1>2, <1>3, <1>4, AppendOf
  <1>5. /\ log' \in Seq(Messages) /\ Len(log') = Len(log) + 1
        /\ DOMAIN log' = DOMAIN log \cup {Len(log) + 1}
        /\ DOMAIN log = 1 .. Len(log) /\ log' # <<>>
        /\ \A i \in DOMAIN log : log'[i] = log[i]
        /\ log'[Len(log) + 1] = m
    BY <1>12 DEF Appended
  <1>6. \A i \in DOMAIN log :
          /\ log[i] \in Messages /\ log[i].k \in Data /\ log[i].seq \in 2 .. seq
          /\ log[i].v \in Nat /\ log[i].v <= ver
    BY HostHolds, LogItem DEF Whole, LogOK
  <1>7. LogOK'
    <2>1. \A i \in DOMAIN log' :
            log'[i].k \in Data /\ log'[i].seq \in 2 .. seq' /\ log'[i].v <= ver'
      BY <1>2, <1>3, <1>5, <1>6
    <2>2. ASSUME NEW i \in DOMAIN log', NEW j \in DOMAIN log', i < j
          PROVE  log'[i].seq < log'[j].seq /\ log'[i].v <= log'[j].v
      <3>1. i \in DOMAIN log
        BY <1>2, <1>5, <2>2
      <3>2. CASE j \in DOMAIN log
        BY <3>1, <3>2, <2>2, <1>5 DEF Whole, LogOK
      <3>3. CASE j = Len(log) + 1
        BY <3>1, <3>3, <1>2, <1>3, <1>5, <1>6
      <3> QED BY <3>2, <3>3, <1>5
    <2>3. log'[Len(log')].v = ver'
      BY <1>2, <1>3, <1>5
    <2> QED BY <1>2, <1>5, <2>1, <2>2, <2>3 DEF LogOK
  <1>8. \A v, n : Covers(v, n) /\ n \in Nat /\ n <= seq => Covers(v, n)'
    BY <1>2, <1>3, <1>5 DEF Covers
  <1>9. Sound(rd)'
    <2>1. rd \in Readers /\ rd.watermark \in Nat /\ rd.watermark <= seq
          /\ rd.receipt.seq \in Nat \cup {None} /\ Seen(rd, rd.receipt.seq)
      BY DEF Whole, Sound, Readers, Receipts, Numbered
    <2>2. Numbered(rd)'
      BY <1>2, <2>1 DEF Whole, Sound, Numbered, Seen
    <2>3. Shows(rd)'
      BY <1>2 DEF Whole, Sound, Shows
    <2>4. Claims(rd)'
      <3>1. ASSUME ~rd.forced, rd.receipt.seq # None
            PROVE  Covers(rd.at, rd.receipt.seq)'
        <4>1. Covers(rd.at, rd.receipt.seq) /\ rd.receipt.seq \in Nat /\ rd.receipt.seq <= seq
          BY <3>1, <2>1, <1>2 DEF Whole, Sound, Claims, Seen
        <4> QED BY <4>1, <1>2, <1>8 DEF Covers
      <3> QED BY <3>1, <1>2 DEF Claims
    <2>5. Placed(rd)'
      BY <1>2, <1>5 DEF Whole, Sound, Placed
    <2>6. FreshRead(rd)'
      <3>1. ASSUME rd.job # None, rd.job.read # None, ~rd.job.stale
            PROVE  Covers(rd.job.read, rd.watermark)'
        <4>1. Covers(rd.job.read, rd.watermark)
          BY <3>1 DEF Whole, Sound, FreshRead
        <4> QED BY <4>1, <2>1, <1>2, <1>8 DEF Covers
      <3> QED BY <3>1, <1>2 DEF Whole, Sound, FreshRead
    <2> QED BY <1>2, <2>1, <2>2, <2>3, <2>4, <2>5, <2>6 DEF Sound
  <1>10. WireOK' /\ (asked => Coming')
    <2>1. Newest' = m
      BY <1>2, <1>5 DEF Newest
    <2>2. CASE ~conn
      <3>1. wire = <<>> /\ wire' = <<>>
        BY <2>2, <1>4 DEF Whole, WireOK
      <3>2. WireOK'
        BY <3>1, <2>2, <1>2 DEF Whole, WireOK
      <3> QED BY <3>2, <2>1, <2>2, <1>2, <1>3, <1>5 DEF Coming
    <2>3. CASE conn
      <3>1. /\ wire' \in Seq(Messages)
            /\ DOMAIN wire' = DOMAIN wire \cup {Len(wire) + 1}
            /\ DOMAIN wire = 1 .. Len(wire)
            /\ \A i \in DOMAIN wire : wire'[i] = wire[i]
            /\ wire'[Len(wire) + 1] = m
            /\ Elems(wire') = Elems(wire) \cup {m}
        BY <2>3, <1>12 DEF Appended
      <3>2. Elems(log') = Elems(log) \cup {m}
        BY <1>12 DEF Appended
      <3>9. ASSUME NEW x, Sent(x) \/ x = m
            PROVE  Sent(x)'
        BY <3>2, <3>9, <1>2 DEF Sent
      <3>3. (\A i \in DOMAIN wire : Sent(wire[i]))'
        <4>1. ASSUME NEW i \in DOMAIN wire'
              PROVE  Sent(wire'[i]) \/ wire'[i] = m
          BY <4>1, <3>1 DEF Whole, WireOK
        <4> QED BY <4>1, <3>9 DEF Sent
      <3>4. \A i \in DOMAIN wire : wire[i].k \in Data => wire[i].seq <= seq
        BY HostHolds, SentKind, LogElem DEF Whole, WireOK
      <3>5. ASSUME NEW i \in DOMAIN wire', NEW j \in DOMAIN wire', i < j
            PROVE  Before(wire'[i], wire'[j])
        <4>1. i \in DOMAIN wire
          BY <1>2, <3>1, <3>5
        <4>2. CASE j \in DOMAIN wire
          BY <4>1, <4>2, <3>1, <3>5 DEF Whole, WireOK
        <4>3. CASE j = Len(wire) + 1
          <5>1. Sent(wire[i])
            BY <4>1 DEF Whole, WireOK
          <5>2. wire[i].seq \in Nat /\ wire[i].seq <= seq
            <6>1. CASE wire[i] = OpenMsg
              BY <6>1, <1>2 DEF OpenMsg
            <6>2. CASE wire[i].k = "cursor"
              BY <6>2, <5>1, <1>2, HostHolds, SentKind DEF Whole
            <6>3. CASE wire[i] \in Elems(log)
              BY <6>3, HostHolds, LogElem DEF Whole
            <6> QED BY <6>1, <6>2, <6>3, <5>1 DEF Sent
          <5> QED BY <5>2, <4>1, <4>3, <3>1, <1>2, <1>3 DEF Before, Data
        <4> QED BY <4>2, <4>3, <3>1
      <3>6. CursorDue => CursorDue'
        BY <3>1 DEF CursorDue
      <3>10. \A i \in DOMAIN wire : wire[i].k \in Data => CursorDue \/ wire[i].seq > since
        BY DEF Whole, WireOK
      <3>7. \A i \in DOMAIN wire' : wire'[i].k \in Data =>
               Newest' \in Elems(wire') /\ (CursorDue' \/ wire'[i].seq > since')
        BY <3>1, <3>10, <3>6, <2>1, <1>2, <1>3
      <3>11. since' \in 0 .. seq' /\ (asked' <=> since' > 0) /\ (conn' /\ ~asked' => CursorDue')
        BY <3>6, <1>2 DEF Whole, WireOK
      <3>8. WireOK'
        BY <3>1, <3>3, <3>5, <3>7, <3>11, <2>3, <1>2 DEF WireOK
      <3>12. Newest' \in Elems(wire') /\ Newest'.seq > since'
        BY <3>1, <2>1, <1>2, <1>3
      <3>13. Coming'
        BY <3>12, <1>5 DEF Coming
      <3> QED BY <3>8, <3>13
    <2> QED BY <2>2, <2>3
  <1>11. Following'
    BY <1>2, <1>10 DEF Whole, Following
  <1> QED BY <1>7, <1>9, <1>10, <1>11 DEF Whole

\* Another lane's number is nobody's.
LEMMA OtherLaneWhole ==
    ASSUME TypeOK, Whole, OtherLane
    PROVE  Whole'
  <1>1. /\ seq' = seq + 1 /\ seq \in Nat \ {0} /\ told
        /\ UNCHANGED <<text, stamped, ver, told, log, conn, wire, since, asked, rd, stopped>>
        /\ since \in 0 .. seq
    BY DEF OtherLane, linkVars, Whole, LogOK, WireOK
  <1>2. LogOK'
    BY <1>1 DEF Whole, LogOK
  <1>3. Sound(rd)'
    <2>1. rd.watermark \in Nat /\ rd \in Readers
      BY DEF Whole, Sound, Readers
    <2> QED BY <1>1, <2>1
            DEF Whole, Sound, Shows, Numbered, Seen, Claims, Covers, Placed, FreshRead
  <1>4. \A m : Sent(m) => Sent(m)'
    BY <1>1 DEF Sent
  <1>5. WireOK'
    BY <1>1, <1>4 DEF Whole, WireOK, CursorDue, Newest
  <1>6. Following'
    BY <1>1 DEF Whole, Following, Coming, Caught, Owed, Reads, Newest, ResyncDue
  <1> QED BY <1>2, <1>3, <1>5, <1>6 DEF Whole

\* What a connection begins with: an open, a cursor, and a replay.
Joined(w, c, r) ==
    /\ w \in Seq(Messages) /\ 1 \in DOMAIN w /\ 2 \in DOMAIN w
    /\ w[1] = OpenMsg /\ w[2] = c
    /\ \A i \in DOMAIN w : i = 1 \/ i = 2 \/ (i \in Nat /\ 2 < i /\ i - 2 \in DOMAIN r
                                              /\ w[i] = r[i - 2])
    /\ Elems(r) \subseteq Elems(w)

\* Concatenation, element by element.
LEMMA ConcatOf ==
    ASSUME NEW s \in Seq(Messages), NEW r \in Seq(Messages)
    PROVE  /\ s \o r \in Seq(Messages) /\ Len(s \o r) = Len(s) + Len(r)
           /\ DOMAIN (s \o r) = 1 .. Len(s) + Len(r)
           /\ \A i \in 1 .. Len(s) + Len(r) :
                 (s \o r)[i] = IF i <= Len(s) THEN s[i] ELSE r[i - Len(s)]
  OBVIOUS

\* A cursor and a replay behind an open are joined in that order.
LEMMA JoinOf ==
    ASSUME NEW c \in Messages, NEW r \in Seq(Messages)
    PROVE  Joined(<<OpenMsg, c>> \o r, c, r)
  <1> DEFINE w == <<OpenMsg, c>> \o r
             s == <<OpenMsg, c>>
  <1>1. OpenMsg \in Messages
    <2>1. 0 \in 0 .. MaxVer
      BY ReaderAssumption
    <2> QED BY <2>1 DEF OpenMsg, Messages
  <1>2. s \in Seq(Messages) /\ Len(s) = 2 /\ s[1] = OpenMsg /\ s[2] = c
    BY <1>1
  <1>3. Len(r) \in Nat /\ DOMAIN r = 1 .. Len(r)
    OBVIOUS
  <1> HIDE DEF s
  <1>4. /\ s \o r \in Seq(Messages) /\ Len(s \o r) = Len(r) + 2
        /\ DOMAIN (s \o r) = 1 .. Len(r) + 2
        /\ \A i \in 1 .. Len(r) + 2 : (s \o r)[i] = IF i <= 2 THEN s[i] ELSE r[i - 2]
    <2>1. 2 + Len(r) = Len(r) + 2
      BY <1>3
    <2>2. /\ s \o r \in Seq(Messages) /\ Len(s \o r) = Len(s) + Len(r)
          /\ DOMAIN (s \o r) = 1 .. Len(s) + Len(r)
          /\ \A i \in 1 .. Len(s) + Len(r) :
                (s \o r)[i] = IF i <= Len(s) THEN s[i] ELSE r[i - Len(s)]
      BY <1>2, ConcatOf
    <2> QED BY <2>1, <2>2, <1>2
  <1>5. w = s \o r
    BY DEF s
  <1> HIDE DEF w
  <1>6. /\ w \in Seq(Messages) /\ DOMAIN w = 1 .. Len(r) + 2
        /\ w[1] = OpenMsg /\ w[2] = c
        /\ \A i \in 1 .. Len(r) + 2 : i > 2 => w[i] = r[i - 2]
    BY <1>2, <1>3, <1>4, <1>5
  <1>7. \A j \in DOMAIN r : j + 2 \in DOMAIN w /\ w[j + 2] = r[j]
    BY <1>3, <1>6
  <1>8. Elems(r) \subseteq Elems(w)
    BY <1>7 DEF Elems
  <1>9. \A i \in DOMAIN w : i = 1 \/ i = 2 \/ (i \in Nat /\ 2 < i /\ i - 2 \in DOMAIN r
                                               /\ w[i] = r[i - 2])
    BY <1>3, <1>6
  <1>10. Joined(w, c, r)
    BY <1>3, <1>6, <1>8, <1>9 DEF Joined
  <1> QED BY <1>10 DEF w

\* A connection begins with nothing that the link forbids.
LEMMA ConnectLink ==
    ASSUME Whole, Host, NEW n \in Nat, NEW r \in Seq(Messages), NEW c \in Messages,
           \A j \in DOMAIN r : r[j] \in Elems(log) /\ r[j].seq > n,
           \A j, k \in DOMAIN r : j < k => r[j].seq < r[k].seq,
           r # <<>> => Newest \in Elems(r),
           c.k = "cursor", c.seq \in 1 .. seq, c.seq <= n,
           asked /\ ~c.resync => c.seq = since, ~asked => ~c.resync,
           Joined(wire', c, r), conn' = TRUE,
           UNCHANGED <<log, seq, since, asked>>
    PROVE  /\ WireOK'
           /\ Newest \in Elems(r) => Newest' \in Elems(wire')
           /\ c.resync => ResyncDue'
  <1> DEFINE w == wire'
  <1>1. /\ w \in Seq(Messages) /\ 1 \in DOMAIN w /\ 2 \in DOMAIN w
        /\ w[1] = OpenMsg /\ w[2] = c
        /\ \A i \in DOMAIN w : i = 1 \/ i = 2 \/ (i \in Nat /\ 2 < i /\ i - 2 \in DOMAIN r
                                                  /\ w[i] = r[i - 2])
        /\ Elems(r) \subseteq Elems(w)
    BY DEF Joined
  <1> HIDE DEF w
  <1>2. \A m \in Elems(log) : m.k \in Data /\ m.seq \in Nat \ {0}
    BY LogElem
  <1>3. ASSUME NEW i \in DOMAIN w, i # 1, i # 2
        PROVE  w[i] \in Elems(log) /\ w[i].k \in Data /\ w[i].seq > n /\ w[i].seq \in Nat
               /\ Newest \in Elems(w)
    <2>1. i - 2 \in DOMAIN r /\ w[i] = r[i - 2] /\ r # <<>>
      BY <1>1, <1>3
    <2> QED BY <2>1, <1>1, <1>2
  <1>4. OpenMsg.k = "open" /\ OpenMsg.seq = 0
    BY DEF OpenMsg
  <1>5. c.seq \in Nat \ {0} /\ seq \in Nat
    BY DEF Host, LogOK
  <1>6. ASSUME NEW i \in DOMAIN w PROVE Sent(w[i])
    <2>1. CASE i = 1
      BY <2>1, <1>1 DEF Sent
    <2>2. CASE i = 2
      BY <2>2, <1>1 DEF Sent
    <2>3. CASE i # 1 /\ i # 2
      BY <2>3, <1>3 DEF Sent
    <2> QED BY <2>1, <2>2, <2>3
  <1>7. ASSUME NEW i \in DOMAIN w, NEW j \in DOMAIN w, i < j
        PROVE  Before(w[i], w[j])
    <2>1. CASE j = 1
      BY <2>1, <1>1, <1>7
    <2>2. CASE j = 2
      <3>1. i = 1
        BY <2>2, <1>1, <1>7
      <3> QED BY <3>1, <2>2, <1>1, <1>4, <1>5 DEF Before, Data
    <2>3. CASE j # 1 /\ j # 2
      <3>1. w[j].k \in Data /\ w[j].seq > n /\ w[j].seq \in Nat
        BY <2>3, <1>3
      <3>2. w[i].seq < w[j].seq
        <4>1. CASE i = 1
          BY <4>1, <3>1, <1>1, <1>4
        <4>2. CASE i = 2
          BY <4>2, <3>1, <1>1, <1>5
        <4>3. CASE i # 1 /\ i # 2
          <5>1. i - 2 \in DOMAIN r /\ j - 2 \in DOMAIN r /\ i - 2 < j - 2
                /\ w[i] = r[i - 2] /\ w[j] = r[j - 2]
            BY <4>3, <2>3, <1>1, <1>7
          <5> QED BY <5>1
        <4> QED BY <4>1, <4>2, <4>3
      <3> QED BY <3>1, <3>2 DEF Before, Data
    <2> QED BY <2>1, <2>2, <2>3
  <1>8. wire' = w
    BY DEF w
  <1>9. CursorDue'
    BY <1>1, <1>8 DEF CursorDue
  <1>10. \A i \in DOMAIN w : w[i].k \in Data => Newest \in Elems(w)
    BY <1>1, <1>3, <1>4 DEF Data
  <1>11. since' \in 0 .. seq' /\ (asked' <=> since' > 0)
    BY DEF Whole, WireOK
  <1>12. (\A i \in DOMAIN wire : Sent(wire[i]))'
    BY <1>6, <1>8 DEF Sent
  <1>13. WireOK'
    BY <1>1, <1>7, <1>8, <1>9, <1>10, <1>11, <1>12 DEF WireOK, Newest
  <1>14. Newest \in Elems(r) => Newest' \in Elems(wire')
    BY <1>1, <1>8 DEF Newest
  <1>15. c.resync => ResyncDue'
    BY <1>1, <1>8 DEF ResyncDue
  <1> QED BY <1>13, <1>14, <1>15

\* What is in a cursor.
LEMMA CursorIs ==
    ASSUME Host, NEW n \in 1 .. seq, NEW b \in BOOLEAN
    PROVE  /\ Cursor(n, b) \in Messages /\ Cursor(n, b).k = "cursor"
           /\ Cursor(n, b).seq = n /\ Cursor(n, b).resync = b
  <1>1. n \in Nat /\ 0 \in 0 .. MaxVer
    BY DEF Host, LogOK
  <1> QED BY <1>1 DEF Cursor, Messages

\* A connection sends what the browser's last event id lacks, or says resync.
LEMMA ConnectWhole ==
    ASSUME TypeOK, Whole, Connect
    PROVE  Whole'
  <1>1. /\ conn' = TRUE /\ ~conn
        /\ UNCHANGED <<text, stamped, ver, told, seq, log, since, asked, rd, stopped>>
    BY DEF Connect, hostVars
  <1>2. Host /\ since \in 0 .. seq /\ (asked <=> since > 0) /\ seq \in Nat \ {0}
    BY HostHolds DEF Whole, WireOK, LogOK
  <1>3. Sound(rd)' /\ LogOK' /\ (Caught(rd) => Caught(rd)')
    BY <1>1, SameHost DEF Whole, hostVars
  <1>4. ASSUME NEW n \in Nat
        PROVE  LET r == After(n)
               IN  /\ r \in Seq(Messages)
                   /\ \A j \in DOMAIN r : r[j] \in Elems(log) /\ r[j].seq > n
                   /\ \A j, k \in DOMAIN r : j < k => r[j].seq < r[k].seq
                   /\ log # <<>> /\ Newest.seq > n => Newest \in Elems(r)
                   /\ r # <<>> => Newest \in Elems(r)
    <2> DEFINE r == After(n)
    <2>1. /\ r \in Seq(Messages)
          /\ \A j \in DOMAIN r : r[j] \in Elems(log) /\ r[j].seq > n
          /\ \A j, k \in DOMAIN r : j < k => r[j].seq < r[k].seq
          /\ log # <<>> /\ Newest.seq > n => Newest \in Elems(r)
          /\ r # <<>> => Newest.seq > n
      BY <1>2, AfterLists
    <2> HIDE DEF r
    <2>2. r # <<>> => 1 \in DOMAIN r
      BY <2>1
    <2>3. r # <<>> => log # <<>>
      BY <1>2, <2>1, <2>2, LogElem
    <2> QED BY <2>1, <2>3 DEF r
  <1>5. WireOK' /\ (asked /\ Coming => Coming')
    <2>1. CASE since = 0 /\ wire' = <<OpenMsg, Cursor(seq, FALSE)>>
      <3> DEFINE c == Cursor(seq, FALSE)
                 r == <<>>
      <3>1. c \in Messages /\ c.k = "cursor" /\ c.seq = seq /\ ~c.resync
        <4>1. seq \in 1 .. seq /\ FALSE \in BOOLEAN
          BY <1>2
        <4>2. c.resync = FALSE /\ c \in Messages /\ c.k = "cursor" /\ c.seq = seq
          BY <4>1, <1>2, CursorIs
        <4> QED BY <4>2
      <3>2. r \in Seq(Messages) /\ DOMAIN r = {} /\ wire' = <<OpenMsg, c>> \o r
        BY <2>1
      <3> HIDE DEF c, r
      <3>3. Joined(wire', c, r)
        BY <3>1, <3>2, JoinOf
      <3>4. r # <<>> => Newest \in Elems(r)
        BY DEF r
      <3>6. /\ c.seq \in 1 .. seq /\ c.seq <= seq
        BY <3>1, <1>2
      <3>8. /\ ~asked /\ seq \in Nat /\ seq \in 1 .. seq
            /\ \A j \in DOMAIN r : r[j] \in Elems(log) /\ r[j].seq > seq
            /\ \A j, k \in DOMAIN r : j < k => r[j].seq < r[k].seq
        BY <3>2, <1>2, <2>1
      <3>7. UNCHANGED <<log, seq, since, asked>> /\ conn' = TRUE
        BY <1>1
      <3>5. WireOK'
        BY <3>1, <3>2, <3>3, <3>4, <3>6, <3>7, <3>8, <1>2, ConnectLink
      <3> QED BY <3>5, <1>2, <2>1
    <2>2. CASE since > 0 /\ wire' = <<OpenMsg, Cursor(since, FALSE)>> \o After(since)
      <3> DEFINE c == Cursor(since, FALSE)
                 r == After(since)
      <3>1. c \in Messages /\ c.k = "cursor" /\ c.seq = since /\ ~c.resync
        <4>1. since \in 1 .. seq /\ FALSE \in BOOLEAN
          BY <1>2, <2>2
        <4>2. c.resync = FALSE /\ c \in Messages /\ c.k = "cursor" /\ c.seq = since
          BY <4>1, <1>2, CursorIs
        <4> QED BY <4>2
      <3>2. since \in Nat /\ wire' = <<OpenMsg, c>> \o r
        BY <1>2, <2>2
      <3>3. /\ r \in Seq(Messages)
            /\ \A j \in DOMAIN r : r[j] \in Elems(log) /\ r[j].seq > since
            /\ \A j, k \in DOMAIN r : j < k => r[j].seq < r[k].seq
            /\ log # <<>> /\ Newest.seq > since => Newest \in Elems(r)
            /\ r # <<>> => Newest \in Elems(r)
        BY <3>2, <1>4
      <3> HIDE DEF c, r
      <3>4. Joined(wire', c, r)
        BY <3>1, <3>2, <3>3, JoinOf
      <3>5. WireOK' /\ (Newest \in Elems(r) => Newest' \in Elems(wire'))
        <4>1. asked /\ since \in 1 .. seq /\ since <= since
          BY <1>2, <2>2
        <4>2. UNCHANGED <<log, seq, since, asked>> /\ conn' = TRUE
          BY <1>1
        <4> QED BY <3>1, <3>2, <3>3, <3>4, <4>1, <4>2, <1>2, ConnectLink
      <3> QED BY <3>3, <3>5, <1>1 DEF Coming, Newest
    <2>3. CASE since > 0 /\ \E at \in 1 .. seq : \E from \in at .. seq :
                               wire' = <<OpenMsg, Cursor(at, TRUE)>> \o After(from)
      <3>7. PICK at \in 1 .. seq :
               \E from \in at .. seq : wire' = <<OpenMsg, Cursor(at, TRUE)>> \o After(from)
        BY <2>3
      <3>1. PICK from \in at .. seq : wire' = <<OpenMsg, Cursor(at, TRUE)>> \o After(from)
        BY <3>7
      <3> DEFINE c == Cursor(at, TRUE)
                 r == After(from)
      <3>2. c \in Messages /\ c.k = "cursor" /\ c.seq = at /\ c.resync
        BY <1>2, CursorIs
      <3>3. from \in Nat /\ at <= from /\ wire' = <<OpenMsg, c>> \o r
        BY <1>2, <3>1
      <3>4. /\ r \in Seq(Messages)
            /\ \A j \in DOMAIN r : r[j] \in Elems(log) /\ r[j].seq > from
            /\ \A j, k \in DOMAIN r : j < k => r[j].seq < r[k].seq
            /\ r # <<>> => Newest \in Elems(r)
        BY <3>3, <1>4
      <3> HIDE DEF c, r
      <3>5. Joined(wire', c, r)
        BY <3>2, <3>3, <3>4, JoinOf
      <3>6. WireOK' /\ ResyncDue'
        BY <3>2, <3>3, <3>4, <3>5, <1>1, <1>2, <2>3, ConnectLink
      <3> QED BY <3>6, <1>1 DEF Coming, Newest
    <2> QED BY <2>1, <2>2, <2>3 DEF Connect
  <1>6. Following'
    BY <1>1, <1>3, <1>5 DEF Whole, Following, Reads
  <1> QED BY <1>3, <1>5, <1>6 DEF Whole

\* What a broken connection loses, the next one sends again.
LEMMA BreakWhole ==
    ASSUME TypeOK, Whole, Break
    PROVE  Whole'
  <1>1. /\ conn' = FALSE /\ wire' = <<>>
        /\ UNCHANGED <<text, stamped, ver, told, seq, log, since, asked, rd, stopped>>
    BY DEF Break, hostVars
  <1>2. Sound(rd)' /\ LogOK' /\ (Caught(rd) => Caught(rd)')
    BY <1>1, SameHost DEF Whole, hostVars
  <1>3. WireOK'
    BY <1>1 DEF Whole, WireOK
  <1>4. Coming => Coming'
    BY <1>1 DEF Coming, Newest
  <1>5. Following'
    BY <1>1, <1>2, <1>4 DEF Whole, Following, Reads
  <1> QED BY <1>2, <1>3, <1>5 DEF Whole

\* A step does not take the article back.
Forward == stamped = {"frame", "body"} /\ Distinct /\ ~rd'.forced => rd'.at >= rd.at

\* What a handler's caller has to show of the record it ends with.
LEMMA HandlerWhole ==
    ASSUME TypeOK, Whole, NEW q, Sound(q), ~Reads(q), rd' = q,
           UNCHANGED <<hostVars, stopped>>, WireOK', asked',
           told /\ ~stopped => Coming' \/ Caught(q)
    PROVE  Whole'
  <1>1. UNCHANGED <<told, stopped>>
    BY DEF hostVars
  <1>2. Sound(rd)' /\ LogOK' /\ (Caught(q) => Caught(rd)') /\ ~Reads(rd)'
    BY SameHost DEF Whole
  <1>3. Following'
    BY <1>1, <1>2 DEF Following
  <1> QED BY <1>2, <1>3 DEF Whole

\* Taking an open.
LEMMA OpenedWhole ==
    ASSUME TypeOK, Whole, Opened
    PROVE  Whole' /\ Forward
  <1> DEFINE q == OnOpen(rd)
  <1>1. /\ wire # <<>> /\ Head(wire).k = "open" /\ wire' = Tail(wire)
        /\ rd' = q /\ Host
        /\ UNCHANGED <<text, stamped, ver, told, seq, log, conn, since, asked, stopped>>
    BY HostHolds DEF Opened, Take, hostVars, Whole
  <1>2. Goes(q, rd)
    BY <1>1, OnOpenKeeps DEF Whole
  <1>3. WireOK' /\ (Coming => Coming')
    BY <1>1, OpenTaken DEF Whole
  <1> HIDE DEF q
  <1>4. Sound(rd)' /\ LogOK' /\ (Caught(rd) => Caught(rd)')
    BY <1>1, <1>2, SameHost DEF Whole, Goes, hostVars
  <1>5. Following'
    <2>1. Reads(rd)' => Reads(rd) /\ rd'.job = rd.job
      BY <1>1, <1>2 DEF Goes, Reads
    <2>2. ~asked => rd'.job = None /\ rd'.pending = None
      BY <1>1, <1>2 DEF Goes, Asks, Whole, Following
    <2> QED BY <1>1, <1>3, <1>4, <2>1, <2>2 DEF Whole, Following
  <1>6. Forward
    BY <1>1, <1>2 DEF Forward, Goes, Whole, Sound, Readers
  <1> QED BY <1>3, <1>4, <1>5, <1>6 DEF Whole

\* Taking a cursor: where it says resync, or is the first, the page is asked for.
LEMMA TakeCursorWhole ==
    ASSUME TypeOK, Whole, TakeCursor
    PROVE  Whole' /\ Forward
  <1> DEFINE c == Head(wire)
             r == Arrived(rd, c.seq)
             q == OnCursor(r, c)
  <1>1. /\ wire # <<>> /\ c.k = "cursor" /\ wire' = Tail(wire) /\ since' = c.seq
        /\ asked' = TRUE /\ rd' = q /\ Host
        /\ UNCHANGED <<hostVars, stopped>>
        /\ UNCHANGED <<text, stamped, ver, told, seq, log, conn, stopped>>
    BY HostHolds DEF TakeCursor, Take, hostVars, Whole
  <1>2. /\ WireOK' /\ c \in Messages /\ c.seq \in 1 .. seq
        /\ Coming /\ asked => c.resync \/ Coming'
    BY <1>1, CursorTaken DEF Whole
  <1> HIDE DEF c
  <1>3. c.seq \in Nat /\ c.seq <= seq
    BY <1>1, <1>2 DEF Host, LogOK
  <1>4. Goes(r, rd) /\ ~Reads(r) /\ c.seq <= r.watermark
    BY <1>1, <1>3, ArrivedKeeps DEF Whole
  <1> HIDE DEF r
  <1>5. /\ Sound(q) /\ ~Reads(q) /\ q.at = r.at
        /\ c.resync \/ ~asked => Asks(q)
        /\ Caught(r) => Caught(q)
    BY <1>1, <1>2, <1>4, OnCursorKeeps DEF Goes
  <1> HIDE DEF q
  <1>6. told /\ ~stopped => Coming' \/ Caught(q)
    <2>1. Asks(q) => Caught(q)
      BY DEF Asks, Caught, Owed
    <2> QED BY <1>2, <1>4, <1>5, <2>1 DEF Whole, Following, Goes
  <1>7. Whole'
    BY <1>1, <1>2, <1>5, <1>6, HandlerWhole
  <1>8. Forward
    BY <1>1, <1>4, <1>5 DEF Forward, Goes, Whole, Sound, Readers
  <1> QED BY <1>7, <1>8

\* Taking a frame: the newest one leaves the article at the file, or a repair owed.
LEMMA TakeFrameWhole ==
    ASSUME TypeOK, Whole, TakeFrame
    PROVE  Whole' /\ Forward
  <1> DEFINE f == Head(wire)
             r == Arrived(rd, f.seq)
  <1>1. /\ wire # <<>> /\ f.k = "frame" /\ wire' = Tail(wire) /\ since' = f.seq /\ Host
        /\ UNCHANGED <<hostVars, stopped>>
        /\ UNCHANGED <<text, stamped, ver, told, seq, log, conn, asked, stopped>>
    BY HostHolds DEF TakeFrame, Take, hostVars, Whole
  <1>2. PICK yes \in BOOLEAN : rd' = OnFrame(r, f, yes)
    BY DEF TakeFrame, Answers
  <1>3. WireOK' /\ asked /\ f \in Elems(log) /\ (f = Newest \/ Coming')
    BY <1>1, DataTaken DEF Whole, Data
  <1> HIDE DEF f
  <1>4. PICK i \in DOMAIN log : f = log[i]
    BY <1>3 DEF Elems
  <1>5. f.seq \in Nat /\ f.seq <= seq
    BY <1>1, <1>4, LogItem
  <1>6. Goes(r, rd) /\ ~Reads(r) /\ f.seq <= r.watermark
    BY <1>1, <1>5, ArrivedKeeps DEF Whole
  <1> HIDE DEF r
  <1> DEFINE q == OnFrame(r, f, yes)
  <1>7. Applied(q, r, f)
    BY <1>1, <1>4, <1>6, OnFrameKeeps DEF Goes
  <1>8. rd' = q
    BY <1>2
  <1> HIDE DEF q
  <1>9. told /\ f = Newest => f.v = ver
    BY <1>4, LogItem, <1>1 DEF Newest, Host, LogOK
  <1>10. told /\ ~stopped => Coming' \/ Caught(q)
    BY <1>3, <1>7, <1>9 DEF Applied
  <1>11. Whole'
    BY <1>1, <1>3, <1>7, <1>8, <1>10, HandlerWhole DEF Applied
  <1>12. Forward
    BY <1>6, <1>7, <1>8 DEF Forward, Goes, Applied, Whole, Sound, Readers
  <1> QED BY <1>11, <1>12

\* Taking a notice: the page is asked for.
LEMMA TakeNoticeWhole ==
    ASSUME TypeOK, Whole, TakeNotice
    PROVE  Whole' /\ Forward
  <1> DEFINE f == Head(wire)
             r == Arrived(rd, f.seq)
             q == RequestRepair(r, "notice", f.seq)
  <1>1. /\ wire # <<>> /\ f.k = "notice" /\ wire' = Tail(wire) /\ since' = f.seq /\ Host
        /\ UNCHANGED <<hostVars, stopped>> /\ rd' = q
        /\ UNCHANGED <<text, stamped, ver, told, seq, log, conn, asked, stopped>>
    BY HostHolds DEF TakeNotice, Take, hostVars, Whole
  <1>2. WireOK' /\ asked /\ f \in Elems(log)
    BY <1>1, DataTaken DEF Whole, Data
  <1> HIDE DEF f
  <1>3. f.seq \in Nat /\ f.seq <= seq
    BY <1>1, <1>2, LogElem
  <1>4. Goes(r, rd) /\ ~Reads(r) /\ f.seq <= r.watermark
    BY <1>1, <1>3, ArrivedKeeps DEF Whole
  <1> HIDE DEF r
  <1>5. Sound(q) /\ Caught(q) /\ q.at = r.at /\ ~Reads(q)
    <2>1. Sound(r) /\ f.seq \in Nat \cup {None} /\ Seen(r, f.seq)
      BY <1>3, <1>4 DEF Goes, Seen
    <2> QED BY <1>1, <1>4, <2>1, RequestRepairKeeps
  <1> HIDE DEF q
  <1>6. Whole'
    BY <1>1, <1>2, <1>5, HandlerWhole
  <1>7. Forward
    BY <1>1, <1>4, <1>5 DEF Forward, Goes, Whole, Sound, Readers
  <1> QED BY <1>6, <1>7

\* The host answers a GET with the file as it is.
LEMMA ReadBodyWhole ==
    ASSUME TypeOK, Whole, ReadBody
    PROVE  Whole' /\ Forward
  <1>1. /\ rd.job # None /\ rd.job.read = None /\ rd' = [rd EXCEPT !.job.read = ver] /\ Host
        /\ UNCHANGED hostVars
        /\ UNCHANGED <<text, stamped, ver, told, seq, log, conn, wire, since, asked, stopped>>
    BY HostHolds DEF ReadBody, hostVars, linkVars, Whole
  <1> DEFINE j == [rd.job EXCEPT !.read = ver]
             q == [rd EXCEPT !.job = j]
  <1>2. rd \in Readers /\ rd.job \in Jobs /\ ver \in 0 .. MaxVer
    BY <1>1 DEF Whole, Sound, Readers, LogOK
  <1>3. j \in Jobs /\ j.read = ver /\ j.reason = rd.job.reason /\ j.stale = rd.job.stale
        /\ j # None
    <2>1. j \in Jobs /\ j.read = ver /\ j.reason = rd.job.reason /\ j.stale = rd.job.stale
      BY <1>2 DEF Jobs
    <2> QED BY <1>1, <2>1 DEF Host
  <1>4. rd' = q
    BY <1>1, <1>2 DEF Readers
  <1> HIDE DEF j
  <1>5. /\ q \in Readers /\ q.job = j
        /\ q.receipt = rd.receipt /\ q.at = rd.at /\ q.matched = rd.matched
        /\ q.warned = rd.warned /\ q.forced = rd.forced /\ q.pending = rd.pending
        /\ q.paused = rd.paused /\ q.watermark = rd.watermark
    BY <1>2, <1>3 DEF Readers
  <1> HIDE DEF q
  <1>6. Numbered(q) /\ Shows(q) /\ Claims(q) /\ Placed(q)
    BY <1>1, <1>3, <1>5 DEF Whole, Sound, Numbered, Seen, Shows, Claims, Placed
  <1>7. FreshRead(q)
    <2>1. \A n : Covers(ver, n)
      BY <1>1, LogItem DEF Covers
    <2> QED BY <1>1, <1>3, <1>5, <2>1, <1>2 DEF Whole, Sound, FreshRead, Numbered
  <1>8. Sound(rd)' /\ LogOK' /\ (Caught(q) => Caught(rd)')
    BY <1>1, <1>4, <1>5, <1>6, <1>7, SameHost DEF Whole, Sound
  <1>9. WireOK' /\ (Coming => Coming')
    BY <1>1, SameLink DEF Whole
  <1>10. Caught(q)
    BY <1>3, <1>5 DEF Caught, Owed
  <1>11. asked
    BY <1>1 DEF Whole, Following
  <1>12. Following'
    BY <1>1, <1>3, <1>4, <1>5, <1>8, <1>10, <1>11 DEF Following, Reads
  <1>13. Forward
    BY <1>2, <1>4, <1>5 DEF Forward, Readers
  <1> QED BY <1>8, <1>9, <1>12, <1>13 DEF Whole

\* Taking a body: what it missed is still coming, or is asked for.
LEMMA TakeBodyWhole ==
    ASSUME TypeOK, Whole, TakeBody
    PROVE  Whole' /\ Forward
  <1>1. /\ rd.job # None /\ rd.job.read # None /\ Host
        /\ UNCHANGED hostVars /\ UNCHANGED stopped
        /\ UNCHANGED <<text, stamped, ver, told, seq, log, conn, wire, since, asked, stopped>>
    BY HostHolds DEF TakeBody, hostVars, linkVars, Whole
  <1>2. PICK yes \in BOOLEAN : rd' = Settled(rd, yes)
    BY DEF TakeBody, Answers
  <1> DEFINE q == Settled(rd, yes)
  <1>3. /\ Sound(q) /\ ~Reads(q)
        /\ rd.job.stale \/ rd.job.read = ver => Caught(q)
        /\ q.forced \/ rd.at <= q.at
    BY <1>1, SettledKeeps DEF Whole
  <1>4. rd' = q
    BY <1>2
  <1> HIDE DEF q
  <1>5. WireOK' /\ (Coming => Coming')
    BY <1>1, SameLink DEF Whole
  <1>6. asked /\ asked'
    BY <1>1 DEF Whole, Following
  <1>7. told /\ ~stopped => Coming' \/ Caught(q)
    BY <1>1, <1>3, <1>5, <1>6 DEF Whole, Following, Reads
  <1>8. Whole'
    BY <1>1, <1>3, <1>4, <1>5, <1>6, <1>7, HandlerWhole
  <1>9. Forward
    BY <1>3, <1>4 DEF Forward, Whole, Sound, Readers
  <1> QED BY <1>8, <1>9

\* A GET that fails leaves its repair owed.
LEMMA FailBodyWhole ==
    ASSUME TypeOK, Whole, FailBody
    PROVE  Whole' /\ Forward
  <1> DEFINE q == Failed(rd)
  <1>1. /\ rd.job # None /\ Host /\ rd' = q
        /\ UNCHANGED hostVars /\ UNCHANGED stopped
        /\ UNCHANGED <<text, stamped, ver, told, seq, log, conn, wire, since, asked, stopped>>
    BY HostHolds DEF FailBody, hostVars, linkVars, Whole
  <1>2. Sound(q) /\ ~Reads(q) /\ Caught(q) /\ q.at = rd.at
    BY <1>1, FailedKeeps DEF Whole
  <1> HIDE DEF q
  <1>3. WireOK'
    BY <1>1, SameLink DEF Whole
  <1>4. asked'
    BY <1>1 DEF Whole, Following
  <1>5. Whole'
    BY <1>1, <1>2, <1>3, <1>4, HandlerWhole
  <1>6. Forward
    BY <1>1, <1>2 DEF Forward, Whole, Sound, Readers
  <1> QED BY <1>5, <1>6

\* A stop forgets what was owed.
LEMMA StopWhole ==
    ASSUME TypeOK, Whole, Stop
    PROVE  Whole' /\ Forward
  <1> DEFINE q == [rd EXCEPT !.job = None, !.pending = None, !.paused = FALSE]
  <1>1. /\ rd' = q /\ conn' = FALSE /\ wire' = <<>> /\ stopped' = TRUE
        /\ UNCHANGED hostVars
        /\ UNCHANGED <<text, stamped, ver, told, seq, log, since, asked>>
    BY DEF Stop, hostVars
  <1>2. rd \in Readers
    BY DEF Whole, Sound
  <1>3. /\ q \in Readers /\ q.job = None /\ q.pending = None
        /\ q.receipt = rd.receipt /\ q.at = rd.at /\ q.matched = rd.matched
        /\ q.warned = rd.warned /\ q.forced = rd.forced /\ q.watermark = rd.watermark
    BY <1>2 DEF Readers
  <1> HIDE DEF q
  <1>4. Sound(q)
    BY <1>3 DEF Whole, Sound, Numbered, Seen, Shows, Claims, Placed, FreshRead
  <1>5. Sound(rd)' /\ LogOK'
    BY <1>1, <1>4, SameHost DEF Whole
  <1>6. WireOK'
    BY <1>1 DEF Whole, WireOK
  <1>7. Following'
    BY <1>1, <1>3 DEF Following, Reads
  <1>8. Forward
    BY <1>1, <1>2, <1>3 DEF Forward, Readers
  <1> QED BY <1>5, <1>6, <1>7, <1>8 DEF Whole

\* Every step keeps the invariant, and none takes the article back.
LEMMA StepWhole ==
    ASSUME TypeOK, Whole, [Next]_vars
    PROVE  Whole' /\ Forward
  <1>1. rd.at \in Nat
    BY DEF TypeOK, Readers
  <1>2. UNCHANGED rd => Forward
    BY <1>1 DEF Forward
  <1>3. CASE Write \/ Announce \/ OtherLane
    BY <1>2, <1>3, WriteWhole, AnnounceWhole, OtherLaneWhole DEF Write, Announce, OtherLane
  <1>4. CASE Connect \/ Break
    BY <1>2, <1>4, ConnectWhole, BreakWhole DEF Connect, Break
  <1>5. CASE UNCHANGED vars
    <2>1. UNCHANGED <<hostVars, rd, stopped>>
          /\ UNCHANGED <<told, log, seq, conn, wire, since, asked, rd, stopped, ver, text>>
      BY <1>5 DEF vars, hostVars, linkVars
    <2>2. Sound(rd)' /\ LogOK' /\ (Caught(rd) => Caught(rd)')
      BY <2>1, SameHost DEF Whole
    <2>3. WireOK' /\ (Coming => Coming')
      BY <2>1, SameLink DEF Whole
    <2>4. Following'
      BY <2>1, <2>2, <2>3 DEF Whole, Following, Reads
    <2> QED BY <1>2, <2>1, <2>2, <2>3, <2>4 DEF Whole
  <1> QED
    BY <1>3, <1>4, <1>5, OpenedWhole, TakeCursorWhole, TakeFrameWhole, TakeNoticeWhole,
       ReadBodyWhole, TakeBodyWhole, FailBodyWhole, StopWhole DEF Next

\* Every step keeps the types.
LEMMA StepTyped ==
    ASSUME TypeOK, [Next]_vars, Whole'
    PROVE  TypeOK'
  <1>1. /\ rd' \in Readers
        /\ rd'.receipt.bytes = None => rd'.receipt = NoReceipt
        /\ rd'.receipt.seq # None => rd'.receipt.seq <= rd'.watermark
    BY DEF Whole, Sound, Shows, Numbered, Seen
  <1>2. ver' \in 0 .. MaxVer /\ seq' \in Nat /\ log' \in Seq(Messages)
        /\ wire' \in Seq(Messages) /\ since' \in Nat
    BY DEF Whole, LogOK, WireOK
  <1>3. /\ text' = text /\ stamped' = stamped
        /\ told' \in BOOLEAN /\ conn' \in BOOLEAN /\ asked' \in BOOLEAN /\ stopped' \in BOOLEAN
        /\ breaks' \in Nat /\ faults' \in Nat
    <2>1. told \in BOOLEAN /\ conn \in BOOLEAN /\ asked \in BOOLEAN /\ stopped \in BOOLEAN
          /\ breaks \in Nat /\ faults \in Nat
      BY DEF TypeOK
    <2>2. CASE Write
      BY <2>1, <2>2 DEF Write, linkVars
    <2>3. CASE Announce
      BY <2>1, <2>3 DEF Announce
    <2>4. CASE OtherLane
      BY <2>1, <2>4 DEF OtherLane, linkVars
    <2>5. CASE Connect
      BY <2>1, <2>5 DEF Connect, hostVars
    <2>6. CASE Break
      <3>1. conn' = FALSE /\ UNCHANGED <<text, stamped, told, asked, stopped, faults>>
        BY <2>6 DEF Break, hostVars
      <3>2. breaks' \in Nat
        BY <2>1, <2>6 DEF Break
      <3> QED BY <2>1, <3>1, <3>2
    <2>7. CASE Opened
      BY <2>1, <2>7 DEF Opened, hostVars
    <2>8. CASE TakeCursor
      BY <2>1, <2>8 DEF TakeCursor, hostVars
    <2>9. CASE TakeFrame
      <3>1. faults' \in Nat
        BY <2>1, <2>9 DEF TakeFrame, Tally
      <3> QED BY <2>1, <2>9, <3>1 DEF TakeFrame, hostVars
    <2>10. CASE TakeNotice
      BY <2>1, <2>10 DEF TakeNotice, hostVars
    <2>11. CASE ReadBody
      BY <2>1, <2>11 DEF ReadBody, hostVars, linkVars
    <2>12. CASE TakeBody
      <3>1. faults' \in Nat
        BY <2>1, <2>12 DEF TakeBody, Tally
      <3> QED BY <2>1, <2>12, <3>1 DEF TakeBody, hostVars, linkVars
    <2>13. CASE FailBody
      BY <2>1, <2>13 DEF FailBody, hostVars, linkVars
    <2>14. CASE Stop
      BY <2>1, <2>14 DEF Stop, hostVars
    <2>15. CASE UNCHANGED vars
      BY <2>1, <2>15 DEF vars, hostVars, linkVars
    <2> QED
      BY <2>2, <2>3, <2>4, <2>5, <2>6, <2>7, <2>8, <2>9,
         <2>10, <2>11, <2>12, <2>13, <2>14, <2>15 DEF Next
  <1> QED BY <1>1, <1>2, <1>3 DEF TypeOK

\* Every behaviour keeps the invariant.
LEMMA AlwaysWhole == Spec => [](TypeOK /\ Whole)
  <1>1. Init => TypeOK /\ Whole
    BY InitWhole
  <1>2. TypeOK /\ Whole /\ [Next]_vars => (TypeOK /\ Whole)'
    BY StepWhole, StepTyped
  <1> QED BY <1>1, <1>2, PTL DEF Spec

\* What the receipt says of itself is true in every state: the stamp on it names the
\* bytes on screen, and the number on it is one the article covers, unless the body was
\* applied past its second discard (saved-stream.js:347-373, 281-291).
THEOREM ReceiptTrue == Spec => []ReceiptSound
  <1>1. TypeOK /\ Whole => ReceiptSound
    BY DEF Whole, Sound, Shows, Claims, Covers, ReceiptSound, StampNamesBytes, SeqIsCovered
  <1> QED BY <1>1, AlwaysWhole, PTL

\* Whenever nothing is on its way, the article shows the file as it is on disk, or the
\* reader was told of a failure, or a body past its second discard was applied, whatever
\* was broken, lost, refused or overtaken before (saved-stream.js:293-393).
THEOREM RestsAtFile == Spec => []QuietShowsFile
  <1>1. TypeOK /\ Whole => QuietShowsFile
    <2>1. SUFFICES ASSUME TypeOK, Whole, Quiet, ~rd.warned, ~rd.forced
                   PROVE  rd.receipt.bytes = text[ver]
      BY DEF QuietShowsFile
    <2>2. asked
      BY <2>1 DEF Quiet, Whole, WireOK, CursorDue
    <2>3. ~Coming
      BY <2>1 DEF Quiet, Coming, Elems, ResyncDue
    <2> QED BY <2>1, <2>2, <2>3 DEF Quiet, Whole, Following, Caught, Owed
  <1> QED BY <1>1, AlwaysWhole, PTL

\* Where frames and bodies are stamped and no text returns, no step takes the article
\* back to an earlier version, but for a body applied past its second discard
\* (saved-stream.js:377, 381-387).
THEOREM NoRewind == Spec => NeverRewinds
  <1>1. TypeOK /\ Whole /\ [Next]_vars =>
          [stamped = {"frame", "body"} /\ Distinct /\ ~rd'.forced => rd'.at >= rd.at]_vars
    BY StepWhole DEF Forward
  <1> QED BY <1>1, AlwaysWhole, PTL DEF Spec, NeverRewinds
=============================================================================
