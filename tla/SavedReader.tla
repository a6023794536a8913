---------------------------- MODULE SavedReader ----------------------------
(***************************************************************************)
(* The receive-only stream a reader follows the saved file with            *)
(* (saved-stream.js): one article on screen, one receipt that says which   *)
(* bytes it shows and which sequence number they cover, the frames and     *)
(* cursors of the saved lane, and at most one GET of the served page.      *)
(*                                                                         *)
(* The handlers run one at a time, so each is one action over the          *)
(* reader's record rd; what they call is an operator from rd to rd. The    *)
(* file, the host's lane and the connection are the environment. A file    *)
(* version is its number, text says what it reads, and a version's stamp   *)
(* is named by its text.                                                   *)
(***************************************************************************)
EXTENDS Picking

CONSTANTS
    None,
    Bodies,      \* what a file can read
    Histories,   \* the files this instance follows: what each version reads
    Stampings,   \* what a host stamps: its frames, its responses
    Happens,     \* events of the environment this instance lets happen
    MaxVer,      \* bound on the versions of the file
    MaxSeq,      \* bound on the numbers other lanes take
    MaxBreaks, MaxFaults   \* bounds on broken connections, and on failed GETs and refusals

EventKinds == {"notice", "other", "fail", "refuse", "stop"}

\* Why the page is asked for again, and the GET that asks for it.
Reasons == [kind : {"startup", "resync", "notice", "unmatched"}, seq : Nat \cup {None}]
Jobs == [reason : Reasons, read : (0 .. MaxVer) \cup {None}, stale : BOOLEAN]

ASSUME ReaderAssumption ==
    /\ None \notin Bodies /\ None \notin Nat /\ None \notin Reasons /\ None \notin Jobs
    /\ MaxVer \in Nat /\ MaxSeq \in Nat /\ MaxBreaks \in Nat /\ MaxFaults \in Nat
    /\ Histories \subseteq [0 .. MaxVer -> Bodies]
    /\ Stampings \subseteq SUBSET {"frame", "body"}
    /\ Happens \subseteq EventKinds

VARIABLES
    text,     \* text[v]: what version v of the file reads
    stamped,  \* what this host stamps
    ver,      \* the version on disk
    told,     \* whether the saved lane has heard of it
    seq,      \* the host's counter, which the other lanes use too
    log,      \* what the saved lane published
    conn,     \* whether the stream is connected
    wire,     \* messages on their way to the reader
    since,    \* the last event id the browser holds, 0 before the first cursor
    asked,    \* whether the startup question went out with a cursor
    rd,       \* the reader
    stopped,
    breaks, faults   \* broken connections, failed GETs and refusals so far

hostVars == <<text, stamped, ver, told, seq, log>>
linkVars == <<conn, wire, since, asked>>
vars == <<hostVars, linkVars, rd, stopped, breaks, faults>>

MaxDiscards == 2

Higher(m, n) == IF m > n THEN m ELSE n
Or(x, y) == IF x # None THEN x ELSE y

-----------------------------------------------------------------------------
(* The reader's record. receipt, matched, watermark, discards, job,        *)
(* pending and paused are the closure's variables. The rest is history:    *)
(* at, the version the article shows; warned, whether "recoverable" is     *)
(* the last thing reported of it; forced, whether it is a body that was    *)
(* applied although it was due to be discarded.                            *)

NoReceipt == [bytes |-> None, etag |-> None, seq |-> None]

FreshReader == [receipt |-> NoReceipt, matched |-> TRUE, watermark |-> 0, discards |-> 0,
                job |-> None, pending |-> None, paused |-> FALSE,
                at |-> 0, warned |-> FALSE, forced |-> FALSE]

Warn(r) == [r EXCEPT !.warned = TRUE]

\* Every message counts as an arrival, and a body being read meanwhile may be old.
Arrived(r, n) ==
    [r EXCEPT !.watermark = Higher(@, n),
              !.job = IF @ = None THEN None ELSE [@ EXCEPT !.stale = TRUE]]

\* One GET at a time; none while the last one's failure waits for a reconnection.
RunRepair(r) ==
    IF r.job # None \/ r.paused \/ r.pending = None THEN r
    ELSE [r EXCEPT !.pending = None,
                   !.job = [reason |-> r.pending, read |-> None, stale |-> FALSE]]

\* The number that asked for the page already counts as shown.
BugRequestRepair(r, kind, n) ==
    RunRepair([r EXCEPT !.pending = [kind |-> kind, seq |-> n], !.paused = FALSE,
                        !.receipt.seq = Or(n, @)])

RequestRepair(r, kind, n) ==
    RunRepair([r EXCEPT !.pending = [kind |-> kind, seq |-> n], !.paused = FALSE])

\* What the caller's onSnapshot answers decides; a candidate already held asks nothing.
Taken(r, c, yes) == c = r.receipt \/ yes

Accept(r, c, v, yes) ==
    CASE c = r.receipt        -> [r EXCEPT !.at = Higher(@, v)]
      [] c # r.receipt /\ yes -> [r EXCEPT !.receipt = c, !.at = v, !.warned = FALSE,
                                           !.forced = FALSE]
      [] OTHER                -> Warn(r)

\* A frame that repeats the bytes on screen moves the receipt and repaints nothing.
Advance(r, etag, n, v) ==
    [r EXCEPT !.receipt = [bytes |-> @.bytes, etag |-> Or(etag, @.etag), seq |-> n],
              !.at = v, !.warned = FALSE, !.forced = FALSE]

Covered(r, n) == r.receipt.seq # None /\ n <= r.receipt.seq

\* A frame applies whatever it names.
BugUnplaced(r, etag) == FALSE

\* A body's version is unconfirmed until a frame names it.
Unplaced(r, etag) ==
    ~r.matched /\ etag # None /\ r.receipt.etag # None /\ etag # r.receipt.etag

Confirmed(r, etag) == r.matched \/ (etag # None /\ etag = r.receipt.etag)

OnFrame(r, f, yes) ==
    LET bytes == text[f.v]
        etag  == IF "frame" \in stamped THEN text[f.v] ELSE None
        r1    == [r EXCEPT !.matched = Confirmed(r, etag)]
        c     == [bytes |-> bytes, etag |-> etag, seq |-> f.seq]
    IN CASE Covered(r, f.seq)          -> r
         [] ~Covered(r, f.seq) /\ Unplaced(r, etag) -> RequestRepair(r, "unmatched", f.seq)
         [] ~Covered(r, f.seq) /\ ~Unplaced(r, etag) /\ bytes = r.receipt.bytes ->
               Advance(r1, etag, f.seq, f.v)
         [] OTHER -> [Accept(r1, c, f.v, yes) EXCEPT !.matched = @ \/ Taken(r1, c, yes)]

OnCursor(r, c) ==
    CASE c.resync              -> RequestRepair(r, "resync", c.seq)
      [] ~c.resync /\ ~asked   -> RequestRepair(r, "startup", None)
      [] OTHER                 -> r

\* A GET that failed is tried again when the stream opens.
OnOpen(r) == IF r.paused THEN RunRepair([r EXCEPT !.paused = FALSE]) ELSE r

-----------------------------------------------------------------------------
(* What a finished GET does.                                               *)

LatestSeq(r, reason) ==
    LET n == Higher(IF reason.seq = None THEN 0 ELSE reason.seq, r.watermark)
    IN IF reason.kind = "startup" \/ n = 0 THEN None ELSE n

Latest(r, reason) == [kind |-> reason.kind, seq |-> LatestSeq(r, reason)]

\* Identical bytes a stamp already named keep that name.
BodyStamp(r, v) ==
    CASE "body" \in stamped -> text[v]
      [] "body" \notin stamped /\ text[v] = r.receipt.bytes -> r.receipt.etag
      [] OTHER -> None

AcceptBody(r, v, reason, yes, forced) ==
    LET c == [bytes |-> text[v], etag |-> BodyStamp(r, v),
              seq |-> IF reason.kind = "startup" THEN r.receipt.seq
                                                 ELSE Or(reason.seq, r.receipt.seq)]
        r1 == Accept(r, c, v, yes)
    IN IF Taken(r, c, yes)
       THEN [r1 EXCEPT !.matched = FALSE, !.discards = 0, !.paused = FALSE,
                       !.warned = FALSE, !.forced = forced]
       ELSE r1

\* The reason owed when the GET failed: it waits for the next open.
Failed(r) == Warn([r EXCEPT !.job = None, !.pending = r.job.reason, !.paused = TRUE])

\* The discarded body is not asked for again.
BugDiscard(r) == [r EXCEPT !.job = None, !.discards = @ + 1]

\* A body something arrived under is asked for again, twice.
Discard(r) ==
    RunRepair([r EXCEPT !.job = None, !.discards = @ + 1,
                        !.pending = Or(@, Latest(r, r.job.reason))])

Overrun(r) == r.discards >= MaxDiscards

\* A body something arrived under is applied like any other.
BugLate(r) == FALSE

\* Whether something arrived while the body was being read.
Late(r) == r.job.stale

Settled(r, yes) ==
    LET v == r.job.read
        reason == r.job.reason
        r1 == [r EXCEPT !.job = None]
    IN CASE ~Late(r)              -> RunRepair(AcceptBody(r1, v, reason, yes, FALSE))
         [] Late(r) /\ ~Overrun(r) -> Discard(r)
         [] OTHER -> RunRepair(AcceptBody([r1 EXCEPT !.discards = MaxDiscards + 1], v,
                                          Latest(r, reason), yes, TRUE))

-----------------------------------------------------------------------------
(* The file and the host's saved lane.                                     *)

Init ==
    /\ text \in Histories /\ stamped \in Stampings
    /\ ver = 0 /\ told = TRUE
    /\ seq = 1 /\ log = <<>>
    /\ conn = FALSE /\ wire = <<>> /\ since = 0 /\ asked = FALSE
    /\ rd = FreshReader
    /\ stopped = FALSE
    /\ breaks = 0 /\ faults = 0

\* A save, or a change from outside; several of the latter become one frame.
Write ==
    /\ ver < MaxVer
    /\ ver' = ver + 1 /\ told' = FALSE
    /\ UNCHANGED <<text, stamped, seq, log, linkVars, rd, stopped, breaks, faults>>

Msg(k, n, v) == [k |-> k, seq |-> n, v |-> v, resync |-> FALSE]

\* The lane publishes the file as it is now, or only says that it changed.
Announce ==
    /\ ~told
    /\ \E k \in {"frame"} \cup ({"notice"} \cap Happens) :
          /\ log' = Append(log, Msg(k, seq + 1, ver))
          /\ wire' = IF conn THEN Append(wire, Msg(k, seq + 1, ver)) ELSE wire
    /\ seq' = seq + 1 /\ told' = TRUE
    /\ UNCHANGED <<text, stamped, ver, conn, since, asked, rd, stopped, breaks, faults>>

\* Another lane or document takes a number.
OtherLane ==
    /\ "other" \in Happens
    /\ seq < MaxSeq /\ told
    /\ seq' = seq + 1
    /\ UNCHANGED <<text, stamped, ver, told, log, linkVars, rd, stopped, breaks, faults>>

-----------------------------------------------------------------------------
(* The connection. A first one starts at the counter. A browser that       *)
(* reconnects names its last event id, and all after it is replayed. Where *)
(* the host has lost frames, or the page made its stream anew, the cursor  *)
(* says resync, and what the host still keeps after it is replayed.        *)

After(n) == Pick(log, {i \in DOMAIN log : log[i].seq > n})

Cursor(n, resync) == [k |-> "cursor", seq |-> n, v |-> 0, resync |-> resync]
OpenMsg == [k |-> "open", seq |-> 0, v |-> 0, resync |-> FALSE]

Connect ==
    /\ ~conn /\ ~stopped
    /\ conn' = TRUE
    /\ \/ /\ since = 0
          /\ wire' = <<OpenMsg, Cursor(seq, FALSE)>>
       \/ /\ since > 0
          /\ wire' = <<OpenMsg, Cursor(since, FALSE)>> \o After(since)
       \/ /\ since > 0
          /\ \E at \in 1 .. seq : \E from \in at .. seq :
                wire' = <<OpenMsg, Cursor(at, TRUE)>> \o After(from)
    /\ UNCHANGED <<hostVars, since, asked, rd, stopped, breaks, faults>>

Break ==
    /\ conn /\ breaks < MaxBreaks
    /\ conn' = FALSE /\ wire' = <<>> /\ breaks' = breaks + 1
    /\ UNCHANGED <<hostVars, since, asked, rd, stopped, faults>>

-----------------------------------------------------------------------------
(* The reader's handlers.                                                  *)

Answers == {TRUE} \cup (IF "refuse" \in Happens /\ faults < MaxFaults THEN {FALSE} ELSE {})

Tally(yes) == faults' = IF yes THEN faults ELSE faults + 1

Take(k) == /\ ~stopped
           /\ wire # <<>> /\ Head(wire).k = k
           /\ wire' = Tail(wire)

Opened ==
    /\ Take("open")
    /\ rd' = OnOpen(rd)
    /\ UNCHANGED <<hostVars, conn, since, asked, stopped, breaks, faults>>

TakeCursor ==
    LET c == Head(wire)
    IN /\ Take("cursor")
       /\ rd' = OnCursor(Arrived(rd, c.seq), c)
       /\ since' = c.seq
       /\ asked' = TRUE
       /\ UNCHANGED <<hostVars, conn, stopped, breaks, faults>>

TakeFrame ==
    LET f == Head(wire)
    IN /\ Take("frame")
       /\ \E yes \in Answers :
             rd' = OnFrame(Arrived(rd, f.seq), f, yes) /\ Tally(yes)
       /\ since' = f.seq
       /\ UNCHANGED <<hostVars, conn, asked, stopped, breaks>>

\* A change named without its bytes, or a stamp alone, refetches the page.
TakeNotice ==
    LET f == Head(wire)
    IN /\ Take("notice")
       /\ rd' = RequestRepair(Arrived(rd, f.seq), "notice", f.seq)
       /\ since' = f.seq
       /\ UNCHANGED <<hostVars, conn, asked, stopped, breaks, faults>>

\* The host reads the file for the GET.
ReadBody ==
    /\ ~stopped /\ rd.job # None /\ rd.job.read = None
    /\ rd' = [rd EXCEPT !.job.read = ver]
    /\ UNCHANGED <<hostVars, linkVars, stopped, breaks, faults>>

TakeBody ==
    /\ ~stopped /\ rd.job # None /\ rd.job.read # None
    /\ \E yes \in Answers : rd' = Settled(rd, yes) /\ Tally(yes)
    /\ UNCHANGED <<hostVars, linkVars, stopped, breaks>>

FailBody ==
    /\ "fail" \in Happens /\ faults < MaxFaults
    /\ ~stopped /\ rd.job # None
    /\ rd' = Failed(rd)
    /\ faults' = faults + 1
    /\ UNCHANGED <<hostVars, linkVars, stopped, breaks>>

\* The stream is closed, the GET aborted, and what was owed forgotten.
Stop ==
    /\ "stop" \in Happens
    /\ ~stopped
    /\ stopped' = TRUE
    /\ conn' = FALSE /\ wire' = <<>>
    /\ rd' = [rd EXCEPT !.job = None, !.pending = None, !.paused = FALSE]
    /\ UNCHANGED <<hostVars, since, asked, breaks, faults>>

Next ==
    \/ Write \/ Announce \/ OtherLane
    \/ Connect \/ Break
    \/ Opened \/ TakeCursor \/ TakeFrame \/ TakeNotice
    \/ ReadBody \/ TakeBody \/ FailBody
    \/ Stop

Spec == Init /\ [][Next]_vars

\* Announcing is the host's save path and its watcher; the stream reconnects by
\* itself; the rest is message delivery and a GET that answers.
FairSpec ==
    /\ Spec
    /\ WF_vars(Announce) /\ WF_vars(Connect)
    /\ WF_vars(Opened) /\ WF_vars(TakeCursor) /\ WF_vars(TakeFrame) /\ WF_vars(TakeNotice)
    /\ WF_vars(ReadBody) /\ WF_vars(TakeBody)

-----------------------------------------------------------------------------
(* Correctness.                                                            *)

Receipts == [bytes : Bodies \cup {None}, etag : Bodies \cup {None}, seq : Nat \cup {None}]
Readers == [receipt : Receipts, matched : BOOLEAN, watermark : Nat, discards : Nat,
            job : Jobs \cup {None}, pending : Reasons \cup {None}, paused : BOOLEAN,
            at : 0 .. MaxVer, warned : BOOLEAN, forced : BOOLEAN]
Messages == [k : {"open", "cursor", "frame", "notice"}, seq : Nat, v : 0 .. MaxVer,
             resync : BOOLEAN]

\* The variables have their types, an empty receipt is empty altogether, and no
\* number is held that no message brought.
TypeOK ==
    /\ text \in Histories /\ stamped \in Stampings
    /\ ver \in 0 .. MaxVer /\ told \in BOOLEAN
    /\ seq \in Nat /\ log \in Seq(Messages)
    /\ conn \in BOOLEAN /\ wire \in Seq(Messages) /\ since \in Nat /\ asked \in BOOLEAN
    /\ rd \in Readers
    /\ rd.receipt.bytes = None => rd.receipt = NoReceipt
    /\ rd.receipt.seq # None => rd.receipt.seq <= rd.watermark
    /\ stopped \in BOOLEAN
    /\ breaks \in Nat /\ faults \in Nat

\* Nothing is on its way: no message, no GET, no unpublished change, no question to ask.
Quiet ==
    /\ ~stopped /\ conn /\ wire = <<>> /\ told
    /\ rd.job = None /\ rd.pending = None

\* Once nothing is on its way, the article shows the file as it is on disk, unless
\* the reader was told that something went wrong or a body past its second discard
\* was applied (saved-stream.js:27-29, every branch).
QuietShowsFile ==
    Quiet /\ ~rd.warned /\ ~rd.forced => rd.receipt.bytes = text[ver]

\* The article is at least as new as the number on its receipt says: "the resume
\* floor that apply is known to cover" (saved-stream.js:16-17).
SeqIsCovered ==
    rd.receipt.seq # None =>
        \A i \in DOMAIN log : log[i].seq <= rd.receipt.seq => log[i].v <= rd.at

\* The stamp on the receipt names the receipt's bytes, whatever the host stamps
\* (accept, advance and acceptBody are its only writers).
StampNamesBytes == rd.receipt.etag # None => rd.receipt.etag = rd.receipt.bytes

\* What the receipt says of itself is true, but for a body applied past its second
\* discard: its stamp names its bytes, and its number is one the article covers.
ReceiptSound == TypeOK /\ StampNamesBytes /\ (~rd.forced => SeqIsCovered)

Distinct == \A u, v \in DOMAIN text : text[u] = text[v] => u = v

\* Where frames and bodies are stamped and no text returns, the article never goes
\* back to an earlier version (saved-stream.js:377, 40-43), forced bodies apart.
NeverRewinds ==
    [][ stamped = {"frame", "body"} /\ Distinct /\ ~rd'.forced => rd'.at >= rd.at ]_vars

\* When the file stops changing, the reader ends at it, or has said that it does not.
EndsAtFile ==
    <>[](rd.receipt.bytes = text[ver] \/ rd.warned \/ rd.forced \/ stopped)
=============================================================================
