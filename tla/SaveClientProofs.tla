-------------------------- MODULE SaveClientProofs --------------------------
(***************************************************************************)
(* Theorems about SaveClient, for every scenario and every bound on edits, *)
(* on other writers' versions, on saves and on faults.                     *)
(***************************************************************************)
EXTENDS SaveClient, TLAPS

-----------------------------------------------------------------------------
(* The page's record, and what its lane of saving keeps true of it.        *)

Fields ==
    {"text", "saved", "stamp", "dirty", "touched", "job", "out", "ids", "unknown",
     "pendingSave", "pendingAutosave", "autosaveSuspended", "autosaveMissed", "wire",
     "conflictHold", "conflictEtag", "previewHold", "previewMissed", "previewAutosaveMissed",
     "quiesced", "parkedWork", "parkedAutosave", "due", "running", "trail", "recent", "soon",
     "seeding", "landed", "missing", "broke", "consent", "chosen", "failed", "parkedAt"}

Seeds == [etag : Stamps, stale : BOOLEAN]

Page(q) ==
    /\ DOMAIN q = Fields
    /\ q.text \in Texts /\ q.saved \in Texts /\ q.stamp \in Stamps
    /\ q.job \in OrNone(Jobs) /\ q.out \in OrNone(Requests) /\ q.ids \in Nat
    /\ q.autosaveSuspended \in Nat /\ q.seeding \in OrNone(Seeds)
    /\ q.soon \in {None, "armed", "deferred"} /\ q.running \in {None, "trail", "sent"}

\* What may be handed to the network: the request of the save that is on the wire.
Fits(r, job) ==
    r.live /\ r.id = job.id /\ r.text = job.text /\ job.stage = "sent" /\ job.answer = None

\* The answer says that the host stored the save: it was taken, or it is the one the
\* host has the Save-ID of.
Proves(job) ==
    /\ job.answer # None
    /\ IF job.stage = "sent" THEN job.answer.ok ELSE job.answer.saveId = job.id

\* The page's lane hangs together, and nothing was reported saved that is not.
Lane(q) ==
    /\ Page(q) /\ ~q.missing
    /\ q.job # None => q.job.id \in 1 .. q.ids
    /\ q.out # None => q.job # None /\ Fits(q.out, q.job)
    /\ q.job # None /\ Proves(q.job) => q.landed

Holds(q) == (IF q.wire THEN 1 ELSE 0) + (IF q.conflictHold THEN 1 ELSE 0)

Counted(q) == q.autosaveSuspended = Holds(q)

-----------------------------------------------------------------------------
(* What a page reads, over a file of which it is known that it holds m of  *)
(* this tab's edits. A document is up to another if it has no more of      *)
(* either; a save of one over another takes nothing back, but what a       *)
(* person chose to overwrite; one without a stamp is only sent by choice.  *)

Upto(t, u) == t.mine <= u.mine /\ t.theirs <= u.theirs

Covers(t, e, consent) ==
    IF e = None THEN None \in consent
    ELSE e.mine <= t.mine /\ (e.theirs <= t.theirs \/ e.theirs \in consent)

\* The save on the wire holds all that was sent so far, and what was not touched since.
\* An answer that bears an id of this tab is about something it sent.
Wired(q, m) ==
    /\ Upto(q.job.text, q.text) /\ Covers(q.job.text, q.job.etag, q.consent)
    /\ m <= q.job.text.mine
    /\ ~q.touched => q.text.mine <= q.job.text.mine
    /\ q.landed => q.job.text.mine <= m
    /\ q.job.answer # None =>
         /\ q.job.answer.saveId \in Nat => Upto(q.job.answer.etag, q.job.text)
         /\ q.job.stage = "sent" /\ q.job.answer.ok => q.job.answer.saveId \in Nat

Read(q, m) ==
    /\ m <= q.text.mine /\ q.saved.mine <= m /\ (q.dirty \/ q.text.mine <= m)
    /\ Covers(q.text, q.stamp, q.consent)
    /\ q.seeding # None /\ q.seeding.etag # None => q.seeding.etag.mine <= q.text.mine
    /\ q.job # None => Wired(q, m)
    /\ q.out # None => Covers(q.out.text, q.out.etag, q.consent)

\* y reads what x does, and its page is as sound.
Reads(y, x) ==
    /\ y.text = x.text /\ y.consent = x.consent
    /\ \A m \in Nat : Read(x, m) => Read(y, m)

SameReading(y, x) ==
    /\ y.text = x.text /\ y.saved = x.saved /\ y.stamp = x.stamp /\ y.seeding = x.seeding
    /\ y.dirty = x.dirty /\ y.touched = x.touched /\ y.consent = x.consent

-----------------------------------------------------------------------------
(* What an operator from pages to pages keeps of the page it is given.     *)

\* y sends nothing that x did not; or x had no save on the wire, and y has one.
Carries(y, x) == y.job = x.job /\ y.out = x.out /\ y.ids = x.ids /\ y.landed = x.landed

Sends(y, x) ==
    /\ x.job = None /\ x.out = None
    /\ y.job # None /\ y.ids = x.ids + 1 /\ y.job.id = y.ids /\ y.job.text = y.text

Goes(y, x) == Carries(y, x) \/ Sends(y, x)

Keeps(y, x) == Lane(y) /\ Goes(y, x) /\ Reads(y, x) /\ (Counted(x) => Counted(y))

\* y is x with other memories: neither the lane, nor what it reads, nor a hold changes.
Inert(y, x) ==
    /\ Page(y) /\ Carries(y, x) /\ SameReading(y, x) /\ y.missing = x.missing
    /\ y.wire = x.wire /\ y.conflictHold = x.conflictHold
    /\ y.autosaveSuspended = x.autosaveSuspended

LEMMA SameReads ==
    ASSUME NEW x, NEW y, SameReading(y, x), Carries(y, x)
    PROVE  Reads(y, x)
  BY DEF SameReading, Carries, Reads, Read, Wired

LEMMA GoesOn ==
    ASSUME NEW x, NEW y, NEW z, Lane(y), Reads(z, y), Goes(y, x), Goes(z, y)
    PROVE  Goes(z, x)
  BY DEF Goes, Carries, Sends, Reads

LEMMA InertKeeps ==
    ASSUME NEW x, NEW y, Lane(x), Inert(y, x)
    PROVE  Keeps(y, x)
  <1>1. Reads(y, x)
    BY SameReads DEF Inert
  <1> QED BY <1>1 DEF Inert, Keeps, Lane, Carries, Goes, Counted, Holds

LEMMA KeepsOn ==
    ASSUME NEW x, NEW y, NEW z, Keeps(y, x), Keeps(z, y)
    PROVE  Keeps(z, x)
  <1>1. Reads(z, x)
    BY DEF Keeps, Reads
  <1> QED BY <1>1, GoesOn DEF Keeps

LEMMA KeepsItself == ASSUME NEW x, Lane(x) PROVE Keeps(x, x)
  BY DEF Keeps, Goes, Carries, Reads

-----------------------------------------------------------------------------
(* The ways to save.                                                       *)

LEMMA SendKeeps ==
    ASSUME NEW q, Lane(q), q.job = None, NEW auto \in BOOLEAN
    PROVE  Keeps(Send(q, auto), q)
  <1> DEFINE job == [id |-> q.ids + 1, etag |-> q.stamp, text |-> q.text, auto |-> auto,
                     resent |-> FALSE, resolved |-> FALSE, stage |-> "sent", answer |-> None]
             out == [id |-> q.ids + 1, etag |-> q.stamp, text |-> q.text, live |-> TRUE]
             y   == Send(q, auto)
  <1>1. Page(q) /\ q.out = None
    BY DEF Lane
  <1>2. job \in Jobs /\ out \in Requests
    BY <1>1 DEF Page, Jobs, Requests, OrNone
  <1>3. job # None /\ out # None
    BY <1>2, SaveAssumption
  <1>4. Fits(out, job) /\ ~Proves(job) /\ job.id = q.ids + 1
    BY DEF Fits, Proves
  <1>5. y = [q EXCEPT !.ids = q.ids + 1, !.touched = FALSE, !.landed = FALSE,
                      !.broke = q.broke \/ (auto /\ q.autosaveSuspended > 0),
                      !.job = job, !.out = out]
    BY <1>1 DEF Send, Post, Page, Fields
  <1> HIDE DEF job, out, y
  <1>6. Page(y) /\ y.job = job /\ y.out = out /\ y.ids = q.ids + 1
    BY <1>1, <1>2, <1>5 DEF Page, Fields, OrNone
  <1>7. /\ y.missing = q.missing /\ y.wire = q.wire /\ y.conflictHold = q.conflictHold
        /\ y.autosaveSuspended = q.autosaveSuspended
    BY <1>1, <1>5 DEF Page, Fields
  <1>8. Lane(y)
    <2>1. q.ids \in Nat
      BY <1>1 DEF Page
    <2> QED BY <2>1, <1>3, <1>4, <1>6, <1>7 DEF Lane
  <1>9. /\ job.text = q.text /\ job.etag = q.stamp /\ job.answer = None
        /\ out.text = q.text /\ out.etag = q.stamp
    BY DEF job, out
  <1>10. /\ y.text = q.text /\ y.saved = q.saved /\ y.stamp = q.stamp /\ y.consent = q.consent
         /\ y.seeding = q.seeding /\ y.dirty = q.dirty /\ y.landed = FALSE
    BY <1>1, <1>5 DEF Page, Fields
  <1>11. Reads(y, q)
    <2>1. q.text.mine \in Nat /\ q.text.theirs \in Nat
      BY <1>1 DEF Page, Texts
    <2>2. ASSUME NEW m \in Nat, Read(q, m)
          PROVE  Read(y, m)
      BY <1>3, <1>6, <1>9, <1>10, <2>1, <2>2 DEF Read, Wired, Upto
    <2> QED BY <1>10, <2>2 DEF Reads
  <1>12. Goes(y, q)
    BY <1>1, <1>3, <1>4, <1>6, <1>9, <1>10 DEF Goes, Sends
  <1> QED BY <1>7, <1>8, <1>11, <1>12 DEF Keeps, Counted, Holds, y

\* A page that reads as saved is clean, and so is the file as far as this tab goes.
LEMMA NothingKeeps ==
    ASSUME NEW q, Lane(q), q.text = q.saved
    PROVE  Keeps(NothingToSave(q), q)
  <1> DEFINE y == NothingToSave(q)
  <1>1. /\ Page(y) /\ Carries(y, q) /\ y.missing = q.missing /\ y.wire = q.wire
        /\ y.conflictHold = q.conflictHold /\ y.autosaveSuspended = q.autosaveSuspended
    BY DEF Lane, Page, Fields, Carries, NothingToSave
  <1>2. /\ y.text = q.text /\ y.saved = q.saved /\ y.stamp = q.stamp /\ y.seeding = q.seeding
        /\ y.touched = q.touched /\ y.consent = q.consent
    BY DEF Lane, Page, Fields, NothingToSave
  <1> HIDE DEF y
  <1>3. Reads(y, q)
    BY <1>1, <1>2 DEF Reads, Read, Wired, Carries
  <1> QED BY <1>1, <1>3 DEF Keeps, Lane, Goes, Carries, Counted, Holds, y

LEMMA SessionClosedInert ==
    ASSUME NEW q, Lane(q)
    PROVE  Keeps(SessionClosed(q), q)
  <1>1. Inert(SessionClosed(q), q)
    BY DEF Lane, Inert, SameReading, Page, Fields, Carries, SessionClosed
  <1> QED BY <1>1, InertKeeps

LEMMA ExplicitKeeps ==
    ASSUME NEW q, Lane(q), NEW permitted \in BOOLEAN
    PROVE  Keeps(Explicit(q, permitted), q)
  <1>1. Inert([q EXCEPT !.previewMissed = TRUE], q)
    BY DEF Lane, Inert, SameReading, Page, Fields, Carries
  <1>2. Inert([q EXCEPT !.pendingSave = TRUE], q)
    BY DEF Lane, Inert, SameReading, Page, Fields, Carries
  <1>3. q.text = q.saved => Keeps(NothingToSave(q), q)
    BY NothingKeeps
  <1>4. ~InProgress(q) => Keeps(Send(q, FALSE), q)
    BY SendKeeps DEF InProgress
  <1> QED BY <1>1, <1>2, <1>3, <1>4, InertKeeps, SessionClosedInert DEF Explicit

LEMMA AutomaticKeeps ==
    ASSUME NEW q, Lane(q)
    PROVE  Keeps(Automatic(q), q)
  <1> DEFINE c == [q EXCEPT !.parkedAutosave = TRUE]
  <1>1. Inert(c, q)
    BY DEF Lane, Inert, SameReading, Page, Fields, Carries
  <1>2. Keeps(SessionClosed(c), q)
    BY <1>1, InertKeeps, SessionClosedInert, KeepsOn DEF Keeps
  <1>3. Inert([q EXCEPT !.previewAutosaveMissed = TRUE], q)
    BY DEF Lane, Inert, SameReading, Page, Fields, Carries
  <1>4. Inert([q EXCEPT !.pendingAutosave = TRUE], q)
    BY DEF Lane, Inert, SameReading, Page, Fields, Carries
  <1>5. q.text = q.saved => Keeps(NothingToSave(q), q)
    BY NothingKeeps
  <1>6. ~InProgress(q) => Keeps(Send(q, TRUE), q)
    BY SendKeeps DEF InProgress
  <1> QED BY <1>2, <1>3, <1>4, <1>5, <1>6, InertKeeps, KeepsItself DEF Automatic

LEMMA ForceKeeps ==
    ASSUME NEW q, Lane(q)
    PROVE  Keeps(SavePageForce(q), q)
  <1>1. Inert([q EXCEPT !.previewMissed = TRUE], q)
    BY DEF Lane, Inert, SameReading, Page, Fields, Carries
  <1>2. Inert([q EXCEPT !.pendingSave = TRUE], q)
    BY DEF Lane, Inert, SameReading, Page, Fields, Carries
  <1>3. ~InProgress(q) => Keeps(Send(q, FALSE), q)
    BY SendKeeps DEF InProgress
  <1> QED BY <1>1, <1>2, <1>3, InertKeeps, SessionClosedInert DEF SavePageForce

LEMMA ThrottledKeeps ==
    ASSUME NEW q, Lane(q)
    PROVE  Keeps(Throttled(q), q)
  <1> DEFINE c == [q EXCEPT !.parkedAutosave = TRUE]
             w == [q EXCEPT !.recent = TRUE]
  <1>1. Inert(c, q) /\ Inert(w, q)
    BY DEF Lane, Inert, SameReading, Page, Fields, Carries
  <1>2. Keeps(SessionClosed(c), q)
    BY <1>1, InertKeeps, SessionClosedInert, KeepsOn DEF Keeps
  <1>3. Keeps(Automatic(w), q)
    BY <1>1, InertKeeps, AutomaticKeeps, KeepsOn DEF Keeps
  <1>4. Inert([q EXCEPT !.previewAutosaveMissed = TRUE], q)
    BY DEF Lane, Inert, SameReading, Page, Fields, Carries
  <1>5. Inert([q EXCEPT !.autosaveMissed = TRUE], q)
    BY DEF Lane, Inert, SameReading, Page, Fields, Carries
  <1>6. Inert([q EXCEPT !.pendingAutosave = TRUE], q)
    BY DEF Lane, Inert, SameReading, Page, Fields, Carries
  <1>7. Inert([q EXCEPT !.trail = TRUE], q)
    BY DEF Lane, Inert, SameReading, Page, Fields, Carries
  <1> QED BY <1>2, <1>3, <1>4, <1>5, <1>6, <1>7, InertKeeps DEF Throttled

-----------------------------------------------------------------------------
(* The holds. A page about to give one up counts one suspension too many.  *)

LEMMA ResumeCounts ==
    ASSUME NEW q, Lane(q), q.autosaveSuspended = Holds(q) + 1
    PROVE  /\ Lane(ResumeAutosave(q)) /\ Goes(ResumeAutosave(q), q)
           /\ Reads(ResumeAutosave(q), q) /\ Counted(ResumeAutosave(q))
  <1> DEFINE r == [q EXCEPT !.autosaveSuspended = @ - 1]
             s == [r EXCEPT !.soon = IF @ = "deferred" THEN "armed" ELSE @,
                            !.autosaveMissed = FALSE]
  <1>1. Page(q) /\ Holds(q) \in Nat /\ q.autosaveSuspended # 0
    BY DEF Lane, Page, Holds
  <1>2. Page(r) /\ Carries(r, q) /\ Counted(r) /\ r.missing = q.missing
    BY <1>1 DEF Page, Fields, Carries, Counted, Holds
  <1>3. SameReading(r, q)
    BY <1>1 DEF Page, Fields, SameReading
  <1>4. Lane(r) /\ Goes(r, q) /\ Reads(r, q)
    BY <1>2, <1>3, SameReads DEF Lane, Goes, Carries
  <1> HIDE DEF r
  <1>5. Inert(s, r)
    BY <1>2 DEF Inert, SameReading, Page, Fields, Carries
  <1>6. Keeps(s, r)
    BY <1>4, <1>5, InertKeeps
  <1>7. Keeps(Throttled(s), s)
    BY <1>6, ThrottledKeeps DEF Keeps
  <1>8. Keeps(Throttled(s), r)
    BY <1>6, <1>7, KeepsOn
  <1>9. ASSUME NEW y, Keeps(y, r)
        PROVE  Lane(y) /\ Goes(y, q) /\ Reads(y, q) /\ Counted(y)
    <2>1. Reads(y, q)
      BY <1>4, <1>9 DEF Keeps, Reads
    <2> QED BY <1>2, <1>4, <1>9, <2>1, GoesOn DEF Keeps
  <1>10. ResumeAutosave(q) \in {r, s, Throttled(s)}
    BY <1>1 DEF ResumeAutosave, r
  <1> QED BY <1>2, <1>4, <1>6, <1>8, <1>9, <1>10

LEMMA ReleaseKeeps ==
    ASSUME NEW q, Lane(q), Counted(q)
    PROVE  Keeps(ReleaseConflictHold(q), q)
  <1> DEFINE r == [q EXCEPT !.conflictHold = FALSE, !.conflictEtag = None]
  <1>1. Page(r) /\ Carries(r, q) /\ SameReading(r, q) /\ r.missing = q.missing
    BY DEF Lane, Page, Fields, Carries, SameReading
  <1>2. Lane(r) /\ Goes(r, q) /\ Reads(r, q)
    BY <1>1, SameReads DEF Lane, Goes, Carries
  <1>3. ASSUME q.conflictHold PROVE r.autosaveSuspended = Holds(r) + 1
    BY <1>3 DEF Lane, Page, Fields, Counted, Holds
  <1> HIDE DEF r
  <1>4. ASSUME q.conflictHold PROVE Keeps(ResumeAutosave(r), q)
    <2> DEFINE y == ResumeAutosave(r)
    <2>1. Lane(y) /\ Goes(y, r) /\ Reads(y, r) /\ Counted(y)
      BY <1>2, <1>3, <1>4, ResumeCounts
    <2> HIDE DEF y
    <2>2. Reads(y, q)
      BY <1>2, <2>1 DEF Reads
    <2> QED BY <1>2, <2>1, <2>2, GoesOn DEF Keeps, y
  <1> QED BY <1>4, KeepsItself DEF ReleaseConflictHold, r

LEMMA ResolvedKeeps ==
    ASSUME NEW q, Lane(q), Counted(q), NEW etag
    PROVE  Keeps(ConflictResolvedBySync(q, etag), q)
  BY ReleaseKeeps, KeepsItself DEF ConflictResolvedBySync

LEMMA HoldKeeps ==
    ASSUME NEW q, Lane(q), Counted(q), NEW etag
    PROVE  Keeps(HoldForConflict(q, etag), q)
  <1> DEFINE y == HoldForConflict(q, etag)
  <1>1. Page(y) /\ Carries(y, q) /\ SameReading(y, q) /\ y.missing = q.missing
    BY DEF Lane, Page, Fields, Carries, SameReading, HoldForConflict
  <1>2. Lane(y) /\ Goes(y, q) /\ Reads(y, q)
    BY <1>1, SameReads DEF Lane, Goes, Carries
  <1>3. Counted(y)
    BY DEF Lane, Page, Fields, Counted, Holds, HoldForConflict
  <1> QED BY <1>2, <1>3 DEF Keeps

-----------------------------------------------------------------------------
(* The end of a save.                                                      *)

LEMMA DrainKeeps ==
    ASSUME NEW q, Lane(q)
    PROVE  Keeps(DrainPendingSave(q), q)
  <1> DEFINE c == [q EXCEPT !.pendingSave = FALSE, !.pendingAutosave = FALSE]
             d == [q EXCEPT !.pendingAutosave = FALSE, !.due = @ \/ q.pendingAutosave]
             e == Explicit(c, FALSE)
  <1>1. Inert(c, q)
    BY DEF Lane, Inert, SameReading, Page, Fields, Carries
  <1>2. Inert(d, q)
    BY DEF Lane, Inert, SameReading, Page, Fields, Carries
  <1> HIDE DEF c, d
  <1>3. Keeps(c, q) /\ Keeps(d, q)
    BY <1>1, <1>2, InertKeeps
  <1>4. Keeps(e, c)
    BY <1>3, ExplicitKeeps DEF Keeps
  <1>5. DrainPendingSave(q) \in {q, e, d}
    BY DEF DrainPendingSave, c, d
  <1> HIDE DEF e
  <1>6. Keeps(e, q)
    BY <1>3, <1>4, KeepsOn
  <1>7. Keeps(q, q)
    BY KeepsItself
  <1> QED BY <1>3, <1>5, <1>6, <1>7

\* The lane is given up: y has no save on the wire, and the holds are x's.
Frees(y, x) ==
    /\ Lane(y) /\ y.job = None /\ y.out = None /\ y.ids = x.ids /\ Reads(y, x)
    /\ Counted(x) => Counted(y)

\* The save on the wire ended: nothing is on the wire any more, or a new save is.
Ends(y, x) ==
    /\ Lane(y) /\ Reads(y, x) /\ (Counted(x) => Counted(y))
    /\ y.ids >= x.ids
    /\ \/ y.job = None /\ y.out = None
       \/ y.job # None /\ y.job.id > x.ids /\ y.job.text = y.text

LEMMA FreesEnds ==
    ASSUME NEW x, NEW y, NEW z, Lane(x), Frees(y, x), Keeps(z, y)
    PROVE  Ends(z, x)
  <1>1. Reads(z, x)
    BY DEF Frees, Keeps, Reads
  <1> QED BY <1>1 DEF Lane, Page, Frees, Keeps, Ends, Goes, Carries, Sends

\* The save that was on the wire accounts for the page as far as it was not touched since.
LEMMA SucceededEnds ==
    ASSUME NEW q, Lane(q), q.out = None, Counted(q), q.job # None, q.landed
    PROVE  Ends(Succeeded(q), q)
  <1> DEFINE f == Free(q)
             r == [f EXCEPT !.parkedWork = FALSE, !.saved = q.job.text, !.failed = FALSE,
                            !.missing = @ \/ ~q.landed]
             s == GateClearIfUnchanged(r)
             t == ReleaseConflictHold(s)
  <1>1. q.job.text \in Texts /\ q.job.text.mine \in Nat
    BY DEF Lane, Page, Jobs, OrNone, Texts
  <1>2. Page(f)
    BY DEF Lane, Page, Fields, Free, OrNone
  <1>3. /\ f.job = None /\ f.out = None /\ f.ids = q.ids /\ ~f.missing
        /\ f.wire = q.wire /\ f.conflictHold = q.conflictHold
        /\ f.autosaveSuspended = q.autosaveSuspended
    BY DEF Lane, Page, Fields, Free
  <1>4. SameReading(f, q)
    BY DEF Lane, Page, Fields, Free, SameReading
  <1> HIDE DEF f
  <1>5. Page(r)
    BY <1>1, <1>2 DEF Page, Fields
  <1>6. /\ r.job = None /\ r.out = None /\ r.ids = q.ids /\ ~r.missing
        /\ r.wire = q.wire /\ r.conflictHold = q.conflictHold
        /\ r.autosaveSuspended = q.autosaveSuspended
    BY <1>2, <1>3 DEF Page, Fields
  <1>7. /\ r.text = q.text /\ r.saved = q.job.text /\ r.stamp = q.stamp
        /\ r.seeding = q.seeding /\ r.dirty = q.dirty /\ r.touched = q.touched
        /\ r.consent = q.consent
    BY <1>2, <1>4 DEF Page, Fields, SameReading
  <1> HIDE DEF r
  <1>8. Page(s)
    BY <1>5 DEF Page, Fields, GateClearIfUnchanged
  <1>9. /\ s.job = None /\ s.out = None /\ s.ids = q.ids /\ ~s.missing
        /\ s.wire = q.wire /\ s.conflictHold = q.conflictHold
        /\ s.autosaveSuspended = q.autosaveSuspended
    BY <1>5, <1>6 DEF Page, Fields, GateClearIfUnchanged
  <1>10. /\ s.text = q.text /\ s.saved = q.job.text /\ s.stamp = q.stamp
         /\ s.seeding = q.seeding /\ (s.dirty <=> q.dirty /\ q.touched)
         /\ s.consent = q.consent
    BY <1>5, <1>7 DEF Page, Fields, GateClearIfUnchanged
  <1> HIDE DEF s
  <1>11. Reads(s, q)
    <2>1. q.text.mine \in Nat
      BY DEF Lane, Page, Texts
    <2>2. ASSUME NEW m \in Nat, Read(q, m)
          PROVE  Read(s, m)
      BY <1>1, <1>9, <1>10, <2>1, <2>2 DEF Read, Wired, Upto
    <2> QED BY <1>10, <2>2 DEF Reads
  <1>12. Frees(s, q) /\ Lane(s) /\ Counted(s)
    BY <1>8, <1>9, <1>11 DEF Frees, Lane, Counted, Holds
  <1>13. Keeps(t, s)
    BY <1>12, ReleaseKeeps
  <1> HIDE DEF t
  <1>14. Keeps(DrainPendingSave(t), t)
    BY <1>13, DrainKeeps DEF Keeps
  <1>15. Keeps(DrainPendingSave(t), s)
    BY <1>13, <1>14, KeepsOn
  <1>16. Succeeded(q) = DrainPendingSave(t)
    BY DEF Succeeded, t, s, r, f
  <1> QED BY <1>12, <1>15, <1>16, FreesEnds

LEMMA FreeFrees ==
    ASSUME NEW q, Lane(q), q.out = None
    PROVE  Frees(Free(q), q)
  <1>1. Page(Free(q))
    BY DEF Lane, Page, Fields, Free, OrNone
  <1>2. Free(q).job = None /\ Free(q).out = None /\ Free(q).ids = q.ids /\ ~Free(q).missing
        /\ Free(q).wire = q.wire /\ Free(q).conflictHold = q.conflictHold
        /\ Free(q).autosaveSuspended = q.autosaveSuspended
    BY DEF Lane, Page, Fields, Free
  <1>3. SameReading(Free(q), q)
    BY DEF Lane, Page, Fields, Free, SameReading
  <1>4. Reads(Free(q), q)
    BY <1>2, <1>3 DEF Reads, Read, SameReading
  <1> QED BY <1>1, <1>2, <1>4 DEF Frees, Lane, Counted, Holds

LEMMA FailedEnds ==
    ASSUME NEW q, Lane(q), q.out = None
    PROVE  Ends(Failed(q), q)
  <1> DEFINE f == Free(q)
             r == [f EXCEPT !.failed = TRUE]
  <1>1. Frees(f, q) /\ Lane(f)
    BY FreeFrees DEF Frees
  <1> HIDE DEF f
  <1>2. Inert(r, f)
    BY <1>1 DEF Lane, Inert, SameReading, Page, Fields, Carries
  <1> HIDE DEF r
  <1>3. Keeps(r, f)
    BY <1>1, <1>2, InertKeeps
  <1>4. Keeps(DrainPendingSave(r), r)
    BY <1>3, DrainKeeps DEF Keeps
  <1>5. Keeps(DrainPendingSave(r), f)
    BY <1>3, <1>4, KeepsOn
  <1>6. Failed(q) = DrainPendingSave(r)
    BY DEF Failed, r, f
  <1> QED BY <1>1, <1>5, <1>6, FreesEnds

LEMMA RefusedEnds ==
    ASSUME NEW q, Lane(q), q.out = None, Counted(q), NEW etag
    PROVE  Ends(Refused(q, etag), q)
  <1> DEFINE f == Free(q)
             h == HoldForConflict(f, etag)
             r == DrainPendingSave(h)
             s == ConflictResolvedBySync(r, etag)
  <1>1. Frees(f, q) /\ Lane(f) /\ Counted(f)
    BY FreeFrees DEF Frees
  <1> HIDE DEF f
  <1>2. Keeps(h, f) /\ Lane(h)
    BY <1>1, HoldKeeps DEF Keeps
  <1> HIDE DEF h
  <1>3. Keeps(r, h)
    BY <1>2, DrainKeeps
  <1>4. Keeps(r, f)
    BY <1>2, <1>3, KeepsOn
  <1> HIDE DEF r
  <1>5. Lane(r) /\ Counted(r)
    BY <1>1, <1>4 DEF Keeps
  <1>6. Keeps(s, r) /\ Lane(s)
    BY <1>5, ResolvedKeeps DEF Keeps
  <1> HIDE DEF s
  <1>7. Keeps(SaveAfterMerge(s, s.dirty), s)
    BY <1>6, ThrottledKeeps, KeepsItself DEF SaveAfterMerge
  <1>8. Keeps(SaveAfterMerge(s, s.dirty), f)
    BY <1>4, <1>6, <1>7, KeepsOn
  <1>9. Refused(q, etag) \in {r, SaveAfterMerge(s, s.dirty)}
    BY DEF Refused, s, r, h, f
  <1> QED BY <1>1, <1>4, <1>8, <1>9, FreesEnds

\* Where a page may go from x in one handler: the save that is on the wire stays the
\* save it is, or a new one takes its place; and nothing it reads is taken back.
Moves(y, x) ==
    /\ Lane(y) /\ (Counted(x) => Counted(y))
    /\ y.ids >= x.ids
    /\ y.job # None =>
         /\ \/ y.job.id > x.ids
            \/ /\ x.job # None /\ y.job.id = x.job.id /\ y.job.text = x.job.text
               /\ x.landed => y.landed
         /\ y.job.text = y.text \/ (x.job # None /\ y.job.text = x.job.text)

LEMMA KeepsMoves ==
    ASSUME NEW x, NEW y, Lane(x), Keeps(y, x)
    PROVE  Moves(y, x)
  BY DEF Lane, Page, Keeps, Moves, Goes, Carries, Sends

LEMMA EndsMoves ==
    ASSUME NEW x, NEW y, Ends(y, x)
    PROVE  Moves(y, x) /\ Reads(y, x)
  BY DEF Ends, Moves

\* A stamp is taken: one that the page's text covers.
LEMMA StampKeeps ==
    ASSUME NEW q, Lane(q), NEW etag \in Texts,
           \A m \in Nat : Read(q, m) => Covers(q.text, etag, q.consent)
    PROVE  Keeps(RecordEtag(q, etag), q)
  <1> DEFINE y == RecordEtag(q, etag)
  <1>1. /\ Page(y) /\ Carries(y, q) /\ y.missing = q.missing /\ y.wire = q.wire
        /\ y.conflictHold = q.conflictHold /\ y.autosaveSuspended = q.autosaveSuspended
    BY DEF Lane, Page, Fields, Carries, RecordEtag, OrNone, Stamps, Seeds
  <1>2. /\ y.text = q.text /\ y.saved = q.saved /\ y.stamp = etag /\ y.dirty = q.dirty
        /\ y.touched = q.touched /\ y.consent = q.consent
    BY DEF Lane, Page, Fields, RecordEtag
  <1>3. y.seeding # None => q.seeding # None /\ y.seeding.etag = q.seeding.etag
    BY DEF Lane, Page, Fields, RecordEtag, OrNone, Seeds
  <1> HIDE DEF y
  <1>4. Reads(y, q)
    BY <1>1, <1>2, <1>3 DEF Reads, Read, Wired, Carries
  <1> QED BY <1>1, <1>4 DEF Keeps, Lane, Goes, Carries, Counted, Holds, y

\* What is taken of an answer that proves a save, or bears an id of this tab, is covered.
LEMMA AnswerCovered ==
    ASSUME NEW q, Lane(q), q.job # None, q.job.answer # None, q.job.answer \in Answers,
           q.job.answer.saveId \in Nat \/ (q.job.stage = "sent" /\ q.job.answer.ok),
           NEW m \in Nat, Read(q, m)
    PROVE  /\ Covers(q.job.text, q.job.answer.etag, q.consent)
           /\ Covers(q.text, q.job.answer.etag, q.consent)
  <1>1. Upto(q.job.answer.etag, q.job.text) /\ Upto(q.job.text, q.text)
    BY DEF Read, Wired
  <1>2. q.job.answer.etag \in Texts /\ q.job.text \in Texts /\ q.text \in Texts
    BY DEF Lane, Page, OrNone, Jobs, Answers
  <1>3. q.job.answer.etag # None
    BY <1>2, SaveAssumption
  <1> QED BY <1>1, <1>2, <1>3 DEF Upto, Covers, Texts

LEMMA TookOkEnds ==
    ASSUME NEW q, Lane(q), q.out = None, Counted(q), q.job # None, q.landed,
           q.job.answer # None, q.job.answer \in Answers,
           q.job.answer.saveId \in Nat \/ (q.job.stage = "sent" /\ q.job.answer.ok)
    PROVE  Ends(TookOk(q), q)
  <1> DEFINE e == RecordEtag(q, q.job.answer.etag)
             r == [e EXCEPT !.unknown = None]
  <1>1. Keeps(e, q) /\ Lane(e)
    BY AnswerCovered, StampKeeps DEF Answers, Keeps
  <1>2. e.job = q.job /\ e.out = None /\ e.ids = q.ids /\ e.landed
    BY DEF Lane, Page, Fields, RecordEtag
  <1> HIDE DEF e
  <1>3. Inert(r, e)
    BY <1>1 DEF Lane, Inert, SameReading, Page, Fields, Carries
  <1> HIDE DEF r
  <1>4. Keeps(r, e)
    BY <1>1, <1>3, InertKeeps
  <1>5. Lane(r) /\ Counted(r) /\ r.job # None /\ r.out = None /\ r.landed /\ r.ids = q.ids
    BY <1>1, <1>2, <1>3, <1>4 DEF Keeps, Inert, Carries
  <1>6. Ends(Succeeded(r), r)
    BY <1>5, SucceededEnds
  <1>7. TookOk(q) = Succeeded(r)
    BY DEF TookOk, r, e
  <1>8. Reads(Succeeded(r), q)
    BY <1>1, <1>4, <1>6 DEF Ends, Keeps, Reads
  <1> QED BY <1>5, <1>6, <1>7, <1>8 DEF Ends

LEMMA LateDuplicateMoves ==
    ASSUME NEW q, Lane(q), q.out = None, q.job # None, q.job.answer # None,
           q.job.answer \in Answers, SentByThisTab(q, q.job.answer.saveId)
    PROVE  Moves(LateDuplicate(q), q) /\ Reads(LateDuplicate(q), q)
  <1> DEFINE e   == RecordEtag(q, q.job.answer.etag)
             n   == q.ids + 1
             job == [q.job EXCEPT !.etag = e.stamp, !.id = n, !.resolved = TRUE,
                                  !.stage = "sent", !.answer = None]
             out == [id |-> n, etag |-> e.stamp, text |-> q.job.text, live |-> TRUE]
             y   == LateDuplicate(q)
  <1>0. \A m \in Nat : Read(q, m) =>
          /\ Covers(q.job.text, q.job.answer.etag, q.consent)
          /\ Covers(q.text, q.job.answer.etag, q.consent)
    BY AnswerCovered DEF SentByThisTab, Lane, Page
  <1>1. Lane(e) /\ (Counted(q) => Counted(e)) /\ Reads(e, q)
    BY <1>0, StampKeeps DEF Answers, Keeps
  <1>2. /\ e.job = q.job /\ e.out = None /\ e.ids = q.ids /\ e.landed = q.landed
        /\ e.stamp = q.job.answer.etag
    BY DEF Lane, Page, Fields, RecordEtag
  <1>3. y = [e EXCEPT !.unknown = None, !.ids = n, !.job = job, !.out = out]
    BY <1>1, <1>2 DEF LateDuplicate, Post, Lane, Page, Fields
  <1> HIDE DEF e
  <1>4. q.job \in Jobs /\ e.stamp \in Stamps /\ n \in Nat /\ q.ids \in Nat
    BY <1>1 DEF Lane, Page, OrNone
  <1>5. job \in Jobs /\ out \in Requests
    BY <1>4 DEF Jobs, Requests, OrNone
  <1>6. job # None /\ out # None
    BY <1>5, SaveAssumption
  <1>7. Fits(out, job) /\ ~Proves(job) /\ job.id = n
    BY <1>4 DEF Fits, Proves, Jobs
  <1>8. n = q.ids + 1 /\ out.text = q.job.text /\ out.etag = e.stamp
    OBVIOUS
  <1>9. /\ job.text = q.job.text /\ job.etag = e.stamp /\ job.answer = None
    BY <1>4 DEF Jobs
  <1> HIDE DEF job, out, y, n
  <1>10. /\ Page(y) /\ y.job = job /\ y.out = out /\ y.ids = n
         /\ y.landed = e.landed /\ SameReading(y, e)
    BY <1>1, <1>3, <1>4, <1>5 DEF Lane, Page, Fields, OrNone, SameReading
  <1>11. /\ y.missing = e.missing /\ y.wire = e.wire /\ y.conflictHold = e.conflictHold
         /\ y.autosaveSuspended = e.autosaveSuspended
    BY <1>1, <1>3 DEF Lane, Page, Fields
  <1>12. Lane(y) /\ (Counted(q) => Counted(y))
    BY <1>1, <1>4, <1>6, <1>7, <1>8, <1>10, <1>11 DEF Lane, Counted, Holds
  <1>13. Reads(y, q)
    <2>1. ASSUME NEW m \in Nat, Read(q, m)
          PROVE  Read(y, m)
      <3>1. Read(e, m) /\ Covers(job.text, job.etag, q.consent) /\ e.consent = q.consent
        BY <1>0, <1>1, <1>2, <1>9, <2>1 DEF Reads
      <3>2. Wired(y, m)
        BY <1>2, <1>9, <1>10, <3>1 DEF Read, Wired, SameReading
      <3> QED BY <1>2, <1>8, <1>9, <1>10, <3>1, <3>2 DEF Read, SameReading
    <2> QED BY <1>1, <1>10, <2>1 DEF Reads, SameReading
  <1> QED BY <1>4, <1>6, <1>7, <1>8, <1>9, <1>10, <1>12, <1>13 DEF Moves, y

LEMMA ResendMoves ==
    ASSUME NEW q, Lane(q), q.out = None, q.job # None
    PROVE  Moves(Resend(q), q) /\ Reads(Resend(q), q)
  <1> DEFINE r   == NotOurs(q)
             job == [q.job EXCEPT !.resent = TRUE, !.stage = "sent", !.answer = None]
             out == [id |-> q.job.id, etag |-> q.job.etag, text |-> q.job.text, live |-> TRUE]
             y   == Resend(q)
  <1>1. Inert(r, q)
    BY DEF NotOurs, Lane, Inert, SameReading, Page, Fields, Carries
  <1>2. Lane(r) /\ (Counted(q) => Counted(r)) /\ r.job = q.job /\ r.ids = q.ids
        /\ r.landed = q.landed /\ SameReading(r, q)
    BY <1>1, InertKeeps DEF Keeps, Inert, Carries
  <1>3. q.job \in Jobs /\ q.ids \in Nat /\ q.job.id \in 1 .. q.ids
    BY DEF Lane, Page, OrNone
  <1>4. job \in Jobs /\ out \in Requests
    BY <1>3 DEF Jobs, Requests, OrNone
  <1>5. job # None /\ out # None
    BY <1>4, SaveAssumption
  <1>6. /\ Fits(out, job) /\ ~Proves(job) /\ job.id = q.job.id /\ job.text = q.job.text
        /\ job.etag = q.job.etag /\ job.answer = None
        /\ out.text = q.job.text /\ out.etag = q.job.etag
    BY <1>3 DEF Fits, Proves, Jobs
  <1>7. y = [r EXCEPT !.job = job, !.out = out]
    <2>1. /\ [r EXCEPT !.job = job].job = job
          /\ [[r EXCEPT !.job = job] EXCEPT !.out = out] = [r EXCEPT !.job = job, !.out = out]
      BY <1>2 DEF Lane, Page, Fields
    <2>2. job.id = q.job.id /\ job.etag = q.job.etag /\ job.text = q.job.text
      BY <1>3 DEF Jobs
    <2> QED BY <1>2, <2>1, <2>2 DEF Resend, Post
  <1> HIDE DEF r, job, out, y
  <1>8. /\ Page(y) /\ y.job = job /\ y.out = out /\ y.ids = q.ids /\ y.landed = q.landed
        /\ SameReading(y, q)
    BY <1>2, <1>4, <1>7 DEF Lane, Page, Fields, OrNone, SameReading
  <1>9. /\ y.missing = r.missing /\ y.wire = r.wire /\ y.conflictHold = r.conflictHold
        /\ y.autosaveSuspended = r.autosaveSuspended
    BY <1>2, <1>7 DEF Lane, Page, Fields
  <1>10. Lane(y) /\ (Counted(q) => Counted(y))
    BY <1>2, <1>3, <1>5, <1>6, <1>8, <1>9 DEF Lane, Counted, Holds
  <1>11. Reads(y, q)
    BY <1>6, <1>8 DEF Reads, Read, Wired, SameReading
  <1> QED BY <1>3, <1>6, <1>8, <1>10, <1>11 DEF Moves, y

\* A save that has no stamp to be sent again under is given up.
LEMMA GivenUpMoves ==
    ASSUME NEW q, Lane(q), q.out = None
    PROVE  Moves(Failed(NotOurs(q)), q) /\ Reads(Failed(NotOurs(q)), q)
  <1> DEFINE r == NotOurs(q)
             y == Failed(r)
  <1>1. Inert(r, q)
    BY DEF NotOurs, Lane, Inert, SameReading, Page, Fields, Carries
  <1>2. Keeps(r, q)
    BY <1>1, InertKeeps
  <1>3. Lane(r) /\ r.out = None /\ r.ids = q.ids
    BY <1>1, <1>2 DEF Keeps, Inert, Carries
  <1> HIDE DEF r
  <1>4. Ends(y, r)
    BY <1>3, FailedEnds
  <1> HIDE DEF y
  <1>5. Ends(y, q)
    BY <1>2, <1>3, <1>4 DEF Ends, Keeps, Reads
  <1> QED BY <1>5, EndsMoves DEF y, r

\* What the page makes of an answer: of the host's, and of what it asked for.
LEMMA AnswerMoves ==
    ASSUME NEW q, Lane(q), q.out = None, Counted(q), q.job # None, q.job.answer # None
    PROVE  LET y == IF q.job.stage = "sent" THEN Answered(q) ELSE Recovered(q)
           IN  Moves(y, q) /\ Reads(y, q)
  <1>1. q.job.answer \in Answers
    BY DEF Lane, Page, Jobs, OrNone
  <1>2. CASE q.job.stage = "sent"
    <2>1. q.job.answer.ok => Ends(TookOk(q), q)
      BY <1>1, <1>2, TookOkEnds DEF Lane, Proves
    <2>2. SentByThisTab(q, q.job.answer.saveId) =>
            Moves(LateDuplicate(q), q) /\ Reads(LateDuplicate(q), q)
      BY <1>1, LateDuplicateMoves
    <2>3. Ends(Refused(q, q.job.answer.etag), q)
      BY RefusedEnds
    <2> QED BY <1>2, <2>1, <2>2, <2>3, EndsMoves DEF Answered
  <1>3. CASE q.job.stage # "sent"
    <2>1. Landed(q) => Ends(TookOk(q), q)
      <3>1. q.job.id \in Nat
        BY DEF Lane, Page, Jobs, OrNone
      <3> QED BY <1>1, <1>3, <3>1, TookOkEnds DEF Lane, Proves, Landed
    <2>2. Moves(Resend(q), q) /\ Reads(Resend(q), q)
      BY ResendMoves
    <2>3. Moves(Failed(NotOurs(q)), q) /\ Reads(Failed(NotOurs(q)), q)
      BY GivenUpMoves
    <2> QED BY <1>3, <2>1, <2>2, <2>3, EndsMoves DEF Recovered
  <1> QED BY <1>2, <1>3

-----------------------------------------------------------------------------
(* The requests on their way, and what the host has, as far as the page's  *)
(* save is concerned: only the newest request is waited for, every request *)
(* that carries the Save-ID of that save carries its bytes, and if the     *)
(* host has that Save-ID it stored them.                                   *)

NetOf(n, q, f) ==
    /\ \A r \in n :
         /\ r \in Requests /\ r.id \in 1 .. q.ids
         /\ q.job # None /\ r.id = q.job.id => r.text = q.job.text
         /\ r.live => q.job # None /\ Fits(r, q.job)
    /\ \A r, s \in n : r.live /\ s.live => r = s
    /\ f.id \in Nat => f.id \in 1 .. q.ids /\ (q.job # None /\ f.id = q.job.id => q.landed)

\* Nothing that was sent reads more than the page does, or than its save on the wire.
Within(t, q) == Upto(t, q.text) /\ (q.job # None => Upto(t, q.job.text))

\* No request reads more than the page, or takes more from the file it is for than a
\* person chose.
NetReads(n, q, f) ==
    /\ \A r \in n : Within(r.text, q) /\ Covers(r.text, r.etag, q.consent)
    /\ f.id \in Nat => Within(f.text, q)

Files == [text : Texts, id : Nat \cup {None, Stranger}]

\* A frame on its way is about the file as it is.
World ==
    /\ file \in Files /\ made \in 0 .. MaxOthers /\ frame \in OrNone(Texts)
    /\ rewound \/ file.text.theirs <= made
    /\ frame # None => frame = file.text /\ frame.theirs <= made

\* And the page has not seen it.
Behind == p.text.theirs <= made /\ (frame # None => p.text.theirs < frame.theirs)

\* The page and the requests on their way are sound; and until a save without a stamp,
\* which is one a person chose, takes back an edit, so is what they read over the file.
Sound(n, q) ==
    /\ Lane(q) /\ q.out = None /\ Counted(q) /\ NetOf(n, q, file)
    /\ rewound => None \in q.consent
    /\ rewound \/ (Read(q, file.text.mine) /\ NetReads(n, q, file))

SaveInv == World /\ Behind /\ Sound(net, p)

\* y has taken nothing back of x, and its page is sound over the file.
Grows(y, x) ==
    /\ x.consent \subseteq y.consent
    /\ rewound \/ (Upto(x.text, y.text) /\ Read(y, file.text.mine))

LEMMA ReadsGrows ==
    ASSUME SaveInv, NEW y, Reads(y, p)
    PROVE  Grows(y, p)
  BY DEF SaveInv, World, Files, Sound, Lane, Page, Texts, Reads, Grows, Upto

LEMMA AbandonedNet ==
    ASSUME NEW q, NetOf(net, q, file)
    PROVE  /\ NetOf(Abandoned, q, file) /\ \A r \in Abandoned : ~r.live
           /\ NetReads(net, q, file) => NetReads(Abandoned, q, file)
  <1>1. \A r \in Abandoned :
           /\ r \in Requests /\ ~r.live
           /\ \E s \in net : r.id = s.id /\ r.text = s.text /\ r.etag = s.etag
    BY DEF Abandoned, NetOf, Requests
  <1> QED BY <1>1 DEF NetOf, NetReads

LEMMA MovesNet ==
    ASSUME NEW n, NEW x, NEW y, file \in Files, Sound(n, x), Moves(y, x), Grows(y, x),
           (y.job = x.job /\ y.out = None) \/ (\A r \in n : ~r.live)
    PROVE  LET z == [y EXCEPT !.out = None] IN
           Sound(n \cup (IF y.out = None THEN {} ELSE {y.out}), z) /\ z.text = y.text
  <1> DEFINE z == [y EXCEPT !.out = None]
             m == n \cup (IF y.out = None THEN {} ELSE {y.out})
  <1>1. /\ Lane(y) /\ Counted(y) /\ Lane(x) /\ x.out = None /\ NetOf(n, x, file)
        /\ rewound => None \in y.consent
    BY DEF Moves, Sound, Grows
  <1>2. /\ z.out = None /\ z.job = y.job /\ z.ids = y.ids /\ z.landed = y.landed
        /\ z.missing = y.missing /\ z.wire = y.wire /\ z.conflictHold = y.conflictHold
        /\ z.autosaveSuspended = y.autosaveSuspended
    BY <1>1 DEF Lane, Page, Fields
  <1>3. Page(z) /\ SameReading(z, y)
    BY <1>1 DEF Lane, Page, Fields, OrNone, SameReading
  <1> HIDE DEF z
  <1>4. Lane(z) /\ Counted(z)
    BY <1>1, <1>2, <1>3 DEF Lane, Counted, Holds
  <1>5. x.ids \in Nat /\ y.ids \in Nat /\ y.ids >= x.ids
    BY <1>1 DEF Lane, Page, Moves
  <1>6. ASSUME y.out # None
        PROVE  y.out \in Requests /\ y.job # None /\ Fits(y.out, y.job) /\ y.out.id \in 1 .. y.ids
    BY <1>1, <1>6 DEF Lane, Page, OrNone, Fits
  <1>7. ASSUME NEW r \in n
        PROVE  /\ r \in Requests /\ r.id \in 1 .. y.ids
               /\ y.job # None /\ r.id = y.job.id => r.text = y.job.text
               /\ r.live => y.job # None /\ Fits(r, y.job)
    <2>1. r \in Requests /\ r.id \in 1 .. x.ids
      BY <1>1 DEF NetOf
    <2>2. y.job # None /\ r.id = y.job.id => r.text = y.job.text
      BY <1>1, <1>5, <2>1 DEF NetOf, Moves
    <2>3. r.live => y.job # None /\ Fits(r, y.job)
      BY <1>1 DEF NetOf
    <2> QED BY <1>5, <2>1, <2>2, <2>3
  <1>8. \A r \in m :
          /\ r \in Requests /\ r.id \in 1 .. y.ids
          /\ y.job # None /\ r.id = y.job.id => r.text = y.job.text
          /\ r.live => y.job # None /\ Fits(r, y.job)
    BY <1>6, <1>7 DEF Fits
  <1>9. \A r, s \in m : r.live /\ s.live => r = s
    BY <1>1 DEF NetOf
  <1>10. ASSUME file.id \in Nat
         PROVE  file.id \in 1 .. y.ids /\ (y.job # None /\ file.id = y.job.id => y.landed)
    BY <1>1, <1>5, <1>10 DEF NetOf, Moves
  <1>11. ASSUME ~rewound PROVE Read(z, file.text.mine) /\ NetReads(m, z, file)
    <2>1. Read(y, file.text.mine) /\ NetReads(n, x, file)
          /\ Upto(x.text, y.text) /\ x.consent \subseteq y.consent
      BY <1>11 DEF Grows, Sound
    <2>2. Read(z, file.text.mine)
      BY <1>2, <1>3, <2>1 DEF Read, Wired, SameReading
    <2>3. /\ y.job # None => Upto(y.job.text, y.text) /\ y.job.text \in Texts
          /\ y.text \in Texts /\ x.text \in Texts
      BY <1>1, <2>1 DEF Lane, Page, OrNone, Jobs, Read, Wired
    <2>4. ASSUME NEW t \in Texts, Within(t, x) PROVE Within(t, y)
      BY <2>1, <2>3, <2>4 DEF Within, Moves, Upto, Texts
    <2>5. ASSUME NEW r \in n PROVE Within(r.text, y) /\ Covers(r.text, r.etag, y.consent)
      <3>1. r.text \in Texts
        BY <1>1 DEF NetOf, Requests
      <3> QED BY <2>1, <2>4, <3>1 DEF NetReads, Covers
    <2>6. ASSUME y.out # None
          PROVE  Within(y.out.text, y) /\ Covers(y.out.text, y.out.etag, y.consent)
      BY <1>6, <2>1, <2>3, <2>6 DEF Within, Fits, Read, Upto, Texts
    <2>7. file.id \in Nat => Within(file.text, y)
      BY <2>1, <2>4 DEF NetReads, Files
    <2> QED BY <1>2, <1>3, <2>2, <2>5, <2>6, <2>7 DEF NetReads, Within, SameReading
  <1> HIDE DEF m
  <1>12. NetOf(m, z, file)
    BY <1>2, <1>8, <1>9, <1>10 DEF NetOf
  <1> QED BY <1>1, <1>2, <1>3, <1>4, <1>11, <1>12 DEF Sound, z, m, SameReading

\* A handler of the page keeps the invariant: one that leaves the save on the wire
\* alone, and one that acts when nothing on its way is waited for.
LEMMA BecomesKeeps ==
    ASSUME SaveInv, NEW q, Moves(q, p), Grows(q, p), Becomes(q), UNCHANGED <<file, rewound>>,
           (q.job = p.job /\ q.out = None) \/ (\A r \in net : ~r.live)
    PROVE  Sound(net, p)' /\ p'.text = q.text
  <1>1. LET z == [q EXCEPT !.out = None] IN
        Sound(net \cup (IF q.out = None THEN {} ELSE {q.out}), z) /\ z.text = q.text
    BY MovesNet DEF SaveInv, World
  <1>2. net' = net \cup (IF q.out = None THEN {} ELSE {q.out})
    BY DEF Becomes
  <1>3. p' = [q EXCEPT !.out = None]
    BY DEF Becomes
  <1> QED BY <1>1, <1>2, <1>3 DEF Sound

\* x is what a handler first makes of the page, and q what comes of x.
LEMMA HandlerKeeps ==
    ASSUME SaveInv, NEW x, Carries(x, p), Grows(x, p), Counted(x),
           NEW q, Keeps(q, x), Becomes(q), UNCHANGED <<file, rewound>>
    PROVE  Sound(net, p)' /\ p'.text = x.text
  <1>1. Lane(p) /\ p.out = None /\ file.text.mine \in Nat /\ NetOf(net, p, file)
    BY DEF SaveInv, Sound, World, Files, Texts
  <1>2. Moves(q, p)
    BY <1>1 DEF Lane, Page, Keeps, Moves, Goes, Carries, Sends
  <1>3. Grows(q, p) /\ q.text = x.text
    BY <1>1 DEF Keeps, Reads, Grows
  <1>4. (q.job = p.job /\ q.out = None) \/ (\A r \in net : ~r.live)
    BY <1>1 DEF NetOf, Keeps, Goes, Carries, Sends
  <1> QED BY <1>2, <1>3, <1>4, BecomesKeeps

\* A handler that only saves, and keeps what it was given.
LEMMA SaverKeeps ==
    ASSUME SaveInv, NEW q, Keeps(q, p), Becomes(q), UNCHANGED <<file, made, frame, rewound>>
    PROVE  SaveInv'
  <1>1. Carries(p, p) /\ Grows(p, p) /\ Counted(p)
    BY DEF SaveInv, World, Files, Sound, Lane, Page, Texts, Carries, Grows, Upto
  <1>2. Sound(net, p)' /\ p'.text = p.text
    BY <1>1, HandlerKeeps
  <1> QED BY <1>2 DEF SaveInv, World, Behind

-----------------------------------------------------------------------------
(* Every step keeps the invariant.                                         *)

LEMMA InitSave == Init => SaveInv
  <1> SUFFICES ASSUME Init PROVE SaveInv
    OBVIOUS
  <1> DEFINE text == [mine |-> 0, theirs |-> 0]
  <1>1. text \in Texts
    BY SaveAssumption DEF Texts
  <1>2. file = [text |-> text, id |-> None] /\ made = 0 /\ frame = None /\ net = {}
        /\ p = FreshPage(text)
    BY DEF Init
  <1> HIDE DEF text
  <1>3. World /\ text.mine = 0 /\ text.theirs = 0
    BY <1>1, <1>2, SaveAssumption DEF World, Files, OrNone, text
  <1>4. Page(p) /\ p.job = None /\ p.out = None /\ ~p.missing /\ Counted(p)
    BY <1>1, <1>2 DEF FreshPage, Page, Fields, OrNone, Stamps, Counted, Holds
  <1>5. p.text = text /\ p.saved = text /\ p.stamp = text /\ p.seeding = None
    BY <1>2 DEF FreshPage
  <1>9. text # None
    BY <1>1, SaveAssumption
  <1>6. Read(p, file.text.mine) /\ Behind
    BY <1>2, <1>3, <1>4, <1>5, <1>9 DEF Read, Covers, Behind
  <1>7. NetOf(net, p, file) /\ NetReads(net, p, file)
    BY <1>2, <1>4, SaveAssumption DEF NetOf, NetReads
  <1>8. ~rewound
    BY DEF Init
  <1> QED BY <1>3, <1>4, <1>6, <1>7, <1>8 DEF SaveInv, Sound, Lane

\* A keystroke adds to what the page reads, and dirties it.
LEMMA TypingKeeps == SaveInv /\ Edit => SaveInv'
  <1> SUFFICES ASSUME SaveInv, Edit PROVE SaveInv'
    OBVIOUS
  <1> DEFINE t == [p.text EXCEPT !.mine = @ + 1]
             q == [p EXCEPT !.text.mine = @ + 1, !.dirty = TRUE, !.touched = TRUE,
                            !.failed = FALSE, !.due = @ \/ ~p.quiesced]
  <1>1. Lane(p) /\ Counted(p) /\ (rewound \/ Read(p, file.text.mine)) /\ file.text.mine \in Nat
        /\ p.text.mine < MaxEdits /\ MaxEdits \in Nat
    BY SaveAssumption DEF SaveInv, World, Files, Texts, Sound, Edit
  <1>2. t \in Texts /\ t.mine = p.text.mine + 1 /\ t.theirs = p.text.theirs /\ p.text \in Texts
    BY <1>1 DEF Lane, Page, Texts
  <1>3. q = [p EXCEPT !.text = t, !.dirty = TRUE, !.touched = TRUE,
                      !.failed = FALSE, !.due = p.due \/ ~p.quiesced]
    BY <1>1 DEF Lane, Page, Fields
  <1> HIDE DEF q, t
  <1>4. /\ Page(q) /\ Carries(q, p) /\ q.missing = p.missing
        /\ q.text = t /\ q.saved = p.saved /\ q.stamp = p.stamp /\ q.seeding = p.seeding
        /\ q.dirty /\ q.touched /\ q.consent = p.consent
    BY <1>1, <1>2, <1>3 DEF Lane, Page, Fields, Carries
  <1>5. /\ q.wire = p.wire /\ q.conflictHold = p.conflictHold
        /\ q.autosaveSuspended = p.autosaveSuspended
    BY <1>1, <1>3 DEF Lane, Page, Fields
  <1>6. Lane(q) /\ Counted(q)
    BY <1>1, <1>4, <1>5 DEF Lane, Carries, Counted, Holds
  <1>7. Grows(q, p)
    <2> SUFFICES ASSUME ~rewound PROVE Upto(p.text, q.text) /\ Read(q, file.text.mine)
      BY <1>4 DEF Grows
    <2>1. /\ p.saved \in Texts /\ p.stamp \in OrNone(Texts)
          /\ p.job # None => p.job.text \in Texts /\ p.job.etag \in OrNone(Texts)
          /\ p.seeding # None => p.seeding.etag \in OrNone(Texts)
      BY <1>1 DEF Lane, Page, OrNone, Jobs, Seeds, Stamps
    <2>2. p.job # None => Wired(q, file.text.mine)
      BY <1>1, <1>2, <1>4, <2>1 DEF Read, Wired, Upto, Texts, Carries
    <2>3. Covers(q.text, q.stamp, q.consent)
      BY <1>1, <1>2, <1>4, <2>1 DEF Read, Covers, OrNone, Texts
    <2>4. q.seeding # None /\ q.seeding.etag # None => q.seeding.etag.mine <= q.text.mine
      BY <1>1, <1>2, <1>4, <2>1 DEF Read, OrNone, Texts
    <2> QED BY <1>1, <1>2, <1>4, <2>1, <2>2, <2>3, <2>4 DEF Read, Upto, Texts, Carries
  <1>8. Becomes(q) /\ UNCHANGED <<file, made, frame, rewound>>
    BY DEF Edit, q, outside
  <1>9. Keeps(q, q)
    BY <1>6, KeepsItself
  <1>10. Sound(net, p)' /\ p'.text = t
    BY <1>4, <1>6, <1>7, <1>8, <1>9, HandlerKeeps
  <1> QED BY <1>2, <1>8, <1>10 DEF SaveInv, World, Behind

LEMMA SavingKeeps ==
    ASSUME SaveInv, SavePage \/ SavePageSoon \/ FireSoon \/ Fire \/ Trail \/ WindowPasses
    PROVE  SaveInv'
  <1>1. Lane(p) /\ UNCHANGED <<file, made, frame, rewound>>
    BY DEF SaveInv, Sound, SavePage, SavePageSoon, FireSoon, Fire, Trail, WindowPasses,
           Asking, outside
  <1>2. \A q : Keeps(q, p) /\ Becomes(q) => SaveInv'
    BY <1>1, SaverKeeps
  <1>3. CASE SavePage
    BY <1>1, <1>2, <1>3, ExplicitKeeps DEF SavePage
  <1>4. CASE SavePageSoon
    <2>1. Inert([p EXCEPT !.soon = "armed"], p)
      BY <1>1 DEF Lane, Inert, SameReading, Page, Fields, Carries
    <2> QED BY <1>1, <1>2, <1>4, <2>1, InertKeeps DEF SavePageSoon
  <1>5. CASE FireSoon
    <2> DEFINE d == [p EXCEPT !.soon = "deferred"]
               n == [p EXCEPT !.soon = None]
    <2>1. Inert(d, p) /\ Inert(n, p)
      BY <1>1 DEF Lane, Inert, SameReading, Page, Fields, Carries
    <2> HIDE DEF d, n
    <2>2. Keeps(d, p) /\ Keeps(n, p)
      BY <1>1, <2>1, InertKeeps
    <2>3. Keeps(Explicit(n, FALSE), n)
      BY <2>2, ExplicitKeeps DEF Keeps
    <2>4. Keeps(Explicit(n, FALSE), p)
      BY <2>2, <2>3, KeepsOn
    <2>5. Becomes(d) \/ Becomes(Explicit(n, FALSE))
      BY <1>5 DEF FireSoon, d, n
    <2> QED BY <1>2, <2>2, <2>4, <2>5
  <1>6. CASE Fire
    <2> DEFINE d == [p EXCEPT !.due = FALSE]
               t == Throttled(d)
               q == [t EXCEPT !.running = IF t.out # None THEN "sent"
                                          ELSE IF Rides(p) THEN "trail" ELSE None]
    <2>1. Inert(d, p)
      BY <1>1 DEF Lane, Inert, SameReading, Page, Fields, Carries
    <2> HIDE DEF d
    <2>2. Keeps(d, p)
      BY <1>1, <2>1, InertKeeps
    <2>3. Keeps(t, d)
      BY <2>2, ThrottledKeeps DEF Keeps
    <2> HIDE DEF t
    <2>4. Inert(q, t)
      BY <2>3 DEF Keeps, Lane, Inert, SameReading, Page, Fields, Carries
    <2>5. Keeps(q, t)
      BY <2>3, <2>4, InertKeeps DEF Keeps
    <2>6. Becomes(q)
      BY <1>6 DEF Fire, q, t, d
    <2> HIDE DEF q
    <2> QED BY <1>2, <2>2, <2>3, <2>5, <2>6, KeepsOn
  <1>7. CASE Trail
    <2> DEFINE d == [p EXCEPT !.trail = FALSE]
               t == Automatic(d)
               q == [t EXCEPT !.running = IF t.running = "trail"
                                          THEN IF t.out # None THEN "sent" ELSE None
                                          ELSE t.running]
    <2>1. Inert(d, p)
      BY <1>1 DEF Lane, Inert, SameReading, Page, Fields, Carries
    <2> HIDE DEF d
    <2>2. Keeps(d, p)
      BY <1>1, <2>1, InertKeeps
    <2>3. Keeps(t, d)
      BY <2>2, AutomaticKeeps DEF Keeps
    <2> HIDE DEF t
    <2>4. Inert(q, t)
      BY <2>3 DEF Keeps, Lane, Inert, SameReading, Page, Fields, Carries
    <2>5. Keeps(q, t)
      BY <2>3, <2>4, InertKeeps DEF Keeps
    <2>6. Becomes(q)
      BY <1>7 DEF Trail, q, t, d
    <2> HIDE DEF q
    <2> QED BY <1>2, <2>2, <2>3, <2>5, <2>6, KeepsOn
  <1>8. CASE WindowPasses
    <2>1. Inert([p EXCEPT !.recent = FALSE], p)
      BY <1>1 DEF Lane, Inert, SameReading, Page, Fields, Carries
    <2> QED BY <1>1, <1>2, <1>8, <2>1, InertKeeps DEF WindowPasses
  <1> QED BY <1>3, <1>4, <1>5, <1>6, <1>7, <1>8

LEMMA HoldingKeeps ==
    ASSUME SaveInv,
           HoldSaving \/ ReleaseSaving \/ HoldAllSaves \/ ReleaseAllSaves
             \/ Quiesce \/ FlushBytes \/ Resume
    PROVE  SaveInv'
  <1>1. Lane(p) /\ Counted(p) /\ UNCHANGED <<file, made, frame, rewound>>
    BY DEF SaveInv, Sound, HoldSaving, ReleaseSaving, HoldAllSaves, ReleaseAllSaves,
           Quiesce, FlushBytes, Resume, Asking, outside
  <1>2. \A q : Keeps(q, p) /\ Becomes(q) => SaveInv'
    BY <1>1, SaverKeeps
  <1>3. CASE HoldSaving
    <2> DEFINE q == [p EXCEPT !.wire = TRUE, !.autosaveSuspended = @ + 1]
    <2>1. ~p.wire /\ Becomes(q)
      BY <1>3 DEF HoldSaving
    <2>2. Page(q) /\ Carries(q, p) /\ q.missing = p.missing /\ Counted(q)
          /\ SameReading(q, p)
      BY <1>1, <2>1 DEF Lane, Page, Fields, Carries, Counted, Holds, SameReading
    <2> HIDE DEF q
    <2>3. Lane(q) /\ Goes(q, p) /\ Reads(q, p)
      BY <1>1, <2>2, SameReads DEF Lane, Goes, Carries
    <2> QED BY <1>2, <2>1, <2>2, <2>3 DEF Keeps
  <1>4. CASE ReleaseSaving
    <2> DEFINE q == [p EXCEPT !.wire = FALSE]
    <2>1. p.wire /\ Becomes(ResumeAutosave(q))
      BY <1>4 DEF ReleaseSaving
    <2>2. Page(q) /\ Carries(q, p) /\ q.missing = p.missing
          /\ q.autosaveSuspended = Holds(q) + 1 /\ SameReading(q, p)
      BY <1>1, <2>1 DEF Lane, Page, Fields, Carries, Counted, Holds, SameReading
    <2> HIDE DEF q
    <2>3. Lane(q) /\ Goes(q, p) /\ Reads(q, p)
      BY <1>1, <2>2, SameReads DEF Lane, Goes, Carries
    <2> DEFINE y == ResumeAutosave(q)
    <2>4. Lane(y) /\ Goes(y, q) /\ Reads(y, q) /\ Counted(y)
      BY <2>2, <2>3, ResumeCounts
    <2>5. Becomes(y)
      BY <2>1
    <2> HIDE DEF y
    <2>6. Reads(y, p)
      BY <2>3, <2>4 DEF Reads
    <2>7. Keeps(y, p)
      BY <2>3, <2>4, <2>6, GoesOn DEF Keeps
    <2> QED BY <1>2, <2>5, <2>7
  <1>5. CASE HoldAllSaves
    <2>1. Inert([p EXCEPT !.previewHold = TRUE], p)
      BY <1>1 DEF Lane, Inert, SameReading, Page, Fields, Carries
    <2> QED BY <1>1, <1>2, <1>5, <2>1, InertKeeps DEF HoldAllSaves
  <1>6. CASE ReleaseAllSaves
    <2> DEFINE q == [p EXCEPT !.previewHold = FALSE, !.previewMissed = FALSE,
                              !.previewAutosaveMissed = FALSE]
    <2>1. Inert(q, p)
      BY <1>1 DEF Lane, Inert, SameReading, Page, Fields, Carries
    <2>2. Becomes(IF p.previewMissed THEN Explicit(q, FALSE)
                  ELSE IF p.previewAutosaveMissed THEN Throttled(q) ELSE q)
      BY <1>6 DEF ReleaseAllSaves
    <2> HIDE DEF q
    <2>3. Keeps(q, p)
      BY <1>1, <2>1, InertKeeps
    <2>4. Keeps(Explicit(q, FALSE), q) /\ Keeps(Throttled(q), q)
      BY <2>3, ExplicitKeeps, ThrottledKeeps DEF Keeps
    <2>5. Keeps(Explicit(q, FALSE), p) /\ Keeps(Throttled(q), p)
      BY <2>3, <2>4, KeepsOn
    <2> QED BY <1>2, <2>2, <2>3, <2>5
  <1>7. CASE Quiesce
    <2>1. Inert([p EXCEPT !.quiesced = TRUE], p)
      BY <1>1 DEF Lane, Inert, SameReading, Page, Fields, Carries
    <2> QED BY <1>1, <1>2, <1>7, <2>1, InertKeeps DEF Quiesce
  <1>8. CASE FlushBytes
    BY <1>1, <1>2, <1>8, ExplicitKeeps DEF FlushBytes
  <1>9. CASE Resume
    <2> DEFINE q == [p EXCEPT !.quiesced = FALSE, !.parkedAutosave = FALSE]
               r == IF p.parkedAutosave THEN Throttled(q) ELSE q
               s == [r EXCEPT !.soon = IF r.soon = "deferred" THEN "armed" ELSE r.soon]
    <2>1. Inert(q, p)
      BY <1>1 DEF Lane, Inert, SameReading, Page, Fields, Carries
    <2> HIDE DEF q
    <2>2. Keeps(q, p)
      BY <1>1, <2>1, InertKeeps
    <2>3. Keeps(r, q)
      BY <2>2, ThrottledKeeps, KeepsItself DEF Keeps
    <2> HIDE DEF r
    <2>4. Inert(s, r)
      BY <2>3 DEF Keeps, Lane, Inert, SameReading, Page, Fields, Carries
    <2>5. Keeps(s, r)
      BY <2>3, <2>4, InertKeeps DEF Keeps
    <2>6. Becomes(s)
      BY <1>9 DEF Resume, s, r, q
    <2> HIDE DEF s
    <2> QED BY <1>2, <2>2, <2>3, <2>5, <2>6, KeepsOn
  <1> QED BY <1>3, <1>4, <1>5, <1>6, <1>7, <1>8, <1>9

\* A seed asked for, or given up, is none of what the page reads.
LEMMA SeedingGrows ==
    ASSUME SaveInv, NEW e \in OrNone(Seeds),
           e # None /\ e.etag # None => rewound \/ e.etag.mine <= p.text.mine,
           NEW q, q = [p EXCEPT !.seeding = e]
    PROVE  Lane(q) /\ Counted(q) /\ Carries(q, p) /\ Grows(q, p) /\ q.text = p.text
  <1>1. Lane(p) /\ Counted(p)
    BY DEF SaveInv, Sound
  <1>2. /\ Page(q) /\ Carries(q, p) /\ q.missing = p.missing /\ q.wire = p.wire
        /\ q.conflictHold = p.conflictHold /\ q.autosaveSuspended = p.autosaveSuspended
    BY <1>1 DEF Lane, Page, Fields, Carries
  <1>3. /\ q.text = p.text /\ q.saved = p.saved /\ q.stamp = p.stamp /\ q.dirty = p.dirty
        /\ q.touched = p.touched /\ q.consent = p.consent /\ q.seeding = e
    BY <1>1 DEF Lane, Page, Fields
  <1>4. Lane(q) /\ Counted(q)
    BY <1>1, <1>2 DEF Lane, Carries, Counted, Holds
  <1>5. file.text.mine \in Nat /\ p.text.mine \in Nat /\ p.text.theirs \in Nat
    BY <1>1 DEF SaveInv, World, Files, Texts, Lane, Page
  <1>6. ~rewound => Read(q, file.text.mine)
    BY <1>2, <1>3 DEF SaveInv, Sound, Read, Wired, Carries
  <1> QED BY <1>2, <1>3, <1>4, <1>5, <1>6 DEF Grows, Upto

\* The stamp that is forced is one the page's own edits cover, and a person chose to
\* overwrite the version it names; or there is none, and a person chose that.
LEMMA OverwriteKeeps ==
    ASSUME SaveInv, Overwrite
    PROVE  SaveInv'
  <1> DEFINE q == [p EXCEPT !.seeding = None]
             s == Seeded(q, p.seeding.etag)
  <1>1. p.seeding \in Seeds /\ p.seeding # None /\ UNCHANGED <<file, made, frame, rewound>>
    BY DEF Overwrite, outside, SaveInv, Sound, Lane, Page, OrNone
  <1>2. Becomes(SavePageForce(IF p.seeding.stale THEN q ELSE s))
    BY DEF Overwrite
  <1>3. Lane(q) /\ Counted(q) /\ Carries(q, p) /\ Grows(q, p) /\ q.text = p.text
    BY SeedingGrows DEF OrNone
  <1>4. /\ p.seeding.etag \in Stamps
        /\ p.seeding.etag # None => rewound \/ p.seeding.etag.mine <= q.text.mine
    BY <1>1, <1>3 DEF Seeds, SaveInv, Sound, Read
  <1>5. q.seeding = None
    BY DEF SaveInv, Sound, Lane, Page, Fields
  <1> HIDE DEF q
  <1>6. /\ Page(s) /\ Carries(s, q) /\ s.missing = q.missing /\ s.wire = q.wire
        /\ s.conflictHold = q.conflictHold /\ s.autosaveSuspended = q.autosaveSuspended
    BY <1>3, <1>4 DEF Seeded, Lane, Page, Fields, Carries
  <1>7. /\ s.text = q.text /\ s.saved = q.saved /\ s.stamp = p.seeding.etag
        /\ s.dirty = q.dirty /\ s.touched = q.touched /\ s.seeding = None
        /\ s.consent = q.consent \cup {IF p.seeding.etag = None THEN None
                                       ELSE p.seeding.etag.theirs}
    BY <1>3, <1>5 DEF Seeded, Lane, Page, Fields
  <1> HIDE DEF s
  <1>8. Lane(s) /\ Counted(s) /\ Carries(s, p)
    BY <1>3, <1>6 DEF Lane, Carries, Counted, Holds
  <1>9. Grows(s, p)
    <2>1. ~rewound => Covers(s.text, s.stamp, s.consent)
      BY <1>4, <1>7 DEF Covers
    <2>2. s.job # None => \A m : Wired(q, m) => Wired(s, m)
      BY <1>6, <1>7 DEF Wired, Covers, Carries
    <2>3. s.out # None /\ Covers(q.out.text, q.out.etag, q.consent) =>
            Covers(s.out.text, s.out.etag, s.consent)
      BY <1>6, <1>7 DEF Covers, Carries
    <2> QED BY <1>3, <1>6, <1>7, <2>1, <2>2, <2>3 DEF Grows, Read, Carries
  <1>10. Keeps(SavePageForce(q), q) /\ Keeps(SavePageForce(s), s)
    BY <1>3, <1>8, ForceKeeps
  <1>11. Sound(net, p)' /\ p'.text = p.text
    <2>1. CASE p.seeding.stale
      <3>1. Becomes(SavePageForce(q))
        BY <1>2, <2>1
      <3> QED BY <1>1, <1>3, <1>10, <3>1, HandlerKeeps
    <2>2. CASE ~p.seeding.stale
      <3>1. Becomes(SavePageForce(s))
        BY <1>2, <2>2
      <3>2. Sound(net, p)' /\ p'.text = s.text
        BY <1>1, <1>8, <1>9, <1>10, <3>1, HandlerKeeps
      <3> QED BY <1>3, <1>7, <3>2
    <2> QED BY <2>1, <2>2
  <1> QED BY <1>1, <1>11 DEF SaveInv, World, Behind

\* A frame is about the file as it is: it replaces a page that holds no edit the file
\* lacks, and what it is merged into keeps them.
LEMMA SyncKeeps ==
    ASSUME SaveInv, Sync
    PROVE  SaveInv'
  <1> DEFINE d == p.dirty /\ p.text.mine > frame.mine
             t == [frame EXCEPT !.mine = IF d THEN p.text.mine ELSE frame.mine]
             r == [p EXCEPT !.text = t, !.dirty = d, !.saved = IF d THEN p.saved ELSE frame]
             e == RecordEtag(r, frame)
             c == ConflictResolvedBySync(e, frame)
  <1>1. /\ Lane(p) /\ Counted(p) /\ (rewound \/ Read(p, file.text.mine))
        /\ frame \in Texts /\ frame = file.text /\ frame.theirs <= made
        /\ p.text.theirs < frame.theirs
        /\ UNCHANGED <<file, made, rewound>> /\ frame' = None
    BY DEF SaveInv, Sound, World, Behind, Sync, OrNone
  <1>2. Becomes(SaveAfterMerge(c, d))
    BY DEF Sync, Applied
  <1>3. p.text \in Texts /\ p.saved \in Texts /\ p.stamp \in OrNone(Texts)
        /\ p.text.theirs \in Nat /\ frame # None
    BY <1>1, SaveAssumption DEF Lane, Page, Stamps, Texts
  <1>4. /\ t \in Texts /\ t.theirs = frame.theirs /\ Upto(frame, t)
        /\ rewound \/ Upto(p.text, t)
        /\ d \/ t.mine = frame.mine
        /\ d => p.dirty /\ t.mine = p.text.mine
    BY <1>1, <1>3 DEF Texts, Read, Upto
  <1> HIDE DEF d, t
  <1>5. Page(r) /\ Carries(r, p) /\ r.missing = p.missing
    BY <1>1, <1>3, <1>4 DEF Lane, Page, Fields, Carries
  <1>6. /\ r.text = t /\ r.saved = (IF d THEN p.saved ELSE frame) /\ r.dirty = d
        /\ r.stamp = p.stamp /\ r.seeding = p.seeding /\ r.touched = p.touched
        /\ r.consent = p.consent
    BY <1>1 DEF Lane, Page, Fields
  <1>7. /\ r.wire = p.wire /\ r.conflictHold = p.conflictHold
        /\ r.autosaveSuspended = p.autosaveSuspended
    BY <1>1 DEF Lane, Page, Fields
  <1> HIDE DEF r
  <1>8. Lane(r) /\ Counted(r)
    BY <1>1, <1>5, <1>7 DEF Lane, Carries, Counted, Holds
  <1>9. Grows(r, p)
    <2> SUFFICES ASSUME ~rewound PROVE Upto(p.text, r.text) /\ Read(r, file.text.mine)
      BY <1>6 DEF Grows
    <2>1. /\ p.job # None => p.job.text \in Texts /\ p.job.etag \in OrNone(Texts)
          /\ p.seeding # None => p.seeding.etag \in OrNone(Texts)
      BY <1>1 DEF Lane, Page, OrNone, Jobs, Seeds, Stamps
    <2>2. p.job # None => Wired(r, file.text.mine)
      BY <1>1, <1>3, <1>4, <1>5, <1>6, <2>1 DEF Read, Wired, Upto, Texts, Carries
    <2>3. Covers(r.text, r.stamp, r.consent)
      BY <1>1, <1>3, <1>4, <1>6 DEF Read, Covers, Upto, OrNone, Texts
    <2>4. r.seeding # None /\ r.seeding.etag # None => r.seeding.etag.mine <= r.text.mine
      BY <1>1, <1>3, <1>4, <1>6, <2>1 DEF Read, Upto, OrNone, Texts
    <2> QED BY <1>1, <1>3, <1>4, <1>5, <1>6, <2>1, <2>2, <2>3, <2>4
            DEF Read, Upto, Texts, Carries
  <1>10. Keeps(e, r)
    BY <1>1, <1>3, <1>4, <1>6, <1>8, StampKeeps DEF Covers, Upto
  <1> HIDE DEF e
  <1>11. Keeps(c, e)
    BY <1>8, <1>10, ResolvedKeeps DEF Keeps
  <1> HIDE DEF c
  <1>12. Keeps(c, r)
    BY <1>10, <1>11, KeepsOn
  <1>13. Keeps(SaveAfterMerge(c, d), c)
    BY <1>12, ThrottledKeeps, KeepsItself DEF SaveAfterMerge, Keeps
  <1>14. Keeps(SaveAfterMerge(c, d), r)
    BY <1>12, <1>13, KeepsOn
  <1>15. Sound(net, p)' /\ p'.text = t
    BY <1>1, <1>2, <1>5, <1>6, <1>8, <1>9, <1>14, HandlerKeeps
  <1>16. World' /\ Behind'
    BY <1>1, <1>4, <1>15 DEF SaveInv, World, Behind, OrNone
  <1> QED BY <1>15, <1>16 DEF SaveInv

LEMMA SyncingKeeps ==
    ASSUME SaveInv, SeedEtag \/ Overwrite \/ Sync
    PROVE  SaveInv'
  <1>1. CASE SeedEtag
    <2>1. PICK etag \in {file.text, None} :
            Becomes([p EXCEPT !.seeding = [etag |-> etag, stale |-> FALSE]])
      BY <1>1 DEF SeedEtag
    <2> DEFINE e == [etag |-> etag, stale |-> FALSE]
               q == [p EXCEPT !.seeding = e]
    <2>2. Becomes(q) /\ UNCHANGED <<file, made, frame, rewound>>
      BY <1>1, <2>1 DEF SeedEtag, Asking
    <2>3. e \in OrNone(Seeds)
      BY DEF OrNone, Seeds, Stamps, SaveInv, World, Files
    <2>4. e.etag # None => rewound \/ e.etag.mine <= p.text.mine
      BY DEF SaveInv, Sound, Read
    <2> HIDE DEF e
    <2>5. Lane(q) /\ Counted(q) /\ Carries(q, p) /\ Grows(q, p) /\ q.text = p.text
      BY <2>3, <2>4, SeedingGrows
    <2> HIDE DEF q
    <2>6. Keeps(q, q)
      BY <2>5, KeepsItself
    <2>7. Sound(net, p)' /\ p'.text = p.text
      BY <2>2, <2>5, <2>6, HandlerKeeps
    <2> QED BY <2>2, <2>7 DEF SaveInv, World, Behind
  <1> QED BY <1>1, OverwriteKeeps, SyncKeeps

\* The steps that end or resume the save on the wire: nothing on its way is waited for,
\* or all of it is abandoned.
LEMMA WireKeeps ==
    ASSUME SaveInv, TakeAnswer \/ HostMeta \/ Unreachable
    PROVE  SaveInv'
  <1>1. Lane(p) /\ p.out = None /\ Counted(p) /\ World /\ NetOf(net, p, file)
        /\ UNCHANGED <<file, made, frame, rewound>>
    BY DEF SaveInv, Sound, TakeAnswer, HostMeta, Unreachable, outside
  <1>2. World'
    BY <1>1 DEF World
  <1>3. p.job # None /\ p.job \in Jobs
    BY <1>1 DEF TakeAnswer, HostMeta, Unreachable, InProgress, Lane, Page, OrNone
  <1>4. \A r \in net : ~r.live
    BY <1>1 DEF TakeAnswer, HostMeta, Unreachable, NetOf, Fits
  <1>5. \A q : Moves(q, p) /\ Reads(q, p) /\ Becomes(q) => SaveInv'
    <2>1. ASSUME NEW q, Moves(q, p), Reads(q, p), Becomes(q) PROVE SaveInv'
      <3>1. Sound(net, p)' /\ p'.text = p.text
        BY <1>1, <1>4, <2>1, ReadsGrows, BecomesKeeps DEF Reads
      <3> QED BY <1>1, <1>2, <3>1 DEF SaveInv, Behind
    <2> QED BY <2>1
  <1>6. CASE TakeAnswer
    BY <1>1, <1>3, <1>5, <1>6, AnswerMoves DEF TakeAnswer
  <1>7. CASE HostMeta
    <2> DEFINE a   == [ok |-> TRUE, etag |-> file.text, saveId |-> file.id]
               job == [p.job EXCEPT !.answer = a]
               q   == [p EXCEPT !.job.answer = a]
    <2>1. a \in Answers
      BY <1>1 DEF World, Files, Answers
    <2>2. /\ job \in Jobs /\ job.id = p.job.id /\ job.text = p.job.text
          /\ job.etag = p.job.etag /\ job.stage = "asking" /\ job.answer = a
      BY <1>3, <1>7, <2>1 DEF Jobs, OrNone, HostMeta
    <2>3. job # None
      BY <2>2, SaveAssumption
    <2>4. Proves(job) => p.landed
      <3>1. p.job.id \in Nat
        BY <1>3 DEF Jobs
      <3> QED BY <1>1, <1>3, <2>2, <3>1 DEF Proves, NetOf
    <2>5. q = [p EXCEPT !.job = job]
      BY <1>1 DEF Lane, Page, Fields
    <2>6. Becomes(q)
      BY <1>7 DEF HostMeta
    <2> HIDE DEF a, job, q
    <2>7. /\ Page(q) /\ q.job = job /\ q.out = None /\ q.ids = p.ids
          /\ q.landed = p.landed /\ SameReading(q, p)
      BY <1>1, <2>2, <2>5 DEF Lane, Page, Fields, OrNone, SameReading
    <2>8. /\ q.missing = p.missing /\ q.wire = p.wire /\ q.conflictHold = p.conflictHold
          /\ q.autosaveSuspended = p.autosaveSuspended
      BY <1>1, <2>5 DEF Lane, Page, Fields
    <2>9. Lane(q) /\ Counted(q)
      BY <1>1, <1>3, <2>2, <2>4, <2>7, <2>8 DEF Lane, Counted, Holds
    <2>10. p.ids \in Nat
      BY <1>1 DEF Lane, Page
    <2>11. Moves(q, p)
      BY <1>3, <2>2, <2>7, <2>9, <2>10 DEF Moves
    <2>12. ~rewound /\ a.saveId \in Nat => Upto(a.etag, p.job.text)
      BY <1>3 DEF SaveInv, Sound, NetReads, Within, a
    <2>13. ~rewound => Read(q, file.text.mine)
      <3> SUFFICES ASSUME ~rewound PROVE Read(q, file.text.mine)
        OBVIOUS
      <3>1. Wired(q, file.text.mine)
        BY <1>3, <2>2, <2>7, <2>12 DEF SaveInv, Sound, Read, Wired, SameReading
      <3> QED BY <2>7, <3>1 DEF SaveInv, Sound, Read, SameReading
    <2>14. Grows(q, p)
      BY <1>1, <2>7, <2>13 DEF Grows, Lane, Page, Texts, Upto, SameReading
    <2>15. Sound(net, p)' /\ p'.text = p.text
      BY <1>1, <1>4, <2>6, <2>7, <2>11, <2>14, BecomesKeeps DEF SameReading
    <2> QED BY <1>1, <1>2, <2>15 DEF SaveInv, Behind
  <1>8. CASE Unreachable
    <2>1. Moves(Failed(p), p) /\ Reads(Failed(p), p)
      BY <1>1, FailedEnds, EndsMoves
    <2> QED BY <1>5, <1>8, <2>1 DEF Unreachable
  <1> QED BY <1>6, <1>7, <1>8

LEMMA FaultKeeps ==
    ASSUME SaveInv, Timeout \/ NetworkError
    PROVE  SaveInv'
  <1>1. Lane(p) /\ p.out = None /\ Counted(p) /\ World /\ NetOf(net, p, file)
        /\ UNCHANGED <<file, made, frame, rewound>>
    BY DEF SaveInv, Sound, Timeout, NetworkError
  <1>2. World'
    BY <1>1 DEF World
  <1>3. p.job # None /\ p.job \in Jobs /\ p.ids \in Nat
    BY <1>1 DEF Timeout, NetworkError, InProgress, Lane, Page, OrNone
  <1>4. Sound(Abandoned, p) /\ \A r \in Abandoned : ~r.live
    BY <1>1, AbandonedNet DEF SaveInv, Sound
  <1>5. ASSUME NEW q, Moves(q, p), Reads(q, p), p' = [q EXCEPT !.out = None],
               net' = Abandoned \cup (IF q.out = None THEN {} ELSE {q.out})
        PROVE  SaveInv'
    <2>0. Grows(q, p) /\ file \in Files
      BY <1>1, <1>5, ReadsGrows DEF World
    <2>1. LET z == [q EXCEPT !.out = None] IN
          Sound(Abandoned \cup (IF q.out = None THEN {} ELSE {q.out}), z) /\ z.text = q.text
      BY <1>4, <1>5, <2>0, MovesNet, ZenonT(60)
    <2>2. UNCHANGED <<file, rewound>> /\ q.text = p.text
      BY <1>1, <1>5 DEF Reads
    <2>3. Sound(net, p)' /\ p'.text = p.text
      BY <1>5, <2>1, <2>2 DEF Sound
    <2> QED BY <1>1, <1>2, <2>3 DEF SaveInv, Behind
  <1>6. CASE Timeout
    <2> DEFINE job == [p.job EXCEPT !.stage = "asking", !.answer = None]
               q   == [p EXCEPT !.unknown = [id |-> p.job.id, etag |-> p.job.etag], !.job = job]
    <2>1. /\ job \in Jobs /\ job.id = p.job.id /\ job.text = p.job.text /\ ~Proves(job)
          /\ job.etag = p.job.etag /\ job.answer = None
      BY <1>3 DEF Jobs, OrNone, Proves
    <2>2. job # None
      BY <2>1, SaveAssumption
    <2>3. LET r == IF p.job.resent THEN Failed(q) ELSE q
          IN  /\ p' = [r EXCEPT !.out = None]
              /\ net' = Abandoned \cup (IF r.out = None THEN {} ELSE {r.out})
      BY <1>6 DEF Timeout
    <2> HIDE DEF job
    <2>4. /\ Page(q) /\ q.job = job /\ q.out = None /\ q.ids = p.ids
          /\ q.landed = p.landed /\ SameReading(q, p)
      BY <1>1, <2>1 DEF Lane, Page, Fields, OrNone, SameReading
    <2>5. /\ q.missing = p.missing /\ q.wire = p.wire /\ q.conflictHold = p.conflictHold
          /\ q.autosaveSuspended = p.autosaveSuspended
      BY <1>1 DEF Lane, Page, Fields
    <2> HIDE DEF q
    <2>6. Lane(q) /\ Counted(q)
      BY <1>1, <1>3, <2>1, <2>4, <2>5 DEF Lane, Counted, Holds
    <2>7. Moves(q, p)
      BY <1>3, <2>1, <2>4, <2>6 DEF Moves
    <2>8. Reads(q, p)
      BY <1>1, <1>3, <2>1, <2>4 DEF Reads, Read, Wired, SameReading
    <2>9. Ends(Failed(q), q)
      BY <2>4, <2>6, FailedEnds
    <2>10. Moves(Failed(q), p)
      BY <1>3, <2>4, <2>6, <2>9 DEF Ends, Moves
    <2>11. Reads(Failed(q), p)
      BY <2>8, <2>9 DEF Ends, Reads
    <2> QED BY <1>5, <2>3, <2>7, <2>8, <2>10, <2>11
  <1>7. CASE NetworkError
    <2>1. Moves(Failed(p), p) /\ Reads(Failed(p), p)
      BY <1>1, FailedEnds, EndsMoves
    <2> QED BY <1>5, <1>7, <2>1 DEF NetworkError
  <1> QED BY <1>6, <1>7

\* A request leaves the network with an answer: to the page, if it waits for that one.
LEMMA ReplyLane ==
    ASSUME Page(p), p.job # None, p.job.stage = "sent", NEW a \in Answers,
           NEW y, y = [p EXCEPT !.job.answer = a]
    PROVE  /\ Page(y) /\ y = [p EXCEPT !.job = y.job] /\ SameReading(y, p)
           /\ y.job \in Jobs /\ y.job.id = p.job.id /\ y.job.text = p.job.text
           /\ y.job.etag = p.job.etag /\ y.job.answer = a
           /\ Proves(y.job) => a.ok
  <1> DEFINE job == [p.job EXCEPT !.answer = a]
  <1>1. p.job \in Jobs
    BY DEF Page, OrNone
  <1>2. /\ job \in Jobs /\ job.id = p.job.id /\ job.text = p.job.text
        /\ job.etag = p.job.etag /\ job.stage = "sent" /\ job.answer = a
    BY <1>1 DEF Jobs, OrNone
  <1>3. y = [p EXCEPT !.job = job]
    BY DEF Page, Fields
  <1> HIDE DEF job
  <1>4. Page(y) /\ y.job = job /\ SameReading(y, p)
    BY <1>2, <1>3 DEF Page, Fields, OrNone, SameReading
  <1> QED BY <1>2, <1>3, <1>4 DEF Proves

\* The host stores a save: one for the file as it is holds all the file does, but a
\* version a person chose to overwrite; one without a stamp is one a person chose. In
\* either case a frame about the version it is stored over is void.
LEMMA StoreReads ==
    ASSUME SaveInv, NEW r \in net, Store(r)
    PROVE  /\ World' /\ frame' = None
           /\ rewound' => None \in p.consent
           /\ ~rewound' =>
                /\ ~rewound /\ Within(r.text, p) /\ file.text.mine <= r.text.mine
                /\ r.etag # None =>
                     file.text.theirs <= r.text.theirs \/ file.text.theirs \in p.consent
           /\ rewound \/ (r.etag = None => None \in p.consent)
  <1>1. /\ r \in Requests /\ r.text \in Texts /\ r.id \in Nat
        /\ rewound => None \in p.consent
        /\ rewound \/ (Within(r.text, p) /\ Covers(r.text, r.etag, p.consent))
    BY DEF SaveInv, Sound, NetOf, NetReads, Requests
  <1>2. /\ r.etag \in {None, file.text} /\ file' = [text |-> r.text, id |-> r.id]
        /\ made' = made /\ frame' = None
        /\ rewound' = (rewound \/ (r.etag = None /\ r.text.mine < file.text.mine))
    BY DEF Store
  <1>3. /\ World /\ Behind /\ p.text \in Texts /\ made \in Nat
    BY SaveAssumption DEF SaveInv, Sound, Lane, Page, World
  <1>4. file.text \in Texts /\ file.text # None
    BY <1>3, SaveAssumption DEF World, Files
  <1>5. rewound \/ (r.etag = None => None \in p.consent)
    BY <1>1 DEF Covers
  <1>6. ~rewound' => ~rewound /\ ~(r.etag = None /\ r.text.mine < file.text.mine)
    BY <1>2, Zenon
  <1> DEFINE rewinds == rewound'
  <1>7. ~rewinds => /\ ~rewound /\ file.text.mine <= r.text.mine
                    /\ r.text.theirs <= made
    <2> SUFFICES ASSUME ~rewinds
                 PROVE  /\ ~rewound /\ file.text.mine <= r.text.mine
                        /\ r.text.theirs <= made
      OBVIOUS
    <2>1. ~rewound /\ (r.etag = None => ~(r.text.mine < file.text.mine))
      BY <1>6
    <2>2. Within(r.text, p) /\ Covers(r.text, r.etag, p.consent)
      BY <1>1, <2>1
    <2>3. r.etag # None => file.text.mine <= r.text.mine
      BY <1>2, <2>2 DEF Covers
    <2>4. file.text.mine <= r.text.mine
      BY <1>1, <1>4, <2>1, <2>3 DEF Texts
    <2>5. r.text.theirs <= made
      BY <1>1, <1>3, <2>2 DEF Within, Behind, Upto, Texts
    <2> QED BY <2>1, <2>4, <2>5
  <1>8. World'
    BY <1>1, <1>2, <1>3, <1>7 DEF World, Files, OrNone
  <1> QED BY <1>1, <1>2, <1>5, <1>6, <1>7, <1>8 DEF Covers

LEMMA StoreKeeps ==
    ASSUME SaveInv, NEW r \in net, Store(r)
    PROVE  SaveInv'
  <1>1. /\ World /\ Behind /\ Lane(p) /\ p.out = None /\ Counted(p) /\ NetOf(net, p, file)
        /\ UNCHANGED made /\ net' = net \ {r} /\ file' = [text |-> r.text, id |-> r.id]
    BY DEF SaveInv, Sound, Store
  <1>2. /\ r \in Requests /\ r.id \in 1 .. p.ids /\ r.text \in Texts /\ r.id \in Nat
        /\ p.ids \in Nat /\ p.job \in OrNone(Jobs) /\ p.text \in Texts /\ p.saved \in Texts
    BY <1>1 DEF NetOf, Requests, Lane, Page
  <1>3. World' /\ frame' = None /\ (rewound' => None \in p.consent)
    BY StoreReads
  <1>4. ASSUME ~rewound'
        PROVE  /\ file.text.mine <= r.text.mine /\ r.text.mine <= p.text.mine
               /\ p.job # None => r.text.mine <= p.job.text.mine
               /\ Read(p, file.text.mine) /\ NetReads(net, p, file) /\ Within(r.text, p)
    BY <1>4, StoreReads DEF SaveInv, Sound, Within, Upto
  <1> DEFINE y == Reply(r, TRUE, r.text, r.id)
             z == [y EXCEPT !.landed = p.landed \/ (InProgress(p) /\ p.job.text = r.text)]
  <1>5. CASE r.live
    <2> DEFINE a == [ok |-> TRUE, etag |-> r.text, saveId |-> r.id]
    <2>1. /\ Page(y) /\ y.job \in Jobs /\ y.job.id = p.job.id /\ y.job.text = p.job.text
          /\ y.job.etag = p.job.etag /\ y.job.answer = a /\ SameReading(y, p)
          /\ p.job # None /\ p.job.text = r.text /\ y = [p EXCEPT !.job = y.job]
      <3>1. a \in Answers
        BY <1>2 DEF Answers
      <3>2. y = [p EXCEPT !.job.answer = a]
        BY <1>5 DEF Reply
      <3>3. Page(p) /\ p.job # None /\ p.job.stage = "sent" /\ p.job.text = r.text
        BY <1>1, <1>5 DEF Lane, NetOf, Fits
      <3> HIDE DEF y, a
      <3> QED BY <3>1, <3>2, <3>3, ReplyLane
    <2> HIDE DEF y
    <2>2. y.job # None
      BY <2>1, SaveAssumption
    <2>3. /\ y.out = p.out /\ y.ids = p.ids /\ y.missing = p.missing /\ y.landed = p.landed
          /\ y.wire = p.wire /\ y.conflictHold = p.conflictHold
          /\ y.autosaveSuspended = p.autosaveSuspended
      BY <1>1, <2>1 DEF Lane, Page, Fields
    <2>4. p' = z
      BY <1>1, <2>3 DEF Store, y
    <2>5. Page(z) /\ z.landed /\ SameReading(z, p)
      BY <2>1 DEF Page, Fields, InProgress, SameReading
    <2>6. /\ z.job = y.job /\ z.out = None /\ z.ids = p.ids /\ ~z.missing
          /\ z.wire = p.wire /\ z.conflictHold = p.conflictHold
          /\ z.autosaveSuspended = p.autosaveSuspended
      BY <1>1, <2>1, <2>3 DEF Lane, Page, Fields
    <2> HIDE DEF z
    <2>7. Lane(z) /\ Counted(z)
      BY <1>1, <2>1, <2>2, <2>5, <2>6 DEF Lane, Counted, Holds
    <2>8. \A s \in net \ {r} : ~s.live
      BY <1>1, <1>5 DEF NetOf
    <2>9. NetOf(net \ {r}, z, file')
      BY <1>1, <1>2, <2>1, <2>2, <2>5, <2>6, <2>8 DEF NetOf
    <2>10. ASSUME ~rewound' PROVE Read(z, file'.text.mine) /\ NetReads(net \ {r}, z, file')
      <3>1. a.etag = p.job.text /\ a.saveId \in Nat
        BY <1>2, <2>1
      <3>2. file.text.mine \in Nat /\ r.text.mine \in Nat /\ p.job.text \in Texts
            /\ p.saved.mine \in Nat /\ p.text.mine \in Nat
        BY <1>1, <1>2, <2>1 DEF World, Files, Texts
      <3> HIDE DEF a
      <3>3. Wired(z, r.text.mine)
        BY <1>4, <2>1, <2>2, <2>5, <2>6, <2>10, <3>1, <3>2
           DEF Read, Wired, SameReading, Upto, Texts
      <3>4. Read(z, r.text.mine)
        BY <1>4, <2>5, <2>6, <2>10, <3>2, <3>3 DEF Read, SameReading
      <3>5. NetReads(net \ {r}, z, file')
        BY <1>1, <1>4, <2>1, <2>5, <2>6, <2>10 DEF NetReads, Within, SameReading
      <3> QED BY <1>1, <3>4, <3>5
    <2> QED BY <1>1, <1>3, <2>4, <2>5, <2>6, <2>7, <2>9, <2>10
            DEF SaveInv, Sound, Behind, SameReading
  <1>6. CASE ~r.live
    <2>1. y = p /\ p' = z
      BY <1>6 DEF Store, Reply
    <2> HIDE DEF y
    <2>2. /\ Page(z) /\ z.job = p.job /\ z.out = None /\ z.ids = p.ids /\ ~z.missing
          /\ z.wire = p.wire /\ z.conflictHold = p.conflictHold
          /\ z.autosaveSuspended = p.autosaveSuspended /\ SameReading(z, p)
          /\ z.landed = (p.landed \/ (InProgress(p) /\ p.job.text = r.text))
      BY <1>1, <2>1 DEF Lane, Page, Fields, SameReading
    <2> HIDE DEF z
    <2>3. Lane(z) /\ Counted(z)
      BY <1>1, <2>2 DEF Lane, Counted, Holds
    <2>4. NetOf(net \ {r}, z, file')
      BY <1>1, <1>2, <2>2 DEF NetOf, InProgress
    <2>5. ASSUME ~rewound' PROVE Read(z, file'.text.mine) /\ NetReads(net \ {r}, z, file')
      <3>1. /\ file.text.mine \in Nat /\ r.text.mine \in Nat
            /\ p.saved.mine \in Nat /\ p.text.mine \in Nat
            /\ p.job # None => p.job.text.mine \in Nat
        BY <1>1, <1>2 DEF World, Files, Texts, OrNone, Jobs
      <3>2. z.landed => p.landed \/ p.job.text = r.text
        BY <2>2
      <3>3. ASSUME p.job # None PROVE Wired(z, r.text.mine)
        <4>1. Wired(p, file.text.mine)
          BY <1>4, <2>5, <3>3 DEF Read
        <4>2. z.landed => p.job.text.mine <= r.text.mine
          BY <1>4, <2>5, <3>1, <3>2, <3>3, <4>1 DEF Wired
        <4> QED BY <1>4, <2>2, <2>5, <3>3, <4>1, <4>2 DEF Wired, SameReading
      <3>4. Read(z, r.text.mine)
        BY <1>4, <2>2, <2>5, <3>1, <3>3 DEF Read, SameReading
      <3>5. NetReads(net \ {r}, z, file')
        BY <1>1, <1>4, <2>2, <2>5 DEF NetReads, Within, SameReading
      <3> QED BY <1>1, <3>4, <3>5
    <2> QED BY <1>1, <1>3, <2>1, <2>2, <2>3, <2>4, <2>5
            DEF SaveInv, Sound, Behind, SameReading
  <1> QED BY <1>5, <1>6

LEMMA RefuseKeeps ==
    ASSUME SaveInv, NEW r \in net, Refuse(r)
    PROVE  SaveInv'
  <1>1. /\ World /\ Behind /\ Lane(p) /\ p.out = None /\ Counted(p) /\ NetOf(net, p, file)
        /\ rewound => None \in p.consent
        /\ rewound \/ (Read(p, file.text.mine) /\ NetReads(net, p, file))
        /\ UNCHANGED <<file, made, frame, rewound>> /\ net' = net \ {r}
    BY DEF SaveInv, Sound, Refuse
  <1>2. World'
    BY <1>1 DEF World
  <1> DEFINE y == Reply(r, FALSE, file.text, file.id)
  <1>3. p' = y
    BY DEF Refuse
  <1>4. CASE r.live
    <2> DEFINE a == [ok |-> FALSE, etag |-> file.text, saveId |-> file.id]
    <2>1. /\ Page(y) /\ y.job \in Jobs /\ y.job.id = p.job.id /\ y.job.text = p.job.text
          /\ y.job.etag = p.job.etag /\ y.job.answer = a /\ SameReading(y, p)
          /\ ~Proves(y.job) /\ p.job # None /\ y = [p EXCEPT !.job = y.job]
      <3>1. a \in Answers /\ ~a.ok
        BY <1>1 DEF Answers, World, Files
      <3>2. y = [p EXCEPT !.job.answer = a]
        BY <1>4 DEF Reply
      <3>3. Page(p) /\ p.job # None /\ p.job.stage = "sent"
        BY <1>1, <1>4 DEF Lane, NetOf, Fits
      <3> HIDE DEF y, a
      <3> QED BY <3>1, <3>2, <3>3, ReplyLane
    <2> HIDE DEF y
    <2>2. y.job # None
      BY <2>1, SaveAssumption
    <2>3. /\ y.out = p.out /\ y.ids = p.ids /\ y.missing = p.missing /\ y.landed = p.landed
          /\ y.wire = p.wire /\ y.conflictHold = p.conflictHold
          /\ y.autosaveSuspended = p.autosaveSuspended
      BY <1>1, <2>1 DEF Lane, Page, Fields
    <2>4. Lane(y) /\ Counted(y)
      BY <1>1, <2>1, <2>2, <2>3 DEF Lane, Counted, Holds
    <2>5. \A s \in net \ {r} : ~s.live
      BY <1>1, <1>4 DEF NetOf
    <2>6. NetOf(net \ {r}, y, file)
      BY <1>1, <2>1, <2>2, <2>3, <2>5 DEF NetOf
    <2>7. ASSUME ~rewound PROVE Read(y, file.text.mine) /\ NetReads(net \ {r}, y, file)
      <3>1. a.saveId \in Nat => Upto(a.etag, p.job.text)
        BY <1>1, <2>1, <2>7 DEF NetReads, Within
      <3>2. ~a.ok
        OBVIOUS
      <3> HIDE DEF a
      <3>3. Wired(y, file.text.mine)
        BY <1>1, <2>1, <2>3, <2>7, <3>1, <3>2 DEF Read, Wired, SameReading
      <3>4. NetReads(net \ {r}, y, file)
        BY <1>1, <2>1, <2>2, <2>7 DEF NetReads, Within, SameReading
      <3> QED BY <1>1, <2>1, <2>3, <2>7, <3>3, <3>4 DEF Read, SameReading
    <2> QED BY <1>1, <1>2, <1>3, <2>1, <2>3, <2>4, <2>6, <2>7
            DEF SaveInv, Sound, Behind, SameReading
  <1>5. CASE ~r.live
    <2>1. p' = p
      BY <1>3, <1>5 DEF Reply
    <2>2. NetOf(net \ {r}, p, file) /\ (rewound \/ NetReads(net \ {r}, p, file))
      BY <1>1 DEF NetOf, NetReads
    <2> QED BY <1>1, <1>2, <2>1, <2>2 DEF SaveInv, Sound, Behind
  <1> QED BY <1>4, <1>5

LEMMA OutsideKeeps ==
    ASSUME SaveInv, (\E r \in net : Lose(r)) \/ (\E id \in {None, Stranger} : Other(id)) \/ Forget
    PROVE  SaveInv'
  <1>1. World /\ Behind /\ Sound(net, p) /\ p' = p /\ rewound' = rewound
    BY DEF SaveInv, Lose, Other, Forget
  <1>2. CASE \E r \in net : Lose(r)
    <2>1. net' \subseteq net /\ file' = file /\ UNCHANGED <<made, frame>>
      BY <1>2 DEF Lose
    <2> QED BY <1>1, <2>1 DEF SaveInv, World, Behind, Sound, NetOf, NetReads
  <1>3. ASSUME NEW t \in Texts, NEW id \in {None, Stranger},
               file' = [text |-> t, id |-> id], net' = net, t.mine = file.text.mine
        PROVE  Sound(net, p)'
    <2>1. file'.id \notin Nat
      BY <1>3, SaveAssumption
    <2>2. p.job # None => p.job.id \in Nat
      BY <1>1 DEF Sound, Lane, Page, OrNone, Jobs
    <2>3. NetOf(net, p, file)'
      BY <1>1, <1>3, <2>1 DEF NetOf, Sound
    <2>4. (rewound \/ (Read(p, file.text.mine) /\ NetReads(net, p, file)))'
      BY <1>1, <1>3, <2>1 DEF NetReads, Sound
    <2> QED BY <1>1, <2>3, <2>4 DEF Sound
  <1>4. CASE \E id \in {None, Stranger} : Other(id)
    <2>1. PICK id \in {None, Stranger} : Other(id)
      BY <1>4
    <2> DEFINE t == [file.text EXCEPT !.theirs = made']
    <2>2. made' \in 0 .. MaxOthers /\ made' = made + 1 /\ made \in Nat /\ p.text.theirs \in Nat
      BY <1>1, <2>1, SaveAssumption DEF Other, World, Sound, Lane, Page, Texts
    <2>3. /\ t \in Texts /\ t.mine = file.text.mine /\ t.theirs = made'
          /\ file' = [text |-> t, id |-> id] /\ frame' = t /\ net' = net
      BY <1>1, <2>1, <2>2 DEF Other, World, Files, Texts
    <2> HIDE DEF t
    <2>4. World' /\ Behind'
      BY <1>1, <2>2, <2>3 DEF World, Behind, Files, OrNone
    <2> QED BY <1>3, <2>3, <2>4 DEF SaveInv
  <1>5. CASE Forget
    <2>1. file' = [text |-> file.text, id |-> None] /\ file.text \in Texts
          /\ UNCHANGED <<made, frame, net>>
      BY <1>1, <1>5 DEF Forget, World, Files
    <2>2. World' /\ Behind'
      BY <1>1, <2>1 DEF World, Behind, Files
    <2> QED BY <1>3, <2>1, <2>2 DEF SaveInv
  <1> QED BY <1>2, <1>4, <1>5

LEMMA SaveStep == SaveInv /\ [Next]_vars => SaveInv'
  <1> SUFFICES ASSUME SaveInv, [Next]_vars PROVE SaveInv'
    OBVIOUS
  <1>1. CASE Edit
    BY <1>1, TypingKeeps
  <1>2. CASE SavePage \/ SavePageSoon \/ FireSoon \/ Fire \/ Trail \/ WindowPasses
    BY <1>2, SavingKeeps
  <1>3. CASE TakeAnswer \/ HostMeta \/ Unreachable
    BY <1>3, WireKeeps
  <1>4. CASE Timeout \/ NetworkError
    BY <1>4, FaultKeeps
  <1>5. CASE SeedEtag \/ Overwrite \/ Sync
    BY <1>5, SyncingKeeps
  <1>6. CASE HoldSaving \/ ReleaseSaving \/ HoldAllSaves \/ ReleaseAllSaves
               \/ Quiesce \/ FlushBytes \/ Resume
    BY <1>6, HoldingKeeps
  <1>7. CASE \E r \in net : Store(r) \/ Refuse(r)
    BY <1>7, StoreKeeps, RefuseKeeps
  <1>8. CASE (\E r \in net : Lose(r)) \/ (\E id \in {None, Stranger} : Other(id)) \/ Forget
    BY <1>8, OutsideKeeps
  <1>9. CASE UNCHANGED vars
    BY <1>9 DEF vars, SaveInv, World, Behind, Sound
  <1> QED BY <1>1, <1>2, <1>3, <1>4, <1>5, <1>6, <1>7, <1>8, <1>9 DEF Next

LEMMA SaveAlways == Spec => []SaveInv
  BY InitSave, SaveStep, PTL DEF Spec

-----------------------------------------------------------------------------
(* The theorems.                                                           *)

\* A save the page reports as saved is one whose bytes the host stored: the answer that
\* says so was for the save on the wire, whatever was timed out, lost, stored late,
\* re-sent, taken for a late duplicate or forgotten (sendOnce, recoverUnknownSave).
THEOREM SavedIsStored == Spec => []SavedMeansStored
  <1>1. SaveInv => SavedMeansStored
    BY DEF SaveInv, Sound, Lane, SavedMeansStored
  <1> QED BY <1>1, SaveAlways, PTL

\* The page's record is well formed, only the newest request is waited for, and autosave
\* is suspended exactly as often as the wire and an unanswered refusal hold it, in every
\* order of holds, releases, refusals, merges and saves (suspendAutosave, resumeAutosave,
\* holdForConflict, releaseConflictHold).
THEOREM HoldsAreCounted == Spec => []HoldsAgree
  <1>1. ASSUME SaveInv PROVE HoldsAgree
    <2>1. World /\ Lane(p) /\ p.out = None /\ Counted(p) /\ NetOf(net, p, file)
      BY <1>1 DEF SaveInv, Sound
    <2>2. file.text \in Texts /\ file.id \in Nat \cup {None, Stranger} /\ frame \in OrNone(Texts)
      BY <2>1 DEF World, Files
    <2>3. net \subseteq Requests /\ ({r \in net : r.live} # {} => InProgress(p))
      BY <2>1 DEF NetOf, InProgress
    <2>4. SuspensionCounted /\ p.autosaveSuspended \in 0 .. 2
      BY <2>1 DEF Counted, Holds, SuspensionCounted
    <2>5. p.job # None => p.job.stage \in {"sent", "asking"} /\ p.job.id \in 1 .. p.ids
      BY <2>1 DEF Lane, Page, OrNone, Jobs
    <2> QED BY <2>1, <2>2, <2>3, <2>4, <2>5 DEF HoldsAgree, TypeOK, Lane, Page
  <1> QED BY <1>1, SaveAlways, PTL

\* A page whose gate says clean holds no edit the file lacks: the gate is cleared only
\* by a save that accounts for all that was typed, by a comparison with what was saved,
\* or by the frame that replaces the page (GateClearIfUnchanged, NothingToSave, Applied).
\* Left out is a file that a late save without a stamp took back, which is one a person
\* chose to send.
THEOREM GateHonest == Spec => []GateNeverUnderReports
  <1>1. SaveInv => GateNeverUnderReports
    BY DEF SaveInv, Sound, Read, GateNeverUnderReports
  <1> QED BY <1>1, SaveAlways, PTL

\* No save under a stamp takes the file back: the stamp is always one that the save's own
\* text covers, in the first request, the re-send and the save after a late duplicate, or
\* names the very version a person chose to overwrite. And no save is sent without a stamp
\* before a person chose to overwrite and the host named no version: until one of those
\* takes back an edit of this tab, every step is one or the other (sendSave, seedEtag,
\* saveOverwritingConflict).
THEOREM EditsKept == Spec => FileKeepsEdits
  <1> DEFINE Kept == /\ file'.text.mine >= file.text.mine
                     /\ file'.text.theirs >= file.text.theirs \/ file.text.theirs \in p.consent
             A == Kept \/ LastWriteWins \/ rewound
  <1>1. ASSUME SaveInv, [Next]_vars PROVE [A]_vars
    <2> SUFFICES ASSUME ~rewound PROVE A
      OBVIOUS
    <2>1. file.text.mine \in Nat /\ file.text.theirs \in Nat
      BY <1>1 DEF SaveInv, World, Files, Texts
    <2>2. CASE file'.text = file.text
      BY <2>1, <2>2
    <2>3. CASE \E r \in net : Store(r)
      <3>1. PICK r \in net : Store(r)
        BY <2>3
      <3>2. CASE r.etag = None
        <4>1. None \in p.consent
          BY <1>1, <3>1, <3>2, StoreReads
        <4> QED BY <3>1, <3>2, <4>1 DEF LastWriteWins
      <3>3. CASE r.etag # None
        <4>1. r.text \in Texts
          BY <1>1 DEF SaveInv, Sound, NetOf, Requests
        <4>2. ~rewound' /\ file'.text = r.text
          BY <3>1, <3>3 DEF Store
        <4> QED BY <1>1, <2>1, <3>1, <3>3, <4>1, <4>2, StoreReads DEF Texts
      <3> QED BY <3>2, <3>3
    <2>4. CASE \E id \in {None, Stranger} : Other(id)
      <3>1. file' = [text |-> [file.text EXCEPT !.theirs = made'], id |-> file'.id]
            /\ made' = made + 1
        BY <2>4 DEF Other
      <3>2. file'.text.mine = file.text.mine /\ file'.text.theirs = made + 1
        BY <1>1, <3>1 DEF SaveInv, World, Files, Texts
      <3>3. made \in Nat /\ file.text.theirs <= made
        BY <1>1, SaveAssumption DEF SaveInv, World
      <3> QED BY <2>1, <3>2, <3>3
    <2>5. file'.text = file.text \/ (\E r \in net : Store(r))
            \/ (\E id \in {None, Stranger} : Other(id))
      <3>1. CASE Edit \/ SavePage \/ SavePageSoon \/ FireSoon \/ Fire \/ Trail \/ WindowPasses
        BY <3>1 DEF Edit, SavePage, SavePageSoon, FireSoon, Fire, Trail, WindowPasses,
                    Asking, outside
      <3>2. CASE TakeAnswer \/ HostMeta \/ Unreachable \/ Timeout \/ NetworkError
        BY <3>2 DEF TakeAnswer, HostMeta, Unreachable, Timeout, NetworkError, outside
      <3>3. CASE SeedEtag \/ Overwrite \/ Sync
        BY <3>3 DEF SeedEtag, Overwrite, Sync, Asking, outside
      <3>4. CASE HoldSaving \/ ReleaseSaving \/ HoldAllSaves \/ ReleaseAllSaves
                   \/ Quiesce \/ FlushBytes \/ Resume
        BY <3>4 DEF HoldSaving, ReleaseSaving, HoldAllSaves, ReleaseAllSaves, Quiesce,
                    FlushBytes, Resume, Asking, outside
      <3>5. CASE \E r \in net : Refuse(r) \/ Lose(r)
        BY <3>5 DEF Refuse, Lose
      <3>6. CASE Forget
        BY <1>1, <3>6 DEF Forget, SaveInv, World, Files
      <3>7. CASE UNCHANGED vars
        BY <3>7 DEF vars
      <3> QED BY <1>1, <3>1, <3>2, <3>3, <3>4, <3>5, <3>6, <3>7 DEF Next
    <2> QED BY <2>2, <2>3, <2>4, <2>5
  <1> QED BY <1>1, SaveAlways, PTL DEF Spec, FileKeepsEdits

-----------------------------------------------------------------------------
(* Nothing typed is forgotten. Work that is not saved is remembered by     *)
(* what will replay it: of these, some stand whatever the save on the wire *)
(* comes to, some wait for its end, and a page without one may have been   *)
(* told that its work stays behind.                                        *)

Stands(q) ==
    \/ q.due \/ q.trail
    \/ q.previewHold /\ (q.previewMissed \/ q.previewAutosaveMissed)
    \/ q.autosaveSuspended > 0 /\ q.autosaveMissed
    \/ q.quiesced /\ q.parkedAutosave

Waits(q) == q.pendingSave \/ q.pendingAutosave

\* The save on the wire, if any, is of the page as it reads.
Whole(q) == q.job = None \/ ~q.touched

Told(q) == q.failed \/ q.parkedWork \/ q.conflictHold

Minded(q) == q.dirty => Stands(q) \/ (q.job # None /\ (Waits(q) \/ ~q.touched))
Drains(q) == q.dirty => Stands(q) \/ Waits(q) \/ (q.job # None /\ ~q.touched)
Tended(q) == Minded(q) \/ (q.job = None /\ Told(q))

\* Neither a preview nor the session begins or ends between x and y.
Alike(y, x) == y.quiesced = x.quiesced /\ y.previewHold = x.previewHold

\* y is a later form of x, as far as this goes.
After(y, x) ==
    /\ Page(y) /\ Alike(y, x) /\ y.unknown = x.unknown /\ (y.dirty => x.dirty)
    /\ Whole(x) => Whole(y)

LEMMA AfterItself == ASSUME NEW x, Page(x) PROVE After(x, x)
  BY DEF After, Alike

LEMMA AfterOn ==
    ASSUME NEW x, NEW y, NEW z, After(y, x), After(z, y)
    PROVE  After(z, x)
  BY DEF After, Alike

\* A save that goes out carries all there is.
LEMMA SendTends ==
    ASSUME NEW q, Page(q), NEW auto \in BOOLEAN
    PROVE  LET y == Send(q, auto)
           IN  /\ y.job # None /\ ~y.touched /\ y.unknown = q.unknown /\ y.dirty = q.dirty
               /\ Minded(y) /\ After(y, q)
  <1> DEFINE job == [id |-> q.ids + 1, etag |-> q.stamp, text |-> q.text, auto |-> auto,
                     resent |-> FALSE, resolved |-> FALSE, stage |-> "sent", answer |-> None]
             out == [id |-> q.ids + 1, etag |-> q.stamp, text |-> q.text, live |-> TRUE]
             y   == Send(q, auto)
  <1>1. job \in Jobs
    BY DEF Page, Jobs, OrNone
  <1>2. job # None
    BY <1>1, SaveAssumption
  <1>3. y = [q EXCEPT !.ids = q.ids + 1, !.touched = FALSE, !.landed = FALSE,
                      !.broke = q.broke \/ (auto /\ q.autosaveSuspended > 0),
                      !.job = job, !.out = out]
    BY DEF Send, Post, Page, Fields
  <1>4. Page(y)
    <2>1. out \in Requests
      BY DEF Page, Requests
    <2> QED BY <1>1, <1>3, <2>1 DEF Page, Fields, OrNone
  <1> HIDE DEF job, out, y
  <1>5. /\ y.job # None /\ ~y.touched /\ y.unknown = q.unknown /\ y.dirty = q.dirty
        /\ Alike(y, q)
    BY <1>2, <1>3 DEF Alike, Page, Fields
  <1> QED BY <1>4, <1>5 DEF Minded, After, Alike, Whole, y

\* What a page that may not save remembers it by.
LEMMA ClosedTends ==
    ASSUME NEW q, Page(q)
    PROVE  LET y == SessionClosed(q)
           IN  /\ q.job = None \/ Tended(q) => Tended(y)
               /\ Minded(q) => Minded(y)
               /\ After(y, q)
  BY DEF SessionClosed, Tended, Minded, Told, Stands, Waits, After, Alike, Whole, Page, Fields

\* A page that reads as saved has nothing to remember.
LEMMA NothingTends ==
    ASSUME NEW q, Page(q)
    PROVE  LET y == NothingToSave(q) IN Minded(y) /\ After(y, q)
  BY DEF NothingToSave, Minded, After, Alike, Whole, Page, Fields

\* A save asked for is made, waits, or is refused to a page that is told so.
LEMMA ExplicitTends ==
    ASSUME NEW q, Page(q), NEW permitted \in BOOLEAN,
           ~q.quiesced \/ permitted \/ q.job = None \/ Tended(q)
    PROVE  Tended(Explicit(q, permitted)) /\ Alike(Explicit(q, permitted), q)
  <1> DEFINE a == [q EXCEPT !.previewMissed = TRUE]
             b == [q EXCEPT !.pendingSave = TRUE]
  <1>1. q.previewHold => Minded(a)
    BY DEF Minded, Stands, Page, Fields
  <1>2. InProgress(q) => Minded(b)
    BY DEF Minded, Waits, InProgress, Page, Fields
  <1>3. Minded(NothingToSave(q)) /\ Minded(Send(q, FALSE))
    BY NothingTends, SendTends
  <1>4. q.quiesced /\ ~permitted => Tended(SessionClosed(q))
    BY ClosedTends
  <1>6. \A y \in {a, b, NothingToSave(q), Send(q, FALSE), SessionClosed(q)} : Alike(y, q)
    <2>1. Alike(a, q) /\ Alike(b, q)
      BY DEF Alike, Page, Fields
    <2> QED BY <2>1, NothingTends, SendTends, ClosedTends DEF After
  <1> HIDE DEF a, b
  <1>5. \/ q.quiesced /\ ~permitted /\ Explicit(q, permitted) = SessionClosed(q)
        \/ q.previewHold /\ Explicit(q, permitted) = a
        \/ InProgress(q) /\ Explicit(q, permitted) = b
        \/ Explicit(q, permitted) \in {NothingToSave(q), Send(q, FALSE)}
    BY DEF Explicit, a, b
  <1> QED BY <1>1, <1>2, <1>3, <1>4, <1>5, <1>6 DEF Tended

\* So is one that is forced.
LEMMA ForceTends ==
    ASSUME NEW q, Page(q), Tended(q)
    PROVE  Tended(SavePageForce(q)) /\ Alike(SavePageForce(q), q)
  <1> DEFINE a == [q EXCEPT !.previewMissed = TRUE]
             b == [q EXCEPT !.pendingSave = TRUE]
  <1>1. q.previewHold => Minded(a)
    BY DEF Minded, Stands, Page, Fields
  <1>2. InProgress(q) => Minded(b)
    BY DEF Minded, Waits, InProgress, Page, Fields
  <1>3. Minded(Send(q, FALSE)) /\ Tended(SessionClosed(q))
    BY SendTends, ClosedTends
  <1>5. \A y \in {a, b, Send(q, FALSE), SessionClosed(q)} : Alike(y, q)
    <2>1. Alike(a, q) /\ Alike(b, q)
      BY DEF Alike, Page, Fields
    <2>2. Alike(Send(q, FALSE), q) /\ Alike(SessionClosed(q), q)
      BY SendTends, ClosedTends DEF After
    <2> QED BY <2>1, <2>2
  <1> HIDE DEF a, b
  <1>4. \/ SavePageForce(q) \in {SessionClosed(q), Send(q, FALSE)}
        \/ q.previewHold /\ SavePageForce(q) = a
        \/ InProgress(q) /\ SavePageForce(q) = b
    BY DEF SavePageForce, a, b
  <1> QED BY <1>1, <1>2, <1>3, <1>4, <1>5 DEF Tended

\* An automatic save is made, or what will replay it remembers it.
LEMMA AutomaticTends ==
    ASSUME NEW q, Page(q)
    PROVE  Minded(Automatic(q)) /\ After(Automatic(q), q)
  <1> DEFINE c == [q EXCEPT !.parkedAutosave = TRUE]
             a == [q EXCEPT !.previewAutosaveMissed = TRUE]
             b == [q EXCEPT !.pendingAutosave = TRUE]
  <1>1. Page(c) /\ After(c, q) /\ (q.quiesced => Minded(c))
    BY DEF Minded, Stands, After, Alike, Whole, Page, Fields
  <1>2. After(a, q) /\ (q.previewHold => Minded(a))
    BY DEF Minded, Stands, After, Alike, Whole, Page, Fields
  <1>3. After(b, q) /\ (InProgress(q) => Minded(b))
    BY DEF Minded, Waits, InProgress, After, Alike, Whole, Page, Fields
  <1>4. ~q.dirty => Minded(q) /\ After(q, q)
    BY AfterItself DEF Minded
  <1> HIDE DEF a, b, c
  <1>5. After(SessionClosed(c), q) /\ (q.quiesced => Minded(SessionClosed(c)))
    BY <1>1, ClosedTends, AfterOn
  <1>6. \A y \in {NothingToSave(q), Send(q, TRUE)} : Minded(y) /\ After(y, q)
    BY NothingTends, SendTends
  <1>7. \/ q.quiesced /\ Automatic(q) = SessionClosed(c)
        \/ q.previewHold /\ Automatic(q) = a
        \/ InProgress(q) /\ Automatic(q) = b
        \/ ~q.dirty /\ Automatic(q) = q
        \/ Automatic(q) \in {NothingToSave(q), Send(q, TRUE)}
    BY DEF Automatic, a, b, c
  <1> QED BY <1>2, <1>3, <1>4, <1>5, <1>6, <1>7

\* Nor does the throttle lose one.
LEMMA ThrottledTends ==
    ASSUME NEW q, Page(q)
    PROVE  Minded(Throttled(q)) /\ After(Throttled(q), q)
  <1> DEFINE c == [q EXCEPT !.parkedAutosave = TRUE]
             a == [q EXCEPT !.previewAutosaveMissed = TRUE]
             b == [q EXCEPT !.pendingAutosave = TRUE]
             d == [q EXCEPT !.autosaveMissed = TRUE]
             e == [q EXCEPT !.trail = TRUE]
             f == [q EXCEPT !.recent = TRUE]
  <1>1. Page(c) /\ After(c, q) /\ (q.quiesced => Minded(c))
    BY DEF Minded, Stands, After, Alike, Whole, Page, Fields
  <1>2. After(a, q) /\ (q.previewHold => Minded(a))
    BY DEF Minded, Stands, After, Alike, Whole, Page, Fields
  <1>3. After(b, q) /\ (InProgress(q) => Minded(b))
    BY DEF Minded, Waits, InProgress, After, Alike, Whole, Page, Fields
  <1>4. After(d, q) /\ (q.autosaveSuspended > 0 => Minded(d))
    BY DEF Minded, Stands, After, Alike, Whole, Page, Fields
  <1>5. After(e, q) /\ Minded(e)
    BY DEF Minded, Stands, After, Alike, Whole, Page, Fields
  <1>6. Page(f) /\ After(f, q)
    BY DEF After, Alike, Whole, Page, Fields
  <1> HIDE DEF a, b, c, d, e, f
  <1>7. After(SessionClosed(c), q) /\ (q.quiesced => Minded(SessionClosed(c)))
    BY <1>1, ClosedTends, AfterOn
  <1>8. After(Automatic(f), q) /\ Minded(Automatic(f))
    BY <1>6, AutomaticTends, AfterOn
  <1>9. \/ q.previewHold /\ Throttled(q) = a
        \/ q.quiesced /\ Throttled(q) = SessionClosed(c)
        \/ q.autosaveSuspended > 0 /\ Throttled(q) = d
        \/ InProgress(q) /\ Throttled(q) = b
        \/ Throttled(q) \in {e, Automatic(f)}
    BY DEF Throttled, a, b, c, d, e, f
  <1> QED BY <1>2, <1>3, <1>4, <1>5, <1>7, <1>8, <1>9

-----------------------------------------------------------------------------
(* The holds' replays.                                                     *)

\* The last release of autosave replays what was turned away.
LEMMA ResumeTends ==
    ASSUME NEW q, Page(q)
    PROVE  LET y == ResumeAutosave(q)
           IN  After(y, q) /\ (Tended(q) => Tended(y)) /\ (Drains(q) => Drains(y))
  <1> DEFINE r == [q EXCEPT !.autosaveSuspended = @ - 1]
             s == [r EXCEPT !.soon = IF @ = "deferred" THEN "armed" ELSE @,
                            !.autosaveMissed = FALSE]
  <1>1. q.autosaveSuspended # 0 =>
          /\ Page(r) /\ After(r, q) /\ Waits(r) = Waits(q) /\ Told(r) = Told(q)
          /\ r.job = q.job /\ r.touched = q.touched /\ r.dirty = q.dirty
    BY DEF After, Alike, Whole, Waits, Told, Page, Fields
  <1>2. q.autosaveSuspended # 0 /\ Stands(q) =>
          Stands(r) \/ (r.autosaveSuspended = 0 /\ r.autosaveMissed)
    BY DEF Stands, Page, Fields
  <1> HIDE DEF r
  <1>3. Page(r) =>
          /\ Page(s) /\ After(s, r) /\ Waits(s) = Waits(r) /\ Told(s) = Told(r)
          /\ s.job = r.job /\ s.touched = r.touched /\ s.dirty = r.dirty
    BY DEF After, Alike, Whole, Waits, Told, Page, Fields
  <1>4. Page(r) /\ ~r.autosaveMissed /\ Stands(r) => Stands(s)
    BY DEF Stands, Page, Fields
  <1> HIDE DEF s
  <1>5. CASE q.autosaveSuspended = 0
    BY <1>5, AfterItself DEF ResumeAutosave
  <1>6. CASE q.autosaveSuspended # 0 /\ r.autosaveSuspended > 0
    <2>1. ResumeAutosave(q) = r
      BY <1>6 DEF ResumeAutosave, r
    <2>2. Stands(q) => Stands(r)
      BY <1>2, <1>6
    <2> QED BY <1>1, <1>6, <2>1, <2>2 DEF Tended, Minded, Drains
  <1>7. CASE q.autosaveSuspended # 0 /\ ~(r.autosaveSuspended > 0) /\ ~r.autosaveMissed
    <2>1. ResumeAutosave(q) = s
      BY <1>7 DEF ResumeAutosave, r, s
    <2>2. Stands(q) => Stands(s)
      BY <1>1, <1>2, <1>4, <1>7
    <2>3. After(s, q)
      BY <1>1, <1>3, <1>7, AfterOn
    <2> QED BY <1>1, <1>3, <1>7, <2>1, <2>2, <2>3 DEF Tended, Minded, Drains
  <1>8. CASE q.autosaveSuspended # 0 /\ ~(r.autosaveSuspended > 0) /\ r.autosaveMissed
    <2>1. ResumeAutosave(q) = Throttled(s)
      BY <1>8 DEF ResumeAutosave, r, s
    <2>2. Minded(Throttled(s)) /\ After(Throttled(s), s)
      BY <1>1, <1>3, <1>8, ThrottledTends
    <2>3. After(Throttled(s), q)
      BY <1>1, <1>3, <1>8, <2>2, AfterOn
    <2> QED BY <2>1, <2>2, <2>3 DEF Tended, Minded, Drains
  <1> QED BY <1>5, <1>6, <1>7, <1>8

\* And so does the release of a refusal, which no longer tells of anything.
LEMMA ReleaseTends ==
    ASSUME NEW q, Page(q)
    PROVE  LET y == ReleaseConflictHold(q)
           IN  After(y, q) /\ (Drains(q) => Drains(y))
  <1> DEFINE r == [q EXCEPT !.conflictHold = FALSE, !.conflictEtag = None]
  <1>1. After(r, q) /\ Page(r) /\ (Drains(q) => Drains(r))
    BY DEF After, Alike, Whole, Drains, Stands, Waits, Page, Fields
  <1> HIDE DEF r
  <1>2. After(ResumeAutosave(r), r) /\ (Drains(r) => Drains(ResumeAutosave(r)))
    BY <1>1, ResumeTends
  <1>3. ReleaseConflictHold(q) \in {q, ResumeAutosave(r)}
    BY DEF ReleaseConflictHold, r
  <1> QED BY <1>1, <1>2, <1>3, AfterItself, AfterOn

LEMMA ResolvedTends ==
    ASSUME NEW q, Page(q), NEW etag
    PROVE  After(ConflictResolvedBySync(q, etag), q)
  BY ReleaseTends, AfterItself DEF ConflictResolvedBySync

-----------------------------------------------------------------------------
(* The end of a save.                                                      *)

\* What waited for the end of a save is saved, asked for again, or told of.
LEMMA DrainTends ==
    ASSUME NEW q, Page(q), Whole(q),
           (q.unknown = None /\ Drains(q)) \/ (q.job = None /\ Told(q))
    PROVE  Tended(DrainPendingSave(q)) /\ Alike(DrainPendingSave(q), q)
  <1> DEFINE c == [q EXCEPT !.pendingSave = FALSE, !.pendingAutosave = FALSE]
             d == [q EXCEPT !.pendingAutosave = FALSE, !.due = @ \/ q.pendingAutosave]
  <1>1. Page(c) /\ (c.job = None \/ Tended(c))
    BY DEF Tended, Minded, Whole, Page, Fields
  <1>2. ~q.pendingSave => Tended(d)
    BY DEF Tended, Minded, Drains, Told, Stands, Waits, Page, Fields
  <1>3. q.unknown # None => Tended(q)
    BY DEF Tended
  <1>6. Alike(c, q) /\ Alike(d, q) /\ Alike(q, q)
    BY DEF Alike, Page, Fields
  <1> HIDE DEF c, d
  <1>4. Tended(Explicit(c, FALSE)) /\ Alike(Explicit(c, FALSE), q)
    BY <1>1, <1>6, ExplicitTends DEF Alike
  <1>5. \/ q.unknown # None /\ DrainPendingSave(q) = q
        \/ DrainPendingSave(q) = Explicit(c, FALSE)
        \/ ~q.pendingSave /\ DrainPendingSave(q) = d
    BY DEF DrainPendingSave, c, d
  <1> QED BY <1>2, <1>3, <1>4, <1>5, <1>6

LEMMA FreePage ==
    ASSUME NEW q, Page(q)
    PROVE  LET f == Free(q)
           IN  /\ Page(f) /\ f.job = None /\ f.unknown = q.unknown
               /\ f.dirty = q.dirty /\ f.touched = q.touched
               /\ Stands(f) = Stands(q) /\ Waits(f) = Waits(q) /\ Alike(f, q)
  BY DEF Free, Stands, Waits, Alike, Page, Fields, OrNone

\* What was typed behind a save that succeeded is what waited for it.
LEMMA SucceededTends ==
    ASSUME NEW q, Page(q), q.job # None, Tended(q), q.unknown = None
    PROVE  Tended(Succeeded(q)) /\ Alike(Succeeded(q), q)
  <1> DEFINE f == Free(q)
             r == [f EXCEPT !.parkedWork = FALSE, !.saved = q.job.text, !.failed = FALSE,
                            !.missing = @ \/ ~q.landed]
             s == GateClearIfUnchanged(r)
             t == ReleaseConflictHold(s)
  <1>1. Minded(q) /\ q.job.text \in Texts
    BY DEF Tended, Page, Jobs, OrNone
  <1>2. /\ Page(f) /\ f.job = None /\ f.unknown = None
        /\ f.dirty = q.dirty /\ f.touched = q.touched
        /\ Stands(f) = Stands(q) /\ Waits(f) = Waits(q) /\ Alike(f, q)
    BY FreePage
  <1> HIDE DEF f
  <1>3. Page(r) /\ r.job = None /\ r.unknown = None /\ r.dirty = f.dirty
        /\ r.touched = f.touched /\ Alike(r, f)
    BY <1>1, <1>2 DEF Alike, Page, Fields
  <1>4. (Stands(f) => Stands(r)) /\ (Waits(f) => Waits(r))
    BY <1>2 DEF Stands, Waits, Page, Fields
  <1> HIDE DEF r
  <1>5. Page(s) /\ s.job = None /\ s.unknown = None /\ (s.dirty => r.dirty /\ r.touched)
        /\ Alike(s, r)
    BY <1>3 DEF GateClearIfUnchanged, Alike, Page, Fields
  <1>6. (Stands(r) => Stands(s)) /\ (Waits(r) => Waits(s))
    BY <1>3 DEF GateClearIfUnchanged, Stands, Waits, Page, Fields
  <1> HIDE DEF s
  <1>7. Drains(s) /\ Whole(s)
    BY <1>1, <1>2, <1>3, <1>4, <1>5, <1>6 DEF Minded, Drains, Whole
  <1>8. After(t, s) /\ Drains(t)
    BY <1>5, <1>7, ReleaseTends
  <1> HIDE DEF t
  <1>9. Page(t) /\ Whole(t) /\ t.unknown = None /\ Drains(t) /\ Alike(t, q)
    BY <1>2, <1>3, <1>5, <1>7, <1>8 DEF After, Alike
  <1>10. Succeeded(q) = DrainPendingSave(t)
    BY DEF Succeeded, t, s, r, f
  <1> QED BY <1>9, <1>10, DrainTends DEF Alike

LEMMA FailedTends ==
    ASSUME NEW q, Page(q)
    PROVE  Tended(Failed(q)) /\ Alike(Failed(q), q)
  <1> DEFINE f == Free(q)
             r == [f EXCEPT !.failed = TRUE]
  <1>1. Page(f) /\ f.job = None /\ Alike(f, q)
    BY FreePage
  <1> HIDE DEF f
  <1>2. Page(r) /\ r.job = None /\ Told(r) /\ Whole(r) /\ Alike(r, q)
    BY <1>1 DEF Told, Whole, Alike, Page, Fields
  <1> HIDE DEF r
  <1>3. Failed(q) = DrainPendingSave(r)
    BY DEF Failed, r, f
  <1> QED BY <1>2, <1>3, DrainTends DEF Alike

LEMMA RefusedTends ==
    ASSUME NEW q, Lane(q), q.out = None, Counted(q), NEW etag
    PROVE  Tended(Refused(q, etag)) /\ Alike(Refused(q, etag), q)
  <1> DEFINE f == Free(q)
             h == HoldForConflict(f, etag)
             r == DrainPendingSave(h)
             s == ConflictResolvedBySync(r, etag)
  <1>1. Lane(f) /\ Counted(f) /\ f.job = None /\ Alike(f, q)
    BY FreeFrees, FreePage DEF Frees, Lane
  <1> HIDE DEF f
  <1>2. Lane(h)
    BY <1>1, HoldKeeps DEF Keeps
  <1>3. Told(h) /\ h.job = None /\ Alike(h, q)
    BY <1>1 DEF HoldForConflict, Told, Alike, Lane, Page, Fields
  <1> HIDE DEF h
  <1>4. Tended(r) /\ Alike(r, q)
    BY <1>2, <1>3, DrainTends DEF Lane, Whole, Alike
  <1>5. Page(r)
    BY <1>2, DrainKeeps DEF Keeps, Lane
  <1> HIDE DEF r
  <1>6. Page(s) /\ Alike(s, q)
    BY <1>4, <1>5, ResolvedTends DEF After, Alike
  <1> HIDE DEF s
  <1>7. Minded(Throttled(s)) /\ (~s.dirty => Minded(s)) /\ Alike(Throttled(s), q)
    BY <1>6, ThrottledTends DEF Minded, After, Alike
  <1>8. Tended(SaveAfterMerge(s, s.dirty)) /\ Alike(SaveAfterMerge(s, s.dirty), q)
    BY <1>6, <1>7 DEF SaveAfterMerge, Tended
  <1>9. Refused(q, etag) \in {r, SaveAfterMerge(s, s.dirty)}
    BY DEF Refused, s, r, h, f
  <1> QED BY <1>4, <1>8, <1>9

\* What the page makes of an answer.
LEMMA AnswerTends ==
    ASSUME NEW q, Lane(q), q.out = None, Counted(q), q.job # None, q.job.answer # None,
           Tended(q)
    PROVE  LET y == IF q.job.stage = "sent" THEN Answered(q) ELSE Recovered(q)
           IN  Tended(y) /\ Alike(y, q)
  <1> DEFINE e == RecordEtag(q, q.job.answer.etag)
             u == [e EXCEPT !.unknown = None]
             job == [q.job EXCEPT !.etag = e.stamp, !.id = q.ids + 1, !.resolved = TRUE,
                                  !.stage = "sent", !.answer = None]
             again == [q.job EXCEPT !.resent = TRUE, !.stage = "sent", !.answer = None]
             x == NotOurs(q)
  <1>1. /\ Page(q) /\ Minded(q) /\ q.job \in Jobs /\ q.job.answer \in Answers /\ q.ids \in Nat
    <2>1. Page(q) /\ q.job \in Jobs /\ q.ids \in Nat
      BY DEF Lane, Page, OrNone
    <2>2. q.job.answer \in Answers
      BY <2>1 DEF Jobs, OrNone
    <2> QED BY <2>1, <2>2 DEF Tended
  <1>2. /\ Page(e) /\ e.job = q.job /\ e.ids = q.ids /\ e.touched = q.touched
        /\ e.dirty = q.dirty /\ Stands(e) = Stands(q) /\ Waits(e) = Waits(q) /\ Alike(e, q)
    BY <1>1 DEF RecordEtag, Alike, Stands, Waits, Page, Fields, OrNone, Stamps, Seeds, Answers
  <1> HIDE DEF e
  <1>3. /\ Page(u) /\ u.job = q.job /\ u.touched = q.touched /\ u.unknown = None
        /\ u.dirty = q.dirty /\ Stands(u) = Stands(q) /\ Waits(u) = Waits(q) /\ Alike(u, q)
    BY <1>2 DEF Alike, Stands, Waits, Page, Fields
  <1> HIDE DEF u
  <1>4. Tended(TookOk(q)) /\ Alike(TookOk(q), q)
    <2>1. Tended(u)
      BY <1>1, <1>3 DEF Minded, Tended
    <2>2. TookOk(q) = Succeeded(u)
      BY DEF TookOk, u, e
    <2> QED BY <1>3, <2>1, <2>2, SucceededTends DEF Alike
  <1>5. Tended(LateDuplicate(q)) /\ Alike(LateDuplicate(q), q)
    <2>1. job \in Jobs /\ job # None
      <3>1. e.stamp \in Stamps /\ q.ids + 1 \in Nat
        BY <1>1, <1>2 DEF Page
      <3>2. job \in Jobs
        BY <1>1, <3>1 DEF Jobs, OrNone
      <3> QED BY <3>2, SaveAssumption
    <2> DEFINE y == LateDuplicate(q)
               out == [id |-> q.ids + 1, etag |-> e.stamp, text |-> q.job.text, live |-> TRUE]
    <2>2. y = [e EXCEPT !.unknown = None, !.ids = q.ids + 1, !.job = job, !.out = out]
      BY <1>2 DEF LateDuplicate, Post, Page, Fields, e
    <2> HIDE DEF y, job, out
    <2>3. y.job = job /\ y.touched = e.touched /\ y.dirty = e.dirty
          /\ Stands(y) = Stands(e) /\ Waits(y) = Waits(e) /\ Alike(y, e)
      BY <1>2, <2>2 DEF Alike, Stands, Waits, Page, Fields
    <2> QED BY <1>1, <1>2, <2>1, <2>3 DEF Tended, Minded, Alike, y
  <1>8. Page(x) /\ x.job = q.job /\ x.touched = q.touched /\ x.dirty = q.dirty
        /\ Stands(x) = Stands(q) /\ Waits(x) = Waits(q) /\ Alike(x, q)
    BY <1>1 DEF NotOurs, Alike, Stands, Waits, Page, Fields
  <1> HIDE DEF x
  <1>6. Tended(Resend(q)) /\ Alike(Resend(q), q)
    <2>1. again # None
      <3>1. again \in Jobs
        BY <1>1 DEF Jobs, OrNone
      <3> QED BY <3>1, SaveAssumption
    <2> DEFINE y == Resend(q)
               out == [id |-> q.job.id, etag |-> q.job.etag, text |-> q.job.text, live |-> TRUE]
    <2>3. y = [x EXCEPT !.job = again, !.out = out]
      <3>1. /\ [x EXCEPT !.job = again].job = again
            /\ [[x EXCEPT !.job = again] EXCEPT !.out = out] = [x EXCEPT !.job = again, !.out = out]
        BY <1>8 DEF Page, Fields
      <3>2. again.id = q.job.id /\ again.etag = q.job.etag /\ again.text = q.job.text
        BY <1>1 DEF Jobs
      <3> QED BY <1>8, <3>1, <3>2 DEF Resend, Post, x
    <2> HIDE DEF y, again, out
    <2>4. y.job = again /\ y.touched = x.touched /\ y.dirty = x.dirty
          /\ Stands(y) = Stands(x) /\ Waits(y) = Waits(x) /\ Alike(y, x)
      BY <1>8, <2>3 DEF Alike, Stands, Waits, Page, Fields
    <2> QED BY <1>1, <1>8, <2>1, <2>4 DEF Tended, Minded, Alike, y
  <1>9. Tended(Failed(x)) /\ Alike(Failed(x), q)
    BY <1>8, FailedTends DEF Alike
  <1>7. LET y == Refused(q, q.job.answer.etag) IN Tended(y) /\ Alike(y, q)
    BY RefusedTends
  <1> QED BY <1>4, <1>5, <1>6, <1>7, <1>9 DEF Answered, Recovered, x

-----------------------------------------------------------------------------
(* Every step keeps what is not saved in mind. Two hazards are left out by *)
(* hypothesis: typing into a closed session, and a preview over one.       *)

\* No scenario has an exit beside either.
Apart == \A S \in Scenarios : "exit" \in S => "typed" \notin S /\ "preview" \notin S

\* The inductive invariant.
RestInv ==
    /\ may \in Scenarios
    /\ p.quiesced => "exit" \in may
    /\ p.previewHold => "preview" \in may
    /\ Tended(p)

\* What a handler makes of the page is what it is next.
LEMMA BecomesTends ==
    ASSUME RestInv, Lane(p'), NEW q, Tended(q), Alike(q, p), Becomes(q), may' = may
    PROVE  RestInv'
  <1>1. p' = [q EXCEPT !.out = None]
    BY DEF Becomes
  <1>2. DOMAIN q = Fields
    BY <1>1 DEF Lane, Page
  <1> DEFINE z == [q EXCEPT !.out = None]
  <1>3. Tended(z) /\ Alike(z, p)
    BY <1>2 DEF Tended, Minded, Told, Stands, Waits, Alike, Fields
  <1> QED BY <1>1, <1>3 DEF RestInv, Alike

LEMMA TypingTends ==
    ASSUME Apart, SaveInv, SaveInv', RestInv, Edit PROVE RestInv'
  <1> DEFINE q == [p EXCEPT !.text.mine = @ + 1, !.dirty = TRUE, !.touched = TRUE,
                            !.failed = FALSE, !.due = @ \/ ~p.quiesced]
  <1>1. ~p.quiesced
    BY DEF Apart, RestInv, Edit
  <1>2. q.due /\ Alike(q, p)
    BY <1>1 DEF SaveInv, Sound, Lane, Page, Fields, Alike
  <1>3. Becomes(q) /\ may' = may /\ Lane(p')
    BY DEF Edit, outside, SaveInv, Sound
  <1> HIDE DEF q
  <1>4. Tended(q)
    BY <1>2 DEF Tended, Minded, Stands
  <1> QED BY <1>2, <1>3, <1>4, BecomesTends

LEMMA SavingTends ==
    ASSUME SaveInv, SaveInv', RestInv,
           SavePage \/ SavePageSoon \/ FireSoon \/ Fire \/ Trail \/ WindowPasses
    PROVE  RestInv'
  <1>1. Lane(p) /\ Page(p) /\ Lane(p') /\ Tended(p)
    BY DEF SaveInv, Sound, Lane, RestInv
  <1>2. may' = may
    BY DEF SavePage, SavePageSoon, FireSoon, Fire, Trail, WindowPasses, Asking, outside
  <1>3. CASE SavePage
    <2>1. Tended(Explicit(p, FALSE)) /\ Alike(Explicit(p, FALSE), p)
      BY <1>1, ExplicitTends
    <2> QED BY <1>1, <1>2, <1>3, <2>1, BecomesTends DEF SavePage
  <1>4. CASE SavePageSoon
    <2> DEFINE q == [p EXCEPT !.soon = "armed"]
    <2>1. Tended(q) /\ Alike(q, p)
      BY <1>1 DEF Tended, Minded, Told, Stands, Waits, Alike, Page, Fields
    <2> HIDE DEF q
    <2> QED BY <1>1, <1>2, <1>4, <2>1, BecomesTends DEF SavePageSoon, q
  <1>5. CASE FireSoon
    <2> DEFINE d == [p EXCEPT !.soon = "deferred"]
               n == [p EXCEPT !.soon = None]
               q == IF p.autosaveSuspended > 0 \/ p.quiesced THEN d ELSE Explicit(n, FALSE)
    <2>1. Tended(d) /\ Alike(d, p)
      BY <1>1 DEF Tended, Minded, Told, Stands, Waits, Alike, Page, Fields
    <2>2. Page(n) /\ Alike(n, p)
      BY <1>1 DEF Alike, Page, Fields
    <2> HIDE DEF d, n
    <2>3. ~p.quiesced => Tended(Explicit(n, FALSE)) /\ Alike(Explicit(n, FALSE), p)
      BY <2>2, ExplicitTends DEF Alike
    <2>4. Becomes(q)
      BY <1>5 DEF FireSoon, d, n
    <2>5. Tended(q) /\ Alike(q, p)
      BY <2>1, <2>3
    <2> HIDE DEF q
    <2> QED BY <1>1, <1>2, <2>4, <2>5, BecomesTends
  <1>6. CASE Fire
    <2> DEFINE x == [p EXCEPT !.due = FALSE]
               y == Throttled(x)
               q == [y EXCEPT !.running = IF y.out # None THEN "sent"
                                          ELSE IF Rides(p) THEN "trail" ELSE None]
    <2>1. Page(x) /\ Alike(x, p)
      BY <1>1 DEF Alike, Page, Fields
    <2>2. Becomes(q)
      BY <1>6 DEF Fire
    <2> HIDE DEF x
    <2>3. Minded(y) /\ Page(y) /\ Alike(y, p)
      BY <2>1, ThrottledTends DEF After, Alike
    <2> HIDE DEF y
    <2>4. Tended(q) /\ Alike(q, p)
      BY <2>3 DEF Tended, Minded, Stands, Waits, Alike, Page, Fields
    <2> HIDE DEF q
    <2> QED BY <1>1, <1>2, <2>2, <2>4, BecomesTends
  <1>7. CASE Trail
    <2> DEFINE x == [p EXCEPT !.trail = FALSE]
               y == Automatic(x)
               q == [y EXCEPT !.running = IF @ = "trail"
                                          THEN IF y.out # None THEN "sent" ELSE None ELSE @]
    <2>1. Page(x) /\ Alike(x, p)
      BY <1>1 DEF Alike, Page, Fields
    <2>2. Becomes(q)
      BY <1>7 DEF Trail
    <2> HIDE DEF x
    <2>3. Minded(y) /\ Page(y) /\ Alike(y, p)
      BY <2>1, AutomaticTends DEF After, Alike
    <2> HIDE DEF y
    <2>4. Tended(q) /\ Alike(q, p)
      BY <2>3 DEF Tended, Minded, Stands, Waits, Alike, Page, Fields
    <2> HIDE DEF q
    <2> QED BY <1>1, <1>2, <2>2, <2>4, BecomesTends
  <1>8. CASE WindowPasses
    <2> DEFINE q == [p EXCEPT !.recent = FALSE]
    <2>1. Tended(q) /\ Alike(q, p)
      BY <1>1 DEF Tended, Minded, Told, Stands, Waits, Alike, Page, Fields
    <2> HIDE DEF q
    <2> QED BY <1>1, <1>2, <1>8, <2>1, BecomesTends DEF WindowPasses, q
  <1> QED BY <1>3, <1>4, <1>5, <1>6, <1>7, <1>8

LEMMA HoldingTends ==
    ASSUME Apart, SaveInv, SaveInv', RestInv,
           HoldSaving \/ ReleaseSaving \/ HoldAllSaves \/ ReleaseAllSaves
             \/ Quiesce \/ FlushBytes \/ Resume
    PROVE  RestInv'
  <1>1. Lane(p) /\ Page(p) /\ Lane(p') /\ Tended(p) /\ p.autosaveSuspended \in Nat
    BY DEF SaveInv, Sound, Lane, Page, RestInv
  <1>2. may' = may /\ ~(p.quiesced /\ p.previewHold)
    BY DEF HoldSaving, ReleaseSaving, HoldAllSaves, ReleaseAllSaves, Quiesce, FlushBytes,
           Resume, Asking, outside, Apart, RestInv
  <1>3. CASE HoldSaving
    <2> DEFINE q == [p EXCEPT !.wire = TRUE, !.autosaveSuspended = @ + 1]
    <2>1. Tended(q) /\ Alike(q, p)
      BY <1>1 DEF Tended, Minded, Told, Stands, Waits, Alike, Page, Fields
    <2> HIDE DEF q
    <2> QED BY <1>1, <1>2, <1>3, <2>1, BecomesTends DEF HoldSaving, q
  <1>4. CASE ReleaseSaving
    <2> DEFINE x == [p EXCEPT !.wire = FALSE]
    <2>1. Page(x) /\ Tended(x) /\ Alike(x, p)
      BY <1>1 DEF Tended, Minded, Told, Stands, Waits, Alike, Page, Fields
    <2>2. Becomes(ResumeAutosave(x))
      BY <1>4 DEF ReleaseSaving
    <2> HIDE DEF x
    <2>3. Tended(ResumeAutosave(x)) /\ Alike(ResumeAutosave(x), p)
      BY <2>1, ResumeTends DEF After, Alike
    <2> QED BY <1>1, <1>2, <2>2, <2>3, BecomesTends
  <1>5. CASE HoldAllSaves
    <2> DEFINE q == [[p EXCEPT !.previewHold = TRUE] EXCEPT !.out = None]
    <2>1. p' = q /\ "preview" \in may
      BY <1>5 DEF HoldAllSaves, Becomes
    <2>2. Tended(q) /\ q.quiesced = p.quiesced
      BY <1>1 DEF Tended, Minded, Told, Stands, Waits, Page, Fields
    <2> QED BY <1>2, <2>1, <2>2 DEF RestInv
  <1>6. CASE ReleaseAllSaves
    <2> DEFINE x == [p EXCEPT !.previewHold = FALSE, !.previewMissed = FALSE,
                              !.previewAutosaveMissed = FALSE]
               q == IF p.previewMissed THEN Explicit(x, FALSE)
                    ELSE IF p.previewAutosaveMissed THEN Throttled(x) ELSE x
               z == [q EXCEPT !.out = None]
    <2>1. Page(x) /\ ~x.previewHold /\ ~x.quiesced
      BY <1>1, <1>2, <1>6 DEF ReleaseAllSaves, Page, Fields
    <2>2. ~p.previewMissed /\ ~p.previewAutosaveMissed => Tended(x)
      BY <1>1 DEF Tended, Minded, Told, Stands, Waits, Page, Fields
    <2>3. p' = z
      BY <1>6 DEF ReleaseAllSaves, Becomes
    <2> HIDE DEF x
    <2>4. Tended(Explicit(x, FALSE)) /\ Alike(Explicit(x, FALSE), x)
      BY <2>1, ExplicitTends
    <2>5. Tended(Throttled(x)) /\ Alike(Throttled(x), x)
      BY <2>1, ThrottledTends DEF After, Tended
    <2>6. Tended(q) /\ ~q.previewHold /\ ~q.quiesced
      BY <2>1, <2>2, <2>4, <2>5 DEF Alike
    <2> HIDE DEF q
    <2>7. DOMAIN q = Fields
      BY <1>1, <2>3 DEF Page, Lane
    <2>8. Tended(z) /\ ~z.previewHold /\ ~z.quiesced
      BY <2>6, <2>7 DEF Tended, Minded, Told, Stands, Waits, Fields
    <2> QED BY <1>2, <2>3, <2>8 DEF RestInv
  <1>7. CASE Quiesce
    <2> DEFINE q == [[p EXCEPT !.quiesced = TRUE] EXCEPT !.out = None]
    <2>1. p' = q /\ "exit" \in may
      BY <1>7 DEF Quiesce, Becomes
    <2>2. Tended(q) /\ q.previewHold = p.previewHold
      BY <1>1 DEF Tended, Minded, Told, Stands, Waits, Page, Fields
    <2> QED BY <1>2, <2>1, <2>2 DEF RestInv
  <1>8. CASE FlushBytes
    <2>1. Tended(Explicit(p, TRUE)) /\ Alike(Explicit(p, TRUE), p)
      BY <1>1, ExplicitTends
    <2> QED BY <1>1, <1>2, <1>8, <2>1, BecomesTends DEF FlushBytes
  <1>9. CASE Resume
    <2> DEFINE x == [p EXCEPT !.quiesced = FALSE, !.parkedAutosave = FALSE]
               y == IF p.parkedAutosave THEN Throttled(x) ELSE x
               q == [y EXCEPT !.soon = IF @ = "deferred" THEN "armed" ELSE @]
               z == [q EXCEPT !.out = None]
    <2>1. Page(x) /\ ~x.quiesced /\ x.previewHold = p.previewHold
      BY <1>1 DEF Page, Fields
    <2>2. ~p.parkedAutosave => Tended(x)
      BY <1>1 DEF Tended, Minded, Told, Stands, Waits, Page, Fields
    <2>3. p' = z
      BY <1>9 DEF Resume, Becomes
    <2> HIDE DEF x
    <2>4. Tended(y) /\ Page(y) /\ ~y.quiesced /\ y.previewHold = p.previewHold
      BY <2>1, <2>2, ThrottledTends DEF After, Alike, Tended
    <2> HIDE DEF y
    <2>5. Tended(z) /\ ~z.quiesced /\ z.previewHold = p.previewHold
      BY <2>4 DEF Tended, Minded, Told, Stands, Waits, Page, Fields
    <2> HIDE DEF z
    <2> QED BY <1>2, <2>3, <2>5 DEF RestInv
  <1> QED BY <1>3, <1>4, <1>5, <1>6, <1>7, <1>8, <1>9

LEMMA SyncingTends ==
    ASSUME SaveInv, SaveInv', RestInv, SeedEtag \/ Overwrite \/ Sync
    PROVE  RestInv'
  <1>1. Lane(p) /\ Page(p) /\ Lane(p') /\ Tended(p) /\ file.text \in Texts
    BY DEF SaveInv, World, Files, Sound, Lane, Page, RestInv
  <1>2. may' = may
    BY DEF SeedEtag, Overwrite, Sync, Asking, outside
  <1>3. CASE SeedEtag
    <2>1. PICK etag : Becomes([p EXCEPT !.seeding = [etag |-> etag, stale |-> FALSE]])
      BY <1>3 DEF SeedEtag
    <2> DEFINE q == [p EXCEPT !.seeding = [etag |-> etag, stale |-> FALSE]]
    <2>2. Tended(q) /\ Alike(q, p)
      BY <1>1 DEF Tended, Minded, Told, Stands, Waits, Alike, Page, Fields
    <2> HIDE DEF q
    <2> QED BY <1>1, <1>2, <2>1, <2>2, BecomesTends DEF q
  <1>4. CASE Overwrite
    <2> DEFINE n == [p EXCEPT !.seeding = None]
               x == IF p.seeding.stale THEN n ELSE Seeded(n, p.seeding.etag)
    <2>1. p.seeding.etag \in Stamps
      BY <1>1, <1>4 DEF Overwrite, Page, OrNone, Seeds
    <2>2. Page(x) /\ Tended(x) /\ Alike(x, p)
      BY <1>1, <2>1 DEF Seeded, Tended, Minded, Told, Stands, Waits, Alike, Page, Fields, OrNone
    <2>3. Becomes(SavePageForce(x))
      BY <1>4 DEF Overwrite
    <2> HIDE DEF x
    <2>4. Tended(SavePageForce(x)) /\ Alike(SavePageForce(x), p)
      BY <2>2, ForceTends DEF Alike
    <2> QED BY <1>1, <1>2, <2>3, <2>4, BecomesTends
  <1>5. CASE Sync
    <2> DEFINE text == frame
               diverged == p.dirty /\ p.text.mine > text.mine
               t == [text EXCEPT !.mine = IF diverged THEN p.text.mine ELSE @]
               r == [p EXCEPT !.text = t, !.dirty = diverged,
                              !.saved = IF diverged THEN @ ELSE text]
               e == RecordEtag(r, text)
               c == ConflictResolvedBySync(e, text)
               q == SaveAfterMerge(c, diverged)
    <2>1. text \in Texts /\ Becomes(q)
      BY <1>5 DEF Sync, Applied, SaveInv, World, OrNone
    <2>2. t \in Texts
      BY <1>1, <2>1 DEF Texts, Page
    <2> HIDE DEF t
    <2>3. Page(r) /\ Alike(r, p) /\ r.dirty = diverged
      BY <1>1, <2>1, <2>2 DEF Alike, Page, Fields
    <2> HIDE DEF r, diverged, text
    <2>4. Page(e) /\ Alike(e, p) /\ e.dirty = diverged
      BY <2>1, <2>3 DEF RecordEtag, Alike, Page, Fields, OrNone, Stamps, Seeds
    <2> HIDE DEF e
    <2>5. Page(c) /\ Alike(c, p) /\ (c.dirty => diverged)
      BY <2>4, ResolvedTends DEF After, Alike
    <2> HIDE DEF c
    <2>6. Tended(q) /\ Alike(q, p)
      BY <2>5, ThrottledTends DEF SaveAfterMerge, After, Alike, Tended, Minded
    <2> HIDE DEF q
    <2> QED BY <1>1, <1>2, <2>1, <2>6, BecomesTends
  <1> QED BY <1>3, <1>4, <1>5

LEMMA WireTends ==
    ASSUME SaveInv, SaveInv', RestInv, TakeAnswer \/ HostMeta \/ Unreachable
    PROVE  RestInv'
  <1>1. /\ Lane(p) /\ Page(p) /\ Lane(p') /\ Tended(p) /\ p.out = None /\ Counted(p)
        /\ p.job # None /\ file.text \in Texts /\ file.id \in Nat \cup {None, Stranger}
    <2>1. file.text \in Texts /\ file.id \in Nat \cup {None, Stranger}
      BY DEF SaveInv, World, Files
    <2>2. p.job # None
      BY DEF TakeAnswer, HostMeta, Unreachable, InProgress
    <2> QED BY <2>1, <2>2 DEF SaveInv, Sound, Lane, RestInv
  <1>2. may' = may
    BY DEF TakeAnswer, HostMeta, Unreachable, outside
  <1>3. CASE TakeAnswer
    <2> DEFINE q == IF p.job.stage = "sent" THEN Answered(p) ELSE Recovered(p)
    <2>1. Tended(q) /\ Alike(q, p)
      BY <1>1, <1>3, AnswerTends DEF TakeAnswer
    <2> HIDE DEF q
    <2> QED BY <1>1, <1>2, <1>3, <2>1, BecomesTends DEF TakeAnswer, q
  <1>4. CASE HostMeta
    <2> DEFINE a == [ok |-> TRUE, etag |-> file.text, saveId |-> file.id]
               q == [p EXCEPT !.job.answer = a]
    <2>1. q.job # None
      <3>1. p.job \in Jobs /\ a \in Answers
        BY <1>1 DEF Page, OrNone, Answers
      <3>2. [p.job EXCEPT !.answer = a] \in Jobs
        BY <3>1 DEF Jobs, OrNone
      <3>3. q.job = [p.job EXCEPT !.answer = a]
        BY <1>1 DEF Page, Fields
      <3> QED BY <3>2, <3>3, SaveAssumption
    <2>2. Tended(q) /\ Alike(q, p)
      BY <1>1, <2>1 DEF Tended, Minded, Told, Stands, Waits, Alike, Page, Fields
    <2> HIDE DEF q
    <2> QED BY <1>1, <1>2, <1>4, <2>2, BecomesTends DEF HostMeta, q
  <1>5. CASE Unreachable
    <2>1. Tended(Failed(p)) /\ Alike(Failed(p), p)
      BY <1>1, FailedTends
    <2> QED BY <1>1, <1>2, <1>5, <2>1, BecomesTends DEF Unreachable
  <1> QED BY <1>3, <1>4, <1>5

\* A save that is given up, and one whose outcome is asked for instead.
LEMMA FaultTends ==
    ASSUME SaveInv, SaveInv', RestInv, Timeout \/ NetworkError
    PROVE  RestInv'
  <1>1. Lane(p) /\ Page(p) /\ Lane(p') /\ Tended(p) /\ p.job # None /\ p.job \in Jobs
    <2>1. p.job # None
      BY DEF Timeout, NetworkError, InProgress
    <2> QED BY <2>1 DEF SaveInv, Sound, Lane, Page, OrNone, RestInv
  <1>2. may' = may
    BY DEF Timeout, NetworkError
  <1>3. ASSUME NEW q, Tended(q), Alike(q, p), p' = [q EXCEPT !.out = None]
        PROVE  RestInv'
    <2> DEFINE z == [q EXCEPT !.out = None]
    <2>1. DOMAIN q = Fields
      BY <1>1, <1>3 DEF Lane, Page
    <2>2. Tended(z) /\ Alike(z, p)
      BY <1>3, <2>1 DEF Tended, Minded, Told, Stands, Waits, Alike, Fields
    <2> QED BY <1>2, <1>3, <2>2 DEF RestInv, Alike
  <1>4. CASE Timeout
    <2> DEFINE job == [p.job EXCEPT !.stage = "asking", !.answer = None]
               lost == [id |-> p.job.id, etag |-> p.job.etag]
               q == [p EXCEPT !.unknown = lost, !.job = job]
               r == IF p.job.resent THEN Failed(q) ELSE q
    <2>1. p' = [r EXCEPT !.out = None]
      BY <1>1, <1>4 DEF Timeout, Page, Fields
    <2>2. job \in Jobs
      BY <1>1 DEF Jobs, OrNone
    <2>3. job # None
      BY <2>2, SaveAssumption
    <2> HIDE DEF job, lost
    <2>4. Page(q) /\ Tended(q) /\ Alike(q, p)
      BY <1>1, <2>2, <2>3 DEF Tended, Minded, Told, Stands, Waits, Alike, Page, Fields, OrNone
    <2> HIDE DEF q
    <2>5. Tended(r) /\ Alike(r, p)
      BY <2>4, FailedTends DEF Alike
    <2> HIDE DEF r
    <2> QED BY <1>3, <2>1, <2>5
  <1>5. CASE NetworkError
    <2>1. Tended(Failed(p)) /\ Alike(Failed(p), p)
      BY <1>1, FailedTends
    <2> QED BY <1>3, <1>5, <2>1 DEF NetworkError
  <1> QED BY <1>4, <1>5

\* The host's answer changes what the page waits for, and nothing it remembers.
LEMMA ReplyTends ==
    ASSUME NEW q, Page(q), Tended(q), NEW r, r.live => q.job # None,
           NEW a \in Answers, NEW l
    PROVE  LET x == IF r.live THEN [q EXCEPT !.job.answer = a] ELSE q
               y == [x EXCEPT !.landed = l]
           IN  Tended(x) /\ Alike(x, q) /\ Tended(y) /\ Alike(y, q)
  <1> DEFINE n == [q EXCEPT !.job.answer = a]
             x == IF r.live THEN n ELSE q
             y == [x EXCEPT !.landed = l]
  <1>1. r.live => n.job # None
    <2>1. q.job \in OrNone(Jobs) /\ n.job = [q.job EXCEPT !.answer = a]
      BY DEF Page, Fields
    <2>2. q.job # None => [q.job EXCEPT !.answer = a] \in Jobs
      BY <2>1 DEF Jobs, OrNone
    <2> QED BY <2>1, <2>2, SaveAssumption
  <1>2. r.live => Tended(n) /\ Alike(n, q)
    BY <1>1 DEF Tended, Minded, Told, Stands, Waits, Alike, Page, Fields
  <1>3. DOMAIN n = Fields /\ DOMAIN q = Fields
    BY DEF Page
  <1> HIDE DEF n
  <1>4. Tended(x) /\ Alike(x, q) /\ DOMAIN x = Fields
    BY <1>2, <1>3 DEF Alike
  <1> HIDE DEF x
  <1>5. Tended(y) /\ Alike(y, q)
    BY <1>4 DEF Tended, Minded, Told, Stands, Waits, Alike, Fields
  <1> QED BY <1>4, <1>5 DEF x, n

LEMMA HostTends ==
    ASSUME SaveInv, RestInv, \E r \in net : Store(r) \/ Refuse(r)
    PROVE  RestInv'
  <1>1. PICK r \in net : Store(r) \/ Refuse(r)
    OBVIOUS
  <1>2. Page(p) /\ Tended(p) /\ (r.live => p.job # None) /\ may' = may
    BY <1>1 DEF SaveInv, Sound, Lane, RestInv, NetOf, Store, Refuse
  <1>3. r \in Requests /\ file \in Files
    BY <1>1 DEF SaveInv, World, Sound, NetOf
  <1>4. CASE Store(r)
    <2> DEFINE a == [ok |-> TRUE, etag |-> r.text, saveId |-> r.id]
               x == IF r.live THEN [p EXCEPT !.job.answer = a] ELSE p
               l == p'.landed
               y == [x EXCEPT !.landed = l]
    <2>1. a \in Answers
      BY <1>3 DEF Answers, Requests
    <2>2. p' = y
      <3>1. DOMAIN x = Fields
        BY <1>2 DEF Page
      <3>2. p' = [x EXCEPT !.landed = @ \/ (InProgress(p) /\ p.job.text = r.text)]
        BY <1>4 DEF Store, Reply
      <3> QED BY <3>1, <3>2 DEF Fields
    <2> HIDE DEF a, l
    <2>3. Tended(y) /\ Alike(y, p)
      BY <1>2, <2>1, ReplyTends
    <2> HIDE DEF y
    <2> QED BY <1>2, <2>2, <2>3 DEF RestInv, Alike
  <1>5. CASE Refuse(r)
    <2> DEFINE a == [ok |-> FALSE, etag |-> file.text, saveId |-> file.id]
               x == IF r.live THEN [p EXCEPT !.job.answer = a] ELSE p
    <2>1. a \in Answers
      BY <1>3 DEF Answers, Files
    <2>2. p' = x
      BY <1>5 DEF Refuse, Reply
    <2> HIDE DEF a
    <2>3. Tended(x) /\ Alike(x, p)
      BY <1>2, <2>1, ReplyTends
    <2> HIDE DEF x
    <2> QED BY <1>2, <2>2, <2>3 DEF RestInv, Alike
  <1> QED BY <1>1, <1>4, <1>5

LEMMA InitTends == Init => RestInv
  <1> SUFFICES ASSUME Init PROVE RestInv
    OBVIOUS
  <1>1. ~p.dirty /\ ~p.quiesced /\ ~p.previewHold /\ may \in Scenarios
    BY DEF Init, FreshPage
  <1> QED BY <1>1 DEF RestInv, Tended, Minded

LEMMA StepTends ==
    ASSUME Apart PROVE SaveInv /\ RestInv /\ [Next]_vars => RestInv'
  <1> SUFFICES ASSUME SaveInv, RestInv, [Next]_vars PROVE RestInv'
    OBVIOUS
  <1>0. SaveInv'
    BY SaveStep
  <1>1. CASE Edit
    BY <1>0, <1>1, TypingTends
  <1>2. CASE SavePage \/ SavePageSoon \/ FireSoon \/ Fire \/ Trail \/ WindowPasses
    BY <1>0, <1>2, SavingTends
  <1>3. CASE TakeAnswer \/ HostMeta \/ Unreachable
    BY <1>0, <1>3, WireTends
  <1>4. CASE Timeout \/ NetworkError
    BY <1>0, <1>4, FaultTends
  <1>5. CASE SeedEtag \/ Overwrite \/ Sync
    BY <1>0, <1>5, SyncingTends
  <1>6. CASE HoldSaving \/ ReleaseSaving \/ HoldAllSaves \/ ReleaseAllSaves
               \/ Quiesce \/ FlushBytes \/ Resume
    BY <1>0, <1>6, HoldingTends
  <1>7. CASE \E r \in net : Store(r) \/ Refuse(r)
    BY <1>7, HostTends
  <1>8. CASE (\E r \in net : Lose(r)) \/ (\E id \in {None, Stranger} : Other(id)) \/ Forget
               \/ UNCHANGED vars
    <2>1. p' = p /\ may' = may
      BY <1>8 DEF Lose, Other, Forget, vars
    <2> QED BY <2>1 DEF RestInv
  <1> QED BY <1>1, <1>2, <1>3, <1>4, <1>5, <1>6, <1>7, <1>8 DEF Next

\* When every timer, request and frame is done and nothing holds saving, failed or is
\* reported as parked, every edit is in the file: each way in which a save is turned away
\* leaves a memory that is replayed when its reason ends, in every order of saves, holds,
\* refusals, merges, exits and faults (pendingSave, pendingAutosave, autosaveMissed, the
\* preview's and the session's memories, the scheduler's request). Left out is a file that
\* a late save without a stamp took back.
THEOREM EditsReplayed ==
    ASSUME Apart PROVE Spec => []RestsSaved
  <1>1. Init => SaveInv /\ RestInv
    BY InitSave, InitTends
  <1>2. SaveInv /\ RestInv /\ [Next]_vars => SaveInv' /\ RestInv'
    BY SaveStep, StepTends
  <1>3. ASSUME SaveInv, RestInv PROVE RestsSaved
    <2> SUFFICES ASSUME Resting, ~Held, ~p.failed, ~p.parkedWork, ~rewound
                 PROVE  p.text.mine = file.text.mine /\ ~p.dirty
      BY DEF RestsSaved
    <2>1. p.autosaveSuspended = 0 /\ Read(p, file.text.mine)
      BY <1>3 DEF SaveInv, Sound, Counted, Holds, Held
    <2>2. ~p.dirty
      BY <1>3, <2>1 DEF RestInv, Tended, Minded, Told, Stands, Resting, Held, InProgress
    <2>3. p.text.mine \in Nat /\ file.text.mine \in Nat
      BY <1>3 DEF SaveInv, World, Files, Sound, Lane, Page, Texts
    <2> QED BY <2>1, <2>2, <2>3 DEF Read
  <1> QED BY <1>1, <1>2, <1>3, PTL DEF Spec

-----------------------------------------------------------------------------
(* A refusal over a version this tab has taken in is answered. While no    *)
(* save's outcome is in doubt and nobody has overwritten a version, the    *)
(* stamps agree: a save goes out under the stamp the page holds, and once  *)
(* the file is this tab's own, the page knows its stamp or is about to.    *)

\* A save has just gone out, under the page's stamp.
Fresh(q) ==
    /\ q.job # None /\ q.job.stage = "sent" /\ q.job.answer = None /\ q.job.etag = q.stamp
    /\ q.out # None /\ q.out.live /\ q.out.etag = q.stamp

\* y takes no stamp and no hold that x did not have, and sends at most one new save.
Settles(y, x) ==
    /\ y.stamp = x.stamp /\ y.consent = x.consent
    /\ y.conflictHold => x.conflictHold /\ y.conflictEtag = x.conflictEtag
    /\ \/ y.job = x.job /\ y.out = x.out
       \/ x.job = None /\ x.out = None /\ Fresh(y)

LEMMA SettlesItself == ASSUME NEW x PROVE Settles(x, x)
  BY DEF Settles

LEMMA SettlesOn ==
    ASSUME NEW x, NEW y, NEW z, Settles(y, x), Settles(z, y)
    PROVE  Settles(z, x)
  BY DEF Settles, Fresh

\* A save goes out under the page's stamp.
LEMMA SendSettles ==
    ASSUME NEW q, Lane(q), q.job = None, NEW auto \in BOOLEAN
    PROVE  Settles(Send(q, auto), q)
  <1> DEFINE job == [id |-> q.ids + 1, etag |-> q.stamp, text |-> q.text, auto |-> auto,
                     resent |-> FALSE, resolved |-> FALSE, stage |-> "sent", answer |-> None]
             out == [id |-> q.ids + 1, etag |-> q.stamp, text |-> q.text, live |-> TRUE]
             y   == Send(q, auto)
  <1>1. job \in Jobs /\ out \in Requests
    BY DEF Lane, Page, Jobs, Requests, OrNone
  <1>2. job # None /\ out # None /\ job.stage = "sent" /\ job.answer = None
        /\ job.etag = q.stamp /\ out.live /\ out.etag = q.stamp
    BY <1>1, SaveAssumption
  <1>3. y = [q EXCEPT !.ids = q.ids + 1, !.touched = FALSE, !.landed = FALSE,
                      !.broke = q.broke \/ (auto /\ q.autosaveSuspended > 0),
                      !.job = job, !.out = out]
    BY DEF Send, Post, Lane, Page, Fields
  <1> HIDE DEF job, out, y
  <1>4. /\ y.job = job /\ y.out = out /\ y.stamp = q.stamp /\ y.consent = q.consent
        /\ y.conflictHold = q.conflictHold /\ y.conflictEtag = q.conflictEtag
    BY <1>3 DEF Lane, Page, Fields
  <1>5. q.out = None
    BY DEF Lane
  <1> QED BY <1>2, <1>4, <1>5 DEF Settles, Fresh, y

LEMMA QuietSettles ==
    ASSUME NEW q, Page(q)
    PROVE  Settles(SessionClosed(q), q) /\ Settles(NothingToSave(q), q)
  BY DEF SessionClosed, NothingToSave, Settles, Page, Fields

LEMMA ExplicitSettles ==
    ASSUME NEW q, Lane(q), NEW permitted \in BOOLEAN
    PROVE  Settles(Explicit(q, permitted), q)
  <1> DEFINE a == [q EXCEPT !.previewMissed = TRUE]
             b == [q EXCEPT !.pendingSave = TRUE]
  <1>1. Settles(a, q) /\ Settles(b, q)
    BY DEF Settles, Lane, Page, Fields
  <1>2. Settles(SessionClosed(q), q) /\ Settles(NothingToSave(q), q)
    BY QuietSettles DEF Lane
  <1>3. ~InProgress(q) => Settles(Send(q, FALSE), q)
    BY SendSettles DEF InProgress
  <1> HIDE DEF a, b
  <1>4. \/ Explicit(q, permitted) \in {SessionClosed(q), a, b, NothingToSave(q)}
        \/ ~InProgress(q) /\ Explicit(q, permitted) = Send(q, FALSE)
    BY DEF Explicit, a, b
  <1> QED BY <1>1, <1>2, <1>3, <1>4

LEMMA ForceSettles ==
    ASSUME NEW q, Lane(q)
    PROVE  Settles(SavePageForce(q), q)
  <1> DEFINE a == [q EXCEPT !.previewMissed = TRUE]
             b == [q EXCEPT !.pendingSave = TRUE]
  <1>1. Settles(a, q) /\ Settles(b, q)
    BY DEF Settles, Lane, Page, Fields
  <1>2. Settles(SessionClosed(q), q)
    BY QuietSettles DEF Lane
  <1>3. ~InProgress(q) => Settles(Send(q, FALSE), q)
    BY SendSettles DEF InProgress
  <1> HIDE DEF a, b
  <1>4. \/ SavePageForce(q) \in {SessionClosed(q), a, b}
        \/ ~InProgress(q) /\ SavePageForce(q) = Send(q, FALSE)
    BY DEF SavePageForce, a, b
  <1> QED BY <1>1, <1>2, <1>3, <1>4

LEMMA AutomaticSettles ==
    ASSUME NEW q, Lane(q)
    PROVE  Settles(Automatic(q), q)
  <1> DEFINE c == [q EXCEPT !.parkedAutosave = TRUE]
             a == [q EXCEPT !.previewAutosaveMissed = TRUE]
             b == [q EXCEPT !.pendingAutosave = TRUE]
  <1>1. Settles(a, q) /\ Settles(b, q) /\ Settles(c, q) /\ Page(c)
    BY DEF Settles, Lane, Page, Fields
  <1>2. Settles(q, q) /\ Settles(NothingToSave(q), q)
    BY QuietSettles, SettlesItself DEF Lane
  <1>3. ~InProgress(q) => Settles(Send(q, TRUE), q)
    BY SendSettles DEF InProgress
  <1> HIDE DEF a, b, c
  <1>4. Settles(SessionClosed(c), q)
    BY <1>1, QuietSettles, SettlesOn
  <1>5. \/ Automatic(q) \in {SessionClosed(c), a, b, q, NothingToSave(q)}
        \/ ~InProgress(q) /\ Automatic(q) = Send(q, TRUE)
    BY DEF Automatic, a, b, c
  <1> QED BY <1>1, <1>2, <1>3, <1>4, <1>5

LEMMA ThrottledSettles ==
    ASSUME NEW q, Lane(q)
    PROVE  Settles(Throttled(q), q)
  <1> DEFINE c == [q EXCEPT !.parkedAutosave = TRUE]
             a == [q EXCEPT !.previewAutosaveMissed = TRUE]
             b == [q EXCEPT !.pendingAutosave = TRUE]
             d == [q EXCEPT !.autosaveMissed = TRUE]
             e == [q EXCEPT !.trail = TRUE]
             f == [q EXCEPT !.recent = TRUE]
  <1>1. Settles(a, q) /\ Settles(b, q) /\ Settles(c, q) /\ Settles(d, q) /\ Settles(e, q)
        /\ Page(c)
    BY DEF Settles, Lane, Page, Fields
  <1>2. Settles(f, q) /\ Inert(f, q)
    BY DEF Settles, Inert, SameReading, Carries, Lane, Page, Fields
  <1> HIDE DEF a, b, c, d, e, f
  <1>3. Lane(f)
    BY <1>2, InertKeeps DEF Keeps
  <1>4. Settles(SessionClosed(c), q)
    BY <1>1, QuietSettles, SettlesOn
  <1>5. Settles(Automatic(f), q)
    BY <1>2, <1>3, AutomaticSettles, SettlesOn
  <1>6. Throttled(q) \in {a, SessionClosed(c), d, b, e, Automatic(f)}
    BY DEF Throttled, a, b, c, d, e, f
  <1> QED BY <1>1, <1>4, <1>5, <1>6

LEMMA ResumeSettles ==
    ASSUME NEW q, Lane(q)
    PROVE  Settles(ResumeAutosave(q), q)
  <1> DEFINE r == [q EXCEPT !.autosaveSuspended = @ - 1]
             s == [r EXCEPT !.soon = IF @ = "deferred" THEN "armed" ELSE @,
                            !.autosaveMissed = FALSE]
  <1>1. /\ q.autosaveSuspended # 0 => Page(r)
        /\ Settles(r, q) /\ Carries(r, q) /\ r.missing = q.missing
    BY DEF Settles, Carries, Lane, Page, Fields
  <1>2. q.autosaveSuspended # 0 => Lane(r)
    BY <1>1 DEF Lane, Carries
  <1> HIDE DEF r
  <1>3. q.autosaveSuspended # 0 => Settles(s, r) /\ Inert(s, r)
    BY <1>1 DEF Settles, Inert, SameReading, Carries, Page, Fields
  <1>4. q.autosaveSuspended # 0 => Lane(s) /\ Settles(s, q)
    BY <1>1, <1>2, <1>3, InertKeeps, SettlesOn DEF Keeps
  <1> HIDE DEF s
  <1>5. q.autosaveSuspended # 0 => Settles(Throttled(s), q)
    BY <1>4, ThrottledSettles, SettlesOn
  <1>6. \/ ResumeAutosave(q) = q
        \/ q.autosaveSuspended # 0 /\ ResumeAutosave(q) \in {r, s, Throttled(s)}
    BY DEF ResumeAutosave, r, s
  <1> QED BY <1>1, <1>4, <1>5, <1>6, SettlesItself

\* And where the page held a refusal, it no longer does.
LEMMA ReleaseSettles ==
    ASSUME NEW q, Lane(q)
    PROVE  Settles(ReleaseConflictHold(q), q) /\ ~ReleaseConflictHold(q).conflictHold
  <1> DEFINE r == [q EXCEPT !.conflictHold = FALSE, !.conflictEtag = None]
  <1>1. Page(r) /\ Settles(r, q) /\ Carries(r, q) /\ ~r.conflictHold /\ r.missing = q.missing
    BY DEF Settles, Carries, Lane, Page, Fields
  <1>2. Lane(r)
    BY <1>1 DEF Lane, Carries
  <1> HIDE DEF r
  <1>3. Settles(ResumeAutosave(r), q) /\ ~ResumeAutosave(r).conflictHold
    BY <1>1, <1>2, ResumeSettles, SettlesOn DEF Settles
  <1>4. \/ ~q.conflictHold /\ ReleaseConflictHold(q) = q
        \/ ReleaseConflictHold(q) = ResumeAutosave(r)
    BY DEF ReleaseConflictHold, r
  <1> QED BY <1>3, <1>4, SettlesItself

\* A refusal over the version that was merged is answered; another is kept as it is.
LEMMA ResolvedSettles ==
    ASSUME NEW q, Lane(q), NEW etag
    PROVE  LET y == ConflictResolvedBySync(q, etag)
           IN  Settles(y, q) /\ (y.conflictHold => y.conflictEtag # etag)
  <1>1. CASE q.conflictEtag \in {None, etag}
    BY <1>1, ReleaseSettles DEF ConflictResolvedBySync
  <1>2. CASE q.conflictEtag \notin {None, etag}
    BY <1>2, SettlesItself DEF ConflictResolvedBySync
  <1> QED BY <1>1, <1>2

LEMMA DrainSettles ==
    ASSUME NEW q, Lane(q)
    PROVE  Settles(DrainPendingSave(q), q)
  <1> DEFINE c == [q EXCEPT !.pendingSave = FALSE, !.pendingAutosave = FALSE]
             d == [q EXCEPT !.pendingAutosave = FALSE, !.due = @ \/ q.pendingAutosave]
  <1>1. Settles(c, q) /\ Settles(d, q) /\ Inert(c, q)
    BY DEF Settles, Inert, SameReading, Carries, Lane, Page, Fields
  <1> HIDE DEF c, d
  <1>2. Lane(c)
    BY <1>1, InertKeeps DEF Keeps
  <1>3. Settles(Explicit(c, FALSE), q)
    BY <1>1, <1>2, ExplicitSettles, SettlesOn
  <1>4. DrainPendingSave(q) \in {q, Explicit(c, FALSE), d}
    BY DEF DrainPendingSave, c, d
  <1> QED BY <1>1, <1>3, <1>4, SettlesItself

-----------------------------------------------------------------------------
(* What the end of a save leaves.                                          *)

\* The lane is free, or a new save has just taken it.
Freed(q) == (q.job = None /\ q.out = None) \/ Fresh(q)

LEMMA FreedOn ==
    ASSUME NEW x, NEW y, Settles(y, x), Freed(x)
    PROVE  Freed(y)
  BY DEF Settles, Freed, Fresh

\* A save that succeeded answers every refusal.
LEMMA SucceededSettles ==
    ASSUME NEW q, Lane(q), q.out = None, Counted(q), q.job # None, q.landed
    PROVE  LET y == Succeeded(q)
           IN  y.stamp = q.stamp /\ y.consent = q.consent /\ ~y.conflictHold /\ Freed(y)
  <1> DEFINE f == Free(q)
             r == [f EXCEPT !.parkedWork = FALSE, !.saved = q.job.text, !.failed = FALSE,
                            !.missing = @ \/ ~q.landed]
             s == GateClearIfUnchanged(r)
             t == ReleaseConflictHold(s)
  <1>1. q.job.text \in Texts
    BY DEF Lane, Page, Jobs, OrNone
  <1>2. /\ Page(f) /\ f.job = None /\ f.out = None /\ ~f.missing /\ f.stamp = q.stamp
        /\ f.consent = q.consent
    BY DEF Lane, Page, Fields, Free, OrNone
  <1>3. f.wire = q.wire /\ f.conflictHold = q.conflictHold
        /\ f.autosaveSuspended = q.autosaveSuspended
    BY DEF Lane, Page, Fields, Free
  <1> HIDE DEF f
  <1>4. /\ Page(r) /\ r.job = None /\ r.out = None /\ ~r.missing /\ r.stamp = q.stamp
        /\ r.consent = q.consent
    BY <1>1, <1>2 DEF Page, Fields
  <1>5. r.wire = q.wire /\ r.conflictHold = q.conflictHold
        /\ r.autosaveSuspended = q.autosaveSuspended
    BY <1>2, <1>3 DEF Page, Fields
  <1> HIDE DEF r
  <1>6. /\ Page(s) /\ s.job = None /\ s.out = None /\ ~s.missing /\ s.stamp = q.stamp
        /\ s.consent = q.consent
    BY <1>4 DEF GateClearIfUnchanged, Page, Fields
  <1>7. s.wire = q.wire /\ s.conflictHold = q.conflictHold
        /\ s.autosaveSuspended = q.autosaveSuspended
    BY <1>4, <1>5 DEF GateClearIfUnchanged, Page, Fields
  <1> HIDE DEF s
  <1>8. Lane(s) /\ Counted(s) /\ Freed(s)
    BY <1>6, <1>7 DEF Lane, Counted, Holds, Freed
  <1>9. Settles(t, s) /\ ~t.conflictHold /\ Lane(t)
    BY <1>8, ReleaseSettles, ReleaseKeeps DEF Keeps
  <1> HIDE DEF t
  <1>10. Settles(DrainPendingSave(t), t) /\ Settles(DrainPendingSave(t), s)
    BY <1>9, DrainSettles, SettlesOn
  <1>11. Succeeded(q) = DrainPendingSave(t)
    BY DEF Succeeded, t, s, r, f
  <1>12. Freed(DrainPendingSave(t))
    BY <1>8, <1>10, FreedOn
  <1> QED BY <1>6, <1>9, <1>10, <1>11, <1>12 DEF Settles

\* A save that was taken leaves its stamp, and no refusal held.
LEMMA TookOkSettles ==
    ASSUME NEW q, Lane(q), q.out = None, Counted(q), q.job # None, q.landed,
           q.job.answer \in Answers
    PROVE  LET y == TookOk(q)
           IN  /\ y.stamp = q.job.answer.etag /\ y.consent = q.consent
               /\ ~y.conflictHold /\ Freed(y)
  <1> DEFINE e == RecordEtag(q, q.job.answer.etag)
             r == [e EXCEPT !.unknown = None]
  <1>1. /\ Page(e) /\ Carries(e, q) /\ e.missing = q.missing /\ e.consent = q.consent
        /\ e.stamp = q.job.answer.etag
    BY DEF RecordEtag, Carries, Lane, Page, Fields, OrNone, Stamps, Seeds, Answers
  <1>2. e.wire = q.wire /\ e.conflictHold = q.conflictHold
        /\ e.autosaveSuspended = q.autosaveSuspended
    BY DEF RecordEtag, Lane, Page, Fields
  <1> HIDE DEF e
  <1>3. /\ Page(r) /\ Carries(r, e) /\ r.missing = e.missing /\ r.consent = e.consent
        /\ r.stamp = e.stamp /\ r.wire = e.wire /\ r.conflictHold = e.conflictHold
        /\ r.autosaveSuspended = e.autosaveSuspended
    BY <1>1 DEF Carries, Page, Fields
  <1> HIDE DEF r
  <1>4. Lane(r) /\ Counted(r) /\ r.job # None /\ r.out = None /\ r.landed
    BY <1>1, <1>2, <1>3 DEF Carries, Lane, Counted, Holds
  <1>5. TookOk(q) = Succeeded(r)
    BY DEF TookOk, r, e
  <1> QED BY <1>1, <1>3, <1>4, <1>5, SucceededSettles

\* A refused save leaves a hold over what refused it, unless the page has its stamp.
LEMMA RefusedSettles ==
    ASSUME NEW q, Lane(q), q.out = None, Counted(q), NEW etag
    PROVE  LET y == Refused(q, etag)
           IN  /\ y.stamp = q.stamp /\ y.consent = q.consent /\ Freed(y)
               /\ y.conflictHold => y.conflictEtag # y.stamp
  <1> DEFINE f == Free(q)
             h == HoldForConflict(f, etag)
             r == DrainPendingSave(h)
             s == ConflictResolvedBySync(r, etag)
             t == SaveAfterMerge(s, s.dirty)
  <1>1. Lane(f) /\ Counted(f) /\ f.job = None /\ f.out = None
    BY FreeFrees DEF Frees
  <1>2. f.stamp = q.stamp /\ f.consent = q.consent
    BY DEF Free, Lane, Page, Fields
  <1> HIDE DEF f
  <1>3. Lane(h) /\ Counted(h)
    BY <1>1, HoldKeeps DEF Keeps
  <1>4. /\ h.stamp = q.stamp /\ h.consent = q.consent /\ h.conflictEtag = etag
        /\ h.job = None /\ h.out = None
    BY <1>1, <1>2 DEF HoldForConflict, Lane, Page, Fields
  <1> HIDE DEF h
  <1>5. Settles(r, h) /\ Lane(r) /\ Counted(r) /\ Freed(r)
    BY <1>3, <1>4, DrainSettles, DrainKeeps, FreedOn DEF Keeps, Freed
  <1>6. r.stamp = q.stamp /\ r.consent = q.consent /\ (r.conflictHold => r.conflictEtag = etag)
    BY <1>4, <1>5 DEF Settles
  <1> HIDE DEF r
  <1>7. Settles(s, r) /\ Lane(s) /\ ~s.conflictHold
    BY <1>5, <1>6, ResolvedSettles, ResolvedKeeps DEF Keeps, Settles
  <1> HIDE DEF s
  <1>8. Settles(t, s)
    BY <1>7, ThrottledSettles, SettlesItself DEF SaveAfterMerge
  <1>9. /\ t.stamp = q.stamp /\ t.consent = q.consent /\ ~t.conflictHold /\ Freed(t)
    BY <1>5, <1>6, <1>7, <1>8, FreedOn DEF Settles
  <1>10. Refused(q, etag) = IF etag = r.stamp THEN t ELSE r
    BY DEF Refused, t, s, r, h, f
  <1> HIDE DEF t
  <1> QED BY <1>5, <1>6, <1>9, <1>10

-----------------------------------------------------------------------------
(* The invariant.                                                          *)

\* A save on the wire is under way, and nothing else is; what refused it was not this tab.
Posted(q, n) ==
    /\ q.job # None =>
         /\ q.job.stage = "sent"
         /\ q.job.answer = None => \E r \in n : r.live
         /\ q.job.answer # None /\ ~q.job.answer.ok => q.job.answer.saveId \notin Nat
    /\ \A r \in n : r.live /\ r.etag = q.job.etag

\* The page holds the stamp of the file, or the answer that brings it.
Agrees(q, text) ==
    IF q.job = None THEN q.stamp = text
    ELSE IF q.job.answer = None THEN q.stamp = text /\ q.job.etag = text
    ELSE q.job.answer.ok /\ q.job.answer.etag = text

Calm ==
    /\ p.conflictHold => p.conflictEtag # p.stamp
    /\ Posted(p, net)
    /\ file.id \in Nat => frame = None /\ Agrees(p, file.text)

\* The inductive invariant: once a fault or a person's choice has happened, nothing is said.
HeldInv == faults \in Nat /\ (faults = 0 /\ p.consent = {} => Calm)

\* Where the page waits for nothing, nothing is on its way.
LEMMA QuietNet ==
    ASSUME NetOf(net, p, file), Posted(p, net), p.job = None \/ p.job.answer # None
    PROVE  net = {}
  BY DEF NetOf, Posted, Fits

\* What a handler makes of the page, and of the requests on their way.
LEMMA BecomesWhat ==
    ASSUME Lane(p'), NEW q, p' = [q EXCEPT !.out = None]
    PROVE  /\ p'.job = q.job /\ p'.stamp = q.stamp /\ p'.consent = q.consent
           /\ p'.conflictHold = q.conflictHold /\ p'.conflictEtag = q.conflictEtag
  <1>1. DOMAIN q = Fields
    BY DEF Lane, Page
  <1> QED BY <1>1 DEF Fields

LEMMA FreedPosts ==
    ASSUME net = {}, NEW q, Freed(q), Becomes(q), p'.job = q.job
    PROVE  Posted(p, net)'
  BY DEF Freed, Fresh, Becomes, Posted

LEMMA SettlesPosts ==
    ASSUME SaveInv, Posted(p, net), NEW q, Settles(q, p), Becomes(q), p'.job = q.job
    PROVE  Posted(p, net)'
  <1>1. p.out = None /\ NetOf(net, p, file)
    BY DEF SaveInv, Sound
  <1>2. CASE q.job = p.job /\ q.out = p.out
    BY <1>1, <1>2 DEF Becomes, Posted
  <1>3. CASE p.job = None /\ Fresh(q)
    BY <1>1, <1>3, QuietNet, FreedPosts DEF Freed
  <1> QED BY <1>2, <1>3 DEF Settles

\* A handler that only saves.
LEMMA SettlesCalm ==
    ASSUME SaveInv, Lane(p'), HeldInv, NEW q, Settles(q, p), Becomes(q),
           UNCHANGED <<file, frame, faults>>
    PROVE  HeldInv'
  <1>1. /\ p'.job = q.job /\ p'.stamp = q.stamp /\ p'.consent = q.consent
        /\ p'.conflictHold = q.conflictHold /\ p'.conflictEtag = q.conflictEtag
    BY BecomesWhat DEF Becomes
  <1>2. ASSUME Calm PROVE Calm'
    <2>1. Posted(p, net)'
      BY <1>1, <1>2, SettlesPosts DEF Calm
    <2>2. Agrees(p, file.text) => Agrees(p, file.text)'
      BY <1>1 DEF Settles, Fresh, Agrees
    <2>3. (p.conflictHold => p.conflictEtag # p.stamp)'
      BY <1>1, <1>2 DEF Calm, Settles
    <2> QED BY <1>2, <2>1, <2>2, <2>3 DEF Calm
  <1>3. p'.consent = p.consent
    BY <1>1 DEF Settles
  <1> QED BY <1>2, <1>3 DEF HeldInv

-----------------------------------------------------------------------------
(* Every step keeps it.                                                    *)

\* The handlers that take no stamp.
LEMMA HandlersCalm ==
    ASSUME SaveInv, SaveInv', HeldInv,
           \/ Edit \/ SavePage \/ SavePageSoon \/ FireSoon \/ Fire \/ Trail \/ WindowPasses
           \/ SeedEtag \/ HoldSaving \/ ReleaseSaving \/ HoldAllSaves \/ ReleaseAllSaves
           \/ Quiesce \/ FlushBytes \/ Resume
    PROVE  HeldInv'
  <1>1. Lane(p) /\ Lane(p') /\ p.autosaveSuspended \in Nat
    BY DEF SaveInv, Sound, Lane, Page
  <1>2. UNCHANGED <<file, frame, faults>>
    BY DEF Edit, SavePage, SavePageSoon, FireSoon, Fire, Trail, WindowPasses, SeedEtag,
           HoldSaving, ReleaseSaving, HoldAllSaves, ReleaseAllSaves, Quiesce, FlushBytes,
           Resume, Asking, outside
  <1>3. ASSUME NEW q, Settles(q, p), Becomes(q) PROVE HeldInv'
    BY <1>1, <1>2, <1>3, SettlesCalm
  <1>4. ASSUME NEW x, Inert(x, p), Settles(x, p),
               NEW q, Becomes(q),
               q \in {x, Explicit(x, FALSE), Throttled(x)}
        PROVE  HeldInv'
    <2>1. Lane(x)
      BY <1>1, <1>4, InertKeeps DEF Keeps
    <2>2. Settles(Explicit(x, FALSE), p)
      BY <1>4, <2>1, ExplicitSettles, SettlesOn
    <2>3. Settles(Throttled(x), p)
      BY <1>4, <2>1, ThrottledSettles, SettlesOn
    <2>4. Settles(q, p)
      BY <1>4, <2>2, <2>3
    <2> QED BY <1>3, <1>4, <2>4
  <1>5. CASE Edit
    <2> DEFINE q == [p EXCEPT !.text.mine = @ + 1, !.dirty = TRUE, !.touched = TRUE,
                              !.failed = FALSE, !.due = @ \/ ~p.quiesced]
    <2>1. Settles(q, p)
      BY <1>1 DEF Settles, Lane, Page, Fields
    <2> HIDE DEF q
    <2> QED BY <1>3, <1>5, <2>1 DEF Edit, q
  <1>6. CASE SavePage \/ FlushBytes
    <2>1. Settles(Explicit(p, FALSE), p) /\ Settles(Explicit(p, TRUE), p)
      BY <1>1, ExplicitSettles
    <2> QED BY <1>3, <1>6, <2>1 DEF SavePage, FlushBytes
  <1>7. CASE SavePageSoon \/ WindowPasses \/ SeedEtag \/ HoldSaving \/ HoldAllSaves \/ Quiesce
    <2> DEFINE a == [p EXCEPT !.soon = "armed"]
               b == [p EXCEPT !.recent = FALSE]
               c(etag) == [p EXCEPT !.seeding = [etag |-> etag, stale |-> FALSE]]
               d == [p EXCEPT !.wire = TRUE, !.autosaveSuspended = @ + 1]
               e == [p EXCEPT !.previewHold = TRUE]
               f == [p EXCEPT !.quiesced = TRUE]
    <2>1. Settles(a, p) /\ Settles(b, p) /\ \A etag : Settles(c(etag), p)
      BY <1>1 DEF Settles, Lane, Page, Fields
    <2>3. Settles(d, p) /\ Settles(e, p) /\ Settles(f, p)
      BY <1>1 DEF Settles, Lane, Page, Fields
    <2> HIDE DEF a, b, c, d, e, f
    <2>2. (\E x \in {a, b, d, e, f} : Becomes(x)) \/ \E etag : Becomes(c(etag))
      BY <1>7 DEF SavePageSoon, WindowPasses, SeedEtag, HoldSaving, HoldAllSaves, Quiesce,
                  a, b, c, d, e, f
    <2> QED BY <1>3, <2>1, <2>2, <2>3
  <1>8. CASE FireSoon
    <2> DEFINE d == [p EXCEPT !.soon = "deferred"]
               n == [p EXCEPT !.soon = None]
    <2>1. /\ Inert(d, p) /\ Settles(d, p) /\ Inert(n, p) /\ Settles(n, p)
      BY <1>1 DEF Inert, Carries, SameReading, Settles, Lane, Page, Fields
    <2>2. Becomes(d) \/ Becomes(Explicit(n, FALSE))
      BY <1>8 DEF FireSoon
    <2> HIDE DEF d, n
    <2> QED BY <1>4, <2>1, <2>2
  <1>9. CASE ReleaseSaving
    <2> DEFINE x == [p EXCEPT !.wire = FALSE]
    <2>1. Page(x) /\ Carries(x, p) /\ x.missing = p.missing /\ Settles(x, p)
      BY <1>1 DEF Carries, Settles, Lane, Page, Fields
    <2>2. Lane(x) /\ Becomes(ResumeAutosave(x))
      BY <1>1, <1>9, <2>1 DEF ReleaseSaving, Lane, Carries
    <2> HIDE DEF x
    <2> QED BY <1>3, <2>1, <2>2, ResumeSettles, SettlesOn
  <1>10. CASE ReleaseAllSaves
    <2> DEFINE x == [p EXCEPT !.previewHold = FALSE, !.previewMissed = FALSE,
                              !.previewAutosaveMissed = FALSE]
    <2>1. Inert(x, p) /\ Settles(x, p)
      BY <1>1 DEF Inert, Carries, SameReading, Settles, Lane, Page, Fields
    <2>2. \E q \in {x, Explicit(x, FALSE), Throttled(x)} : Becomes(q)
      BY <1>10 DEF ReleaseAllSaves
    <2> HIDE DEF x
    <2> QED BY <1>4, <2>1, <2>2
  <1>11. ASSUME NEW x, Inert(x, p), Settles(x, p),
                NEW y \in {x, Throttled(x), Automatic(x)},
                NEW q, Becomes(q), DOMAIN y = Fields => Settles(q, y)
         PROVE  HeldInv'
    <2>1. Lane(x)
      BY <1>1, <1>11, InertKeeps DEF Keeps
    <2>2. Lane(y) /\ Settles(y, x)
      BY <1>11, <2>1, ThrottledSettles, AutomaticSettles, SettlesItself, ThrottledKeeps,
         AutomaticKeeps DEF Keeps
    <2>3. Settles(q, p)
      BY <1>11, <2>2, SettlesOn DEF Lane, Page
    <2> QED BY <1>3, <1>11, <2>3
  <1>12. CASE Fire
    <2> DEFINE x == [p EXCEPT !.due = FALSE]
               y == Throttled(x)
               q == [y EXCEPT !.running = IF y.out # None THEN "sent"
                                          ELSE IF Rides(p) THEN "trail" ELSE None]
    <2>1. Inert(x, p) /\ Settles(x, p)
      BY <1>1 DEF Inert, Carries, SameReading, Settles, Lane, Page, Fields
    <2>2. Becomes(q)
      BY <1>12 DEF Fire
    <2> HIDE DEF x
    <2>3. y \in {x, Throttled(x), Automatic(x)}
      OBVIOUS
    <2> HIDE DEF y
    <2>4. DOMAIN y = Fields => Settles(q, y)
      BY DEF Settles, Fields
    <2> HIDE DEF q
    <2> QED BY <1>11, <2>1, <2>2, <2>3, <2>4
  <1>13. CASE Trail
    <2> DEFINE x == [p EXCEPT !.trail = FALSE]
               y == Automatic(x)
               q == [y EXCEPT !.running = IF @ = "trail"
                                          THEN IF y.out # None THEN "sent" ELSE None ELSE @]
    <2>1. Inert(x, p) /\ Settles(x, p)
      BY <1>1 DEF Inert, Carries, SameReading, Settles, Lane, Page, Fields
    <2>2. Becomes(q)
      BY <1>13 DEF Trail
    <2> HIDE DEF x
    <2>3. y \in {x, Throttled(x), Automatic(x)}
      OBVIOUS
    <2> HIDE DEF y
    <2>4. DOMAIN y = Fields => Settles(q, y)
      BY DEF Settles, Fields
    <2> HIDE DEF q
    <2> QED BY <1>11, <2>1, <2>2, <2>3, <2>4
  <1>14. CASE Resume
    <2> DEFINE x == [p EXCEPT !.quiesced = FALSE, !.parkedAutosave = FALSE]
               y == IF p.parkedAutosave THEN Throttled(x) ELSE x
               q == [y EXCEPT !.soon = IF @ = "deferred" THEN "armed" ELSE @]
    <2>1. Inert(x, p) /\ Settles(x, p)
      BY <1>1 DEF Inert, Carries, SameReading, Settles, Lane, Page, Fields
    <2>2. Becomes(q)
      BY <1>14 DEF Resume
    <2> HIDE DEF x
    <2>3. y \in {x, Throttled(x), Automatic(x)}
      OBVIOUS
    <2> HIDE DEF y
    <2>4. DOMAIN y = Fields => Settles(q, y)
      BY DEF Settles, Fields
    <2> HIDE DEF q
    <2> QED BY <1>11, <2>1, <2>2, <2>3, <2>4
  <1> QED BY <1>5, <1>6, <1>7, <1>8, <1>9, <1>10, <1>12, <1>13, <1>14

\* Saving over a refusal: under the stamp the page has, or by a person's consent.
LEMMA OverwriteCalm ==
    ASSUME SaveInv, SaveInv', HeldInv, Overwrite PROVE HeldInv'
  <1>1. Lane(p) /\ Lane(p') /\ UNCHANGED <<file, frame, faults>>
    BY DEF SaveInv, Sound, Overwrite, outside
  <1> DEFINE n == [p EXCEPT !.seeding = None]
             x == Seeded(n, p.seeding.etag)
  <1>2. Settles(n, p) /\ Page(n) /\ Carries(n, p) /\ n.missing = p.missing
    BY <1>1 DEF Settles, Carries, Lane, Page, Fields, OrNone
  <1>3. Lane(n)
    BY <1>1, <1>2 DEF Lane, Carries
  <1>4. CASE p.seeding.stale
    <2>1. Becomes(SavePageForce(n))
      BY <1>4 DEF Overwrite
    <2> HIDE DEF n
    <2>2. Settles(SavePageForce(n), p)
      BY <1>2, <1>3, ForceSettles, SettlesOn
    <2> QED BY <1>1, <2>1, <2>2, SettlesCalm
  <1>5. CASE ~p.seeding.stale
    <2>1. Becomes(SavePageForce(x))
      BY <1>5 DEF Overwrite
    <2>2. p.seeding.etag \in Stamps
      BY <1>1 DEF Overwrite, Lane, Page, OrNone, Seeds
    <2> HIDE DEF n
    <2>3. Page(x) /\ Carries(x, n) /\ x.missing = n.missing /\ x.consent # {}
      BY <1>2, <2>2 DEF Seeded, Carries, Page, Fields
    <2> HIDE DEF x
    <2>4. Lane(x)
      BY <1>3, <2>3 DEF Lane, Carries
    <2>5. Settles(SavePageForce(x), x)
      BY <2>4, ForceSettles
    <2>6. p'.consent # {}
      BY <1>1, <2>1, <2>3, <2>5, BecomesWhat DEF Becomes, Settles
    <2> QED BY <1>1, <2>6 DEF HeldInv
  <1> QED BY <1>4, <1>5

\* The version that is merged in is one the file reads, and not this tab's own.
LEMMA SyncCalm ==
    ASSUME SaveInv, SaveInv', HeldInv, Sync PROVE HeldInv'
  <1> DEFINE text == frame
             diverged == p.dirty /\ p.text.mine > text.mine
             t == [text EXCEPT !.mine = IF diverged THEN p.text.mine ELSE @]
             r == [p EXCEPT !.text = t, !.dirty = diverged,
                            !.saved = IF diverged THEN @ ELSE text]
             e == RecordEtag(r, text)
             c == ConflictResolvedBySync(e, text)
             q == SaveAfterMerge(c, diverged)
  <1>1. Lane(p) /\ Counted(p) /\ Lane(p') /\ p.out = None /\ NetOf(net, p, file)
    BY DEF SaveInv, Sound
  <1>2. text \in Texts /\ Becomes(q) /\ UNCHANGED <<file, faults>>
    BY DEF Sync, Applied, SaveInv, World, OrNone
  <1>3. t \in Texts
    BY <1>1, <1>2 DEF Texts, Lane, Page
  <1> HIDE DEF t
  <1>4. /\ Page(r) /\ Carries(r, p) /\ r.missing = p.missing /\ r.consent = p.consent
        /\ r.wire = p.wire /\ r.conflictHold = p.conflictHold
        /\ r.autosaveSuspended = p.autosaveSuspended
    BY <1>1, <1>2, <1>3 DEF Carries, Lane, Page, Fields
  <1> HIDE DEF r, diverged, text
  <1>5. /\ Page(e) /\ Carries(e, r) /\ e.missing = r.missing /\ e.consent = r.consent
        /\ e.wire = r.wire /\ e.conflictHold = r.conflictHold
        /\ e.autosaveSuspended = r.autosaveSuspended /\ e.stamp = text
    BY <1>2, <1>4 DEF RecordEtag, Carries, Page, Fields, OrNone, Stamps, Seeds
  <1> HIDE DEF e
  <1>6. Lane(e) /\ Counted(e)
    BY <1>1, <1>4, <1>5 DEF Lane, Carries, Counted, Holds
  <1>7. Settles(c, e) /\ Lane(c) /\ (c.conflictHold => c.conflictEtag # text)
    BY <1>6, ResolvedSettles, ResolvedKeeps DEF Keeps
  <1> HIDE DEF c
  <1>8. Settles(q, c)
    BY <1>7, ThrottledSettles, SettlesItself DEF SaveAfterMerge
  <1>9. Settles(q, e)
    BY <1>7, <1>8, SettlesOn
  <1>10. q.conflictHold => q.conflictEtag # q.stamp
    BY <1>5, <1>7, <1>8 DEF Settles
  <1> HIDE DEF q
  <1>11. /\ p'.job = q.job /\ p'.stamp = q.stamp /\ p'.consent = q.consent
         /\ p'.conflictHold = q.conflictHold /\ p'.conflictEtag = q.conflictEtag
    BY <1>1, <1>2, BecomesWhat DEF Becomes
  <1>12. p'.consent = p.consent
    BY <1>4, <1>5, <1>9, <1>11 DEF Settles
  <1>13. ASSUME Calm PROVE Calm'
    <2>1. file.id \notin Nat
      BY <1>13 DEF Sync, Calm
    <2>2. Posted(p, net)'
      <3>1. CASE q.job = p.job /\ q.out = p.out
        BY <1>1, <1>2, <1>11, <1>13, <3>1 DEF Becomes, Posted, Calm
      <3>2. CASE p.job = None /\ Fresh(q)
        BY <1>1, <1>2, <1>11, <1>13, <3>2, QuietNet, FreedPosts DEF Freed, Calm
      <3>3. e.job = p.job /\ e.out = p.out
        BY <1>4, <1>5 DEF Carries
      <3> QED BY <1>9, <3>1, <3>2, <3>3 DEF Settles
    <2>3. (p.conflictHold => p.conflictEtag # p.stamp)'
      BY <1>10, <1>11
    <2> QED BY <1>2, <2>1, <2>2, <2>3 DEF Calm
  <1> QED BY <1>2, <1>12, <1>13 DEF HeldInv

\* The save on the wire ends: the page takes its stamp, or holds what refused it.
LEMMA AnswerCalm ==
    ASSUME SaveInv, SaveInv', HeldInv, TakeAnswer PROVE HeldInv'
  <1> DEFINE q == IF p.job.stage = "sent" THEN Answered(p) ELSE Recovered(p)
  <1>1. /\ Lane(p) /\ Counted(p) /\ Lane(p') /\ p.out = None /\ NetOf(net, p, file)
        /\ p.job # None /\ p.job.answer # None
    BY DEF SaveInv, Sound, TakeAnswer, InProgress
  <1>2. Becomes(q) /\ UNCHANGED <<file, frame, faults>>
    BY DEF TakeAnswer, outside
  <1>3. Reads(q, p)
    BY <1>1, AnswerMoves
  <1>4. p.job \in Jobs /\ p.job.answer \in Answers /\ p.ids \in Nat
    <2>1. p.job \in Jobs /\ p.ids \in Nat
      BY <1>1 DEF Lane, Page, OrNone
    <2> QED BY <1>1, <2>1 DEF Jobs, OrNone
  <1>5. p.job.answer.ok /\ p.job.stage = "sent" =>
          LET y == TookOk(p) IN /\ y.stamp = p.job.answer.etag /\ y.consent = p.consent
                                /\ ~y.conflictHold /\ Freed(y)
    BY <1>1, <1>4, TookOkSettles DEF Lane, Proves
  <1>6. LET y == Refused(p, p.job.answer.etag)
        IN  /\ y.stamp = p.stamp /\ y.consent = p.consent /\ Freed(y)
            /\ y.conflictHold => y.conflictEtag # y.stamp
    BY <1>1, RefusedSettles
  <1>7. SentByThisTab(p, p.job.answer.saveId) => p.job.answer.saveId \in Nat
    BY <1>4 DEF SentByThisTab
  <1>8. ASSUME Calm
        PROVE  /\ Freed(q) /\ (q.conflictHold => q.conflictEtag # q.stamp)
               /\ file.id \in Nat => q.stamp = file.text
    <2>1. p.job.stage = "sent" /\ (~p.job.answer.ok => p.job.answer.saveId \notin Nat)
      BY <1>1, <1>8 DEF Calm, Posted
    <2>2. file.id \in Nat => p.job.answer.ok /\ p.job.answer.etag = file.text
      BY <1>1, <1>8 DEF Calm, Agrees
    <2>3. CASE p.job.answer.ok
      <3>1. q = TookOk(p)
        BY <2>1, <2>3 DEF Answered
      <3> HIDE DEF q
      <3> QED BY <1>5, <2>1, <2>2, <2>3, <3>1
    <2>4. CASE ~p.job.answer.ok
      <3>1. q = Refused(p, p.job.answer.etag)
        BY <1>7, <2>1, <2>4 DEF Answered
      <3> HIDE DEF q
      <3> QED BY <1>6, <2>2, <2>4, <3>1
    <2> QED BY <2>3, <2>4
  <1> HIDE DEF q
  <1>9. /\ p'.job = q.job /\ p'.stamp = q.stamp /\ p'.consent = q.consent
        /\ p'.conflictHold = q.conflictHold /\ p'.conflictEtag = q.conflictEtag
    BY <1>1, <1>2, BecomesWhat DEF Becomes
  <1>10. ASSUME Calm PROVE Calm'
    <2>1. Posted(p, net)'
      BY <1>1, <1>2, <1>8, <1>9, <1>10, QuietNet, FreedPosts DEF Calm
    <2>2. (file.id \in Nat)' => frame' = None /\ Agrees(p, file.text)'
      BY <1>2, <1>8, <1>9, <1>10 DEF Calm, Agrees, Freed, Fresh
    <2> QED BY <1>8, <1>9, <1>10, <2>1, <2>2 DEF Calm
  <1>11. p'.consent = p.consent
    BY <1>3, <1>9 DEF Reads
  <1> QED BY <1>2, <1>10, <1>11 DEF HeldInv

\* Where nothing is in doubt, nothing is asked, and no save runs out of time unanswered.
LEMMA DoubtCalm ==
    ASSUME SaveInv, SaveInv', HeldInv,
           HostMeta \/ Unreachable \/ Timeout \/ NetworkError \/ (\E r \in net : Lose(r))
    PROVE  HeldInv'
  <1>1. faults \in Nat /\ Lane(p) /\ Lane(p') /\ p.out = None
    BY DEF HeldInv, SaveInv, Sound
  <1>2. CASE faults' = faults + 1
    BY <1>1, <1>2 DEF HeldInv
  <1>3. CASE HostMeta
    <2>1. ~Calm
      BY <1>3 DEF HostMeta, InProgress, Calm, Posted
    <2>2. p'.consent = p.consent /\ faults' = faults
      BY <1>1, <1>3 DEF HostMeta, Becomes, outside, Lane, Page, Fields
    <2> QED BY <2>1, <2>2 DEF HeldInv
  <1>4. CASE Timeout /\ faults' = faults
    <2>1. ~Calm
      <3>1. faults # faults + 1
        BY <1>1
      <3> QED BY <1>4, <3>1 DEF Timeout, Fault, InProgress, Calm, Posted
    <2> DEFINE job == [p.job EXCEPT !.stage = "asking", !.answer = None]
               lost == [id |-> p.job.id, etag |-> p.job.etag]
               q == [p EXCEPT !.unknown = lost, !.job = job]
               r == IF p.job.resent THEN Failed(q) ELSE q
    <2>2. p.job # None /\ p.job \in Jobs /\ p' = [r EXCEPT !.out = None]
      BY <1>1, <1>4 DEF Timeout, InProgress, Lane, Page, Fields, OrNone
    <2>3. job \in Jobs /\ job.id = p.job.id /\ ~Proves(job)
      BY <2>2 DEF Jobs, OrNone, Proves
    <2> HIDE DEF job, lost
    <2>4. /\ Page(q) /\ q.job = job /\ q.out = None /\ q.ids = p.ids /\ q.missing = p.missing
          /\ q.consent = p.consent
      BY <1>1, <2>3 DEF Lane, Page, Fields, OrNone
    <2> HIDE DEF q
    <2>5. Lane(q)
      BY <1>1, <2>2, <2>3, <2>4 DEF Lane
    <2>6. Failed(q).consent = q.consent
      BY <2>4, <2>5, FailedEnds DEF Ends, Reads
    <2>7. r.consent = p.consent
      BY <2>4, <2>6
    <2> HIDE DEF r
    <2>8. p'.consent = p.consent
      BY <1>1, <2>2, <2>7, BecomesWhat
    <2> QED BY <1>4, <2>1, <2>8 DEF HeldInv
  <1>5. HostMeta \/ faults' = faults + 1 \/ (Timeout /\ faults' = faults)
    BY DEF Unreachable, Fault, Timeout, NetworkError, Lose
  <1> QED BY <1>2, <1>3, <1>4, <1>5

\* The host answers the one request there is. What it refuses, it does not refuse
\* against a save of this tab.
LEMMA HostCalm ==
    ASSUME SaveInv, SaveInv', HeldInv, \E r \in net : Store(r) \/ Refuse(r)
    PROVE  HeldInv'
  <1>1. PICK r \in net : Store(r) \/ Refuse(r)
    OBVIOUS
  <1>2. /\ Lane(p) /\ p.out = None /\ NetOf(net, p, file)
        /\ Lane(p') /\ NetOf(net, p, file)'
    BY DEF SaveInv, Sound
  <1>3. /\ r \in Requests /\ (r.live => p.job # None /\ Fits(r, p.job)) /\ file \in Files
        /\ UNCHANGED faults
    BY <1>1, <1>2 DEF NetOf, SaveInv, World, Store, Refuse
  <1> DEFINE ok == Store(r)
             a == IF ok THEN [ok |-> TRUE, etag |-> r.text, saveId |-> r.id]
                  ELSE [ok |-> FALSE, etag |-> file.text, saveId |-> file.id]
             x == IF r.live THEN [p EXCEPT !.job.answer = a] ELSE p
  <1>4. a \in Answers
    BY <1>3 DEF Answers, Files, Requests
  <1>5. p' = x \/ p' = [x EXCEPT !.landed = @ \/ (InProgress(p) /\ p.job.text = r.text)]
    BY <1>1 DEF Store, Refuse, Reply
  <1>6. /\ p'.stamp = p.stamp /\ p'.consent = p.consent
        /\ p'.conflictHold = p.conflictHold /\ p'.conflictEtag = p.conflictEtag
        /\ p'.job = IF r.live THEN [p.job EXCEPT !.answer = a] ELSE p.job
    <2> HIDE DEF a
    <2>1. /\ DOMAIN x = Fields /\ x.stamp = p.stamp /\ x.consent = p.consent
          /\ x.conflictHold = p.conflictHold /\ x.conflictEtag = p.conflictEtag
          /\ x.job = IF r.live THEN [p.job EXCEPT !.answer = a] ELSE p.job
      BY <1>2 DEF Lane, Page, Fields
    <2> HIDE DEF x
    <2> QED BY <1>5, <2>1 DEF Fields
  <1>7. ASSUME Calm, p.consent = {} PROVE Calm'
    <2>1. /\ r.live /\ r.etag = p.job.etag /\ p.job # None /\ p.job.stage = "sent"
          /\ p.job.answer = None /\ p.job \in Jobs
      BY <1>1, <1>2, <1>3, <1>7 DEF Calm, Posted, Fits, Lane, Page, OrNone
    <2> DEFINE job == [p.job EXCEPT !.answer = a]
    <2>2. p'.job = job
      BY <1>6, <2>1
    <2>3. job \in Jobs /\ job.stage = "sent" /\ job.answer = a /\ job.etag = p.job.etag
      <3> HIDE DEF a
      <3> QED BY <1>4, <2>1 DEF Jobs, OrNone
    <2> HIDE DEF job
    <2>4. a # None /\ job # None
      <3> HIDE DEF a
      <3> QED BY <1>4, <2>3, SaveAssumption
    <2>5. net' = {}
      <3>1. net' \subseteq net
        BY <1>1 DEF Store, Refuse
      <3>2. \A s \in net' : s.live
        BY <1>7, <3>1 DEF Calm, Posted
      <3>3. \A s \in net' : ~s.live
        BY <1>2, <2>2, <2>3, <2>4 DEF NetOf, Fits
      <3> QED BY <3>2, <3>3
    <2>6. file.id \in Nat => p.job.etag = file.text
      BY <1>7, <2>1 DEF Calm, Agrees
    <2>7. ~ok => a.saveId \notin Nat /\ file' = file /\ frame' = frame /\ file.id \notin Nat
      BY <1>1, <2>1, <2>6 DEF Refuse
    <2>8. ok => a.ok /\ a.etag = r.text /\ file'.text = r.text
      BY DEF Store
    <2>9. ok => frame' = None
      BY DEF Store
    <2> HIDE DEF a, ok
    <2>10. Posted(p, net)'
      BY <2>2, <2>3, <2>4, <2>5, <2>7, <2>8 DEF Posted
    <2>11. (file.id \in Nat => frame = None /\ Agrees(p, file.text))'
      BY <2>2, <2>3, <2>4, <2>7, <2>8, <2>9 DEF Agrees
    <2> QED BY <1>6, <1>7, <2>10, <2>11 DEF Calm
  <1> QED BY <1>3, <1>6, <1>7 DEF HeldInv

\* Another writer's version is not this tab's, nor is one the host has no receipt for.
LEMMA OutsideCalm ==
    ASSUME SaveInv, HeldInv,
           (\E id \in {None, Stranger} : Other(id)) \/ Forget \/ UNCHANGED vars
    PROVE  HeldInv'
  <1>1. UNCHANGED <<p, net, faults>>
    BY DEF Other, Forget, vars
  <1>2. file'.id \notin Nat \/ (UNCHANGED <<file, frame>>)
    <2>1. None \notin Nat /\ Stranger \notin Nat
      BY SaveAssumption
    <2>2. CASE \E id \in {None, Stranger} : Other(id)
      BY <2>1, <2>2 DEF Other
    <2>3. CASE Forget
      <3>1. file' = [file EXCEPT !.id = None] /\ file \in Files
        BY <2>3 DEF Forget, SaveInv, World
      <3> QED BY <2>1, <3>1 DEF Files
    <2> QED BY <2>2, <2>3 DEF vars
  <1> QED BY <1>1, <1>2 DEF HeldInv, Calm, Posted, Agrees

LEMMA InitCalm == Init => HeldInv
  BY SaveAssumption DEF Init, FreshPage, HeldInv, Calm, Posted

LEMMA StepCalm == SaveInv /\ HeldInv /\ [Next]_vars => HeldInv'
  <1> SUFFICES ASSUME SaveInv, HeldInv, [Next]_vars PROVE HeldInv'
    OBVIOUS
  <1>0. SaveInv'
    BY SaveStep
  <1>1. CASE \/ Edit \/ SavePage \/ SavePageSoon \/ FireSoon \/ Fire \/ Trail \/ WindowPasses
             \/ SeedEtag \/ HoldSaving \/ ReleaseSaving \/ HoldAllSaves \/ ReleaseAllSaves
             \/ Quiesce \/ FlushBytes \/ Resume
    BY <1>0, <1>1, HandlersCalm
  <1>2. CASE Overwrite
    BY <1>0, <1>2, OverwriteCalm
  <1>3. CASE Sync
    BY <1>0, <1>3, SyncCalm
  <1>4. CASE TakeAnswer
    BY <1>0, <1>4, AnswerCalm
  <1>5. CASE HostMeta \/ Unreachable \/ Timeout \/ NetworkError \/ (\E r \in net : Lose(r))
    BY <1>0, <1>5, DoubtCalm
  <1>6. CASE \E r \in net : Store(r) \/ Refuse(r)
    BY <1>0, <1>6, HostCalm
  <1>7. CASE (\E id \in {None, Stranger} : Other(id)) \/ Forget \/ UNCHANGED vars
    BY <1>7, OutsideCalm
  <1> QED BY <1>1, <1>2, <1>3, <1>4, <1>5, <1>6, <1>7 DEF Next

\* While no save's outcome was ever in doubt and no version was overwritten by choice, a
\* refusal is held only over a version whose stamp this page does not hold, whichever of
\* the 412 and the frame came first (conflictResolvedBySync, live sync's conflict handler).
THEOREM RefusalsAnswered == Spec => []HeldOverAnother
  <1>1. Init => SaveInv /\ HeldInv
    BY InitSave, InitCalm
  <1>2. SaveInv /\ HeldInv /\ [Next]_vars => SaveInv' /\ HeldInv'
    BY SaveStep, StepCalm
  <1>3. HeldInv => HeldOverAnother
    BY DEF HeldInv, Calm, HeldOverAnother
  <1> QED BY <1>1, <1>2, <1>3, PTL DEF Spec
=============================================================================
