----------------------------- MODULE SaveClient -----------------------------
(***************************************************************************)
(* How an editable page saves itself (save.js, save-core.js, etag.js,      *)
(* dirty-gate.js): the explicit and the automatic lane, what each of the   *)
(* holds on them remembers and replays, one request on the wire at a time, *)
(* the question a timeout leaves open, and the stamp the next save carries.*)
(*                                                                         *)
(* A document reads [mine, theirs]: how many of this tab's edits, and which *)
(* of the other writers' versions it was made from. Its stamp is what it   *)
(* reads. Handlers run one at a time, so each is one action over the       *)
(* page's record p, built from operators from p to p. The host is the      *)
(* environment: it stores a save whose If-Match is the stamp of the file,  *)
(* or that has none, answers 412 to any other, and may keep the Save-ID of *)
(* the bytes it stores. Time is left out: an armed timer may fire at any   *)
(* moment.                                                                 *)
(***************************************************************************)
EXTENDS Naturals

CONSTANTS
    None, Stranger,       \* Stranger: the Save-ID of another tab
    Scenarios,            \* what may happen beside edits and saves: one set is chosen
    MaxEdits, MaxOthers,  \* bounds on edits, and on versions other writers make
    MaxAsks, MaxFaults    \* bounds on explicit saves, and on faults: more than one with "again"

EventKinds == {"press", "soon", "other", "wire", "preview", "exit", "typed", "overwrite",
               "bare", "timeout", "error", "again", "restart"}

OrNone(S) == S \cup {None}

\* A document, the stamp a save carries (None: no If-Match), a save request, the host's
\* answer, and the save on the wire (its stage: sent, or asking whether it landed).
Texts == [mine : 0 .. MaxEdits, theirs : 0 .. MaxOthers]
Stamps == OrNone(Texts)
Requests == [id : Nat, etag : Stamps, text : Texts, live : BOOLEAN]
Answers == [ok : BOOLEAN, etag : Texts, saveId : Nat \cup {None, Stranger}]
Jobs == [id : Nat, etag : Stamps, text : Texts, auto : BOOLEAN, resent : BOOLEAN,
         resolved : BOOLEAN, stage : {"sent", "asking"}, answer : OrNone(Answers)]

ASSUME SaveAssumption ==
    /\ None \notin Nat \cup Texts \cup Jobs \cup Requests \cup Answers
    /\ Stranger \notin Nat \cup {None}
    /\ MaxEdits \in Nat /\ MaxOthers \in Nat /\ MaxAsks \in Nat /\ MaxFaults \in Nat
    /\ Scenarios \subseteq SUBSET EventKinds

VARIABLES
    may,     \* the events that happen
    file,    \* what the file reads, and the Save-ID the host has for it
    made,    \* versions other writers have made
    frame,   \* a version another writer made, on its way to this page, or None
    net,     \* save requests on their way to the host
    p,       \* the page
    asks, faults,
    rewound  \* history: a save without a stamp was stored over a later edit of this tab

vars == <<may, file, made, frame, net, p, asks, faults, rewound>>

-----------------------------------------------------------------------------
(* The page's record. Histories: landed, whether the host stored the bytes *)
(* of the save on the wire; missing, whether a save was reported saved     *)
(* whose bytes were not; broke, whether an automatic save went out while   *)
(* autosave was suspended; consent, the other writers' versions a person   *)
(* chose to overwrite, None for whichever the save finds; chosen, the      *)
(* Save-ID of the save each such choice is about and what was made by      *)
(* then; failed, whether nothing was typed or saved since the last save    *)
(* that ended in an error; parkedAt, the edits a denied save held.         *)

FreshPage(text) ==
    [text |-> text, saved |-> text, stamp |-> text, dirty |-> FALSE, touched |-> FALSE,
     job |-> None, out |-> None, ids |-> 0, unknown |-> None,
     pendingSave |-> FALSE, pendingAutosave |-> FALSE,
     autosaveSuspended |-> 0, autosaveMissed |-> FALSE, wire |-> FALSE,
     conflictHold |-> FALSE, conflictEtag |-> None,
     previewHold |-> FALSE, previewMissed |-> FALSE, previewAutosaveMissed |-> FALSE,
     quiesced |-> FALSE, parkedWork |-> FALSE, parkedAutosave |-> FALSE,
     due |-> FALSE, running |-> None, trail |-> FALSE, recent |-> FALSE, soon |-> None,
     seeding |-> None,
     landed |-> FALSE, missing |-> FALSE, broke |-> FALSE, consent |-> {}, chosen |-> {},
     failed |-> FALSE, parkedAt |-> 0]

InProgress(q) == q.job # None

\* Every stamp taken makes a seed that is being asked for out of date.
RecordEtag(q, etag) ==
    [q EXCEPT !.stamp = etag, !.seeding = IF @ = None THEN None ELSE [@ EXCEPT !.stale = TRUE]]

GateClearIfUnchanged(q) == [q EXCEPT !.dirty = @ /\ q.touched]

SessionClosed(q) ==
    IF q.dirty THEN [q EXCEPT !.parkedWork = TRUE, !.parkedAt = q.text.mine] ELSE q

-----------------------------------------------------------------------------
(* One attempt. A request is handed to the network through out; while it   *)
(* is on the wire job remembers what it carried and what is being asked    *)
(* about it.                                                               *)

Post(q, id, etag, text) == [q EXCEPT !.out = [id |-> id, etag |-> etag, text |-> text, live |-> TRUE]]

Send(q, auto) ==
    LET id == q.ids + 1
    IN  Post([q EXCEPT !.ids = id, !.touched = FALSE, !.landed = FALSE,
                       !.broke = @ \/ (auto /\ q.autosaveSuspended > 0),
                       !.job = [id |-> id, etag |-> q.stamp, text |-> q.text, auto |-> auto,
                                resent |-> FALSE, resolved |-> FALSE,
                                stage |-> "sent", answer |-> None]],
             id, q.stamp, q.text)

\* A page that reads as saved clears the gate: the comparison is proof.
NothingToSave(q) == [q EXCEPT !.dirty = FALSE]

Explicit(q, permitted) ==
    IF q.quiesced /\ ~permitted THEN SessionClosed(q)
    ELSE IF q.previewHold THEN [q EXCEPT !.previewMissed = TRUE]
    ELSE IF InProgress(q) THEN [q EXCEPT !.pendingSave = TRUE]
    ELSE IF q.text = q.saved THEN NothingToSave(q)
    ELSE Send(q, FALSE)

Automatic(q) ==
    IF q.quiesced THEN SessionClosed([q EXCEPT !.parkedAutosave = TRUE])
    ELSE IF q.previewHold THEN [q EXCEPT !.previewAutosaveMissed = TRUE]
    ELSE IF InProgress(q) THEN [q EXCEPT !.pendingAutosave = TRUE]
    ELSE IF ~q.dirty THEN q
    ELSE IF q.text = q.saved THEN NothingToSave(q)
    ELSE Send(q, TRUE)

\* savePageForce: no comparison, no permit.
SavePageForce(q) ==
    IF q.quiesced THEN SessionClosed(q)
    ELSE IF q.previewHold THEN [q EXCEPT !.previewMissed = TRUE]
    ELSE IF InProgress(q) THEN [q EXCEPT !.pendingSave = TRUE]
    ELSE Send(q, FALSE)

\* savePageThrottled. Inside the throttle's window the attempt rides the timer, which
\* asks none of this again.
Rides(q) ==
    /\ ~q.previewHold /\ ~q.quiesced /\ q.autosaveSuspended = 0
    /\ ~InProgress(q) /\ q.recent

Throttled(q) ==
    IF q.previewHold THEN [q EXCEPT !.previewAutosaveMissed = TRUE]
    ELSE IF q.quiesced THEN SessionClosed([q EXCEPT !.parkedAutosave = TRUE])
    ELSE IF q.autosaveSuspended > 0 THEN [q EXCEPT !.autosaveMissed = TRUE]
    ELSE IF InProgress(q) THEN [q EXCEPT !.pendingAutosave = TRUE]
    ELSE IF Rides(q) THEN [q EXCEPT !.trail = TRUE]
    ELSE Automatic([q EXCEPT !.recent = TRUE])

-----------------------------------------------------------------------------
(* Suspension, and the conflict hold that is one of its holders.           *)

ResumeAutosave(q) ==
    LET r == [q EXCEPT !.autosaveSuspended = @ - 1]
        s == [r EXCEPT !.soon = IF @ = "deferred" THEN "armed" ELSE @, !.autosaveMissed = FALSE]
    IN  IF q.autosaveSuspended = 0 THEN q
        ELSE IF r.autosaveSuspended > 0 THEN r
        ELSE IF r.autosaveMissed THEN Throttled(s) ELSE s

\* Every refusal takes the suspension once more.
BugHoldForConflict(q, etag) ==
    [q EXCEPT !.conflictEtag = etag, !.conflictHold = TRUE,
              !.autosaveSuspended = @ + 1]

HoldForConflict(q, etag) ==
    [q EXCEPT !.conflictEtag = etag, !.conflictHold = TRUE,
              !.autosaveSuspended = IF q.conflictHold THEN @ ELSE @ + 1]

ReleaseConflictHold(q) ==
    IF ~q.conflictHold THEN q
    ELSE ResumeAutosave([q EXCEPT !.conflictHold = FALSE, !.conflictEtag = None])

\* Only the version that refused this tab answers the refusal.
ConflictResolvedBySync(q, etag) ==
    IF q.conflictEtag \in {None, etag} THEN ReleaseConflictHold(q) ELSE q

SaveAfterMerge(q, diverged) == IF diverged THEN Throttled(q) ELSE q

-----------------------------------------------------------------------------
(* The end of a save: what it does to the page, the hold a refusal takes,  *)
(* the save that waited behind it, and live sync's answer to a refusal     *)
(* over a version that is already on the page.                             *)

\* An autosave that waited is taken for done.
BugDrainPendingSave(q) ==
    IF q.unknown # None THEN q
    ELSE IF q.pendingSave
    THEN Explicit([q EXCEPT !.pendingSave = FALSE, !.pendingAutosave = FALSE], FALSE)
    ELSE [q EXCEPT !.pendingAutosave = FALSE]

DrainPendingSave(q) ==
    IF q.unknown # None THEN q
    ELSE IF q.pendingSave
    THEN Explicit([q EXCEPT !.pendingSave = FALSE, !.pendingAutosave = FALSE], FALSE)
    ELSE [q EXCEPT !.pendingAutosave = FALSE, !.due = @ \/ q.pendingAutosave]

\* The lane is free before the result is handed on.
Free(q) == [q EXCEPT !.job = None, !.running = IF @ = "sent" THEN None ELSE @]

\* The save also accounts for what was typed while it was on the wire.
BugSucceeded(q) ==
    LET r == [Free(q) EXCEPT !.parkedWork = FALSE, !.saved = q.job.text, !.failed = FALSE,
                             !.missing = @ \/ ~q.landed, !.dirty = FALSE]
    IN  DrainPendingSave(ReleaseConflictHold(r))

Succeeded(q) ==
    LET r == [Free(q) EXCEPT !.parkedWork = FALSE, !.saved = q.job.text, !.failed = FALSE,
                             !.missing = @ \/ ~q.landed]
    IN  DrainPendingSave(ReleaseConflictHold(GateClearIfUnchanged(r)))

Failed(q) == DrainPendingSave([Free(q) EXCEPT !.failed = TRUE])

Refused(q, etag) ==
    LET r == DrainPendingSave(HoldForConflict(Free(q), etag))
    IN  IF etag = r.stamp
        THEN LET s == ConflictResolvedBySync(r, etag) IN SaveAfterMerge(s, s.dirty)
        ELSE r

-----------------------------------------------------------------------------
(* sendOnce and sendSave: the host's answers, the re-send after a timeout  *)
(* and the late duplicate. The record of a receipt is proof about the save *)
(* that carried that id, and a re-send goes out under the stamp the first  *)
(* request carried.                                                        *)

SentByThisTab(q, id) == id \in 1 .. q.ids

TookOk(q) == Succeeded([RecordEtag(q, q.job.answer.etag) EXCEPT !.unknown = None])

\* This tab's own earlier save is what the host refused it against.
LateDuplicate(q) ==
    LET r == [RecordEtag(q, q.job.answer.etag) EXCEPT !.unknown = None, !.ids = @ + 1]
    IN  Post([r EXCEPT !.job = [@ EXCEPT !.etag = r.stamp, !.id = r.ids, !.resolved = TRUE,
                                         !.stage = "sent", !.answer = None]],
             r.ids, r.stamp, r.job.text)

Answered(q) ==
    IF q.job.answer.ok THEN TookOk(q)
    ELSE IF ~q.job.resolved /\ SentByThisTab(q, q.job.answer.saveId) THEN LateDuplicate(q)
    ELSE Refused(q, q.job.answer.etag)

\* Any id this tab has sent is proof that this save landed.
BugLanded(q) == SentByThisTab(q, q.job.answer.saveId)

Landed(q) == q.job.answer.saveId = q.job.id

\* The re-send carries the stamp the tab holds by now.
BugResend(q) ==
    LET r == [q EXCEPT !.unknown = IF q.job.answer.saveId = None THEN @ ELSE None]
    IN  Post([r EXCEPT !.job = [@ EXCEPT !.resent = TRUE, !.stage = "sent", !.answer = None]],
             r.job.id, r.stamp, r.job.text)

\* An id that is not ours closes the question; none at all proves nothing.
NotOurs(q) == [q EXCEPT !.unknown = IF q.job.answer.saveId = None THEN @ ELSE None]

Resend(q) ==
    LET r == NotOurs(q)
    IN  Post([r EXCEPT !.job = [@ EXCEPT !.resent = TRUE, !.stage = "sent", !.answer = None]],
             r.job.id, r.job.etag, r.job.text)

\* A save that went out without a stamp has none to be sent again under.
Recovered(q) ==
    IF Landed(q) THEN TookOk(q)
    ELSE IF q.job.etag = None THEN Failed(NotOurs(q))
    ELSE Resend(q)

-----------------------------------------------------------------------------
(* The page's actions.                                                     *)

Init ==
    LET text == [mine |-> 0, theirs |-> 0] IN
    /\ may \in Scenarios
    /\ file = [text |-> text, id |-> None]
    /\ made = 0 /\ frame = None /\ net = {} /\ p = FreshPage(text)
    /\ asks = 0 /\ faults = 0 /\ rewound = FALSE

\* What a handler makes of the page; a request it sends joins the network.
Becomes(q) ==
    /\ p' = [q EXCEPT !.out = None]
    /\ net' = IF q.out = None THEN net ELSE net \cup {q.out}

outside == <<may, file, made, frame, asks, faults, rewound>>

Asking ==
    /\ asks < MaxAsks /\ asks' = asks + 1
    /\ UNCHANGED <<may, file, made, frame, faults, rewound>>

\* A keystroke; while a session is closed the activity is not reported.
Edit ==
    /\ p.text.mine < MaxEdits /\ (p.quiesced => "typed" \in may)
    /\ Becomes([p EXCEPT !.text.mine = @ + 1, !.dirty = TRUE, !.touched = TRUE,
                         !.failed = FALSE, !.due = @ \/ ~p.quiesced])
    /\ UNCHANGED outside

SavePage == "press" \in may /\ Asking /\ Becomes(Explicit(p, FALSE))

SavePageSoon ==
    /\ "soon" \in may /\ p.soon = None /\ Asking
    /\ Becomes([p EXCEPT !.soon = "armed"])

FireSoon ==
    /\ p.soon = "armed"
    /\ Becomes(IF p.autosaveSuspended > 0 \/ p.quiesced THEN [p EXCEPT !.soon = "deferred"]
               ELSE Explicit([p EXCEPT !.soon = None], FALSE))
    /\ UNCHANGED outside

\* The scheduler admits one attempt at a time: none while the last rides the throttle
\* or is on the wire.
Fire ==
    /\ p.due /\ p.running = None
    /\ LET q == Throttled([p EXCEPT !.due = FALSE]) IN
       Becomes([q EXCEPT !.running = IF q.out # None THEN "sent"
                                     ELSE IF Rides(p) THEN "trail" ELSE None])
    /\ UNCHANGED outside

Trail ==
    /\ p.trail
    /\ LET q == Automatic([p EXCEPT !.trail = FALSE]) IN
       Becomes([q EXCEPT !.running = IF @ = "trail" THEN IF q.out # None THEN "sent" ELSE None
                                     ELSE @])
    /\ UNCHANGED outside

WindowPasses ==
    /\ p.recent /\ ~p.trail
    /\ Becomes([p EXCEPT !.recent = FALSE])
    /\ UNCHANGED outside

TakeAnswer ==
    /\ InProgress(p) /\ p.job.answer # None
    /\ Becomes(IF p.job.stage = "sent" THEN Answered(p) ELSE Recovered(p))
    /\ UNCHANGED outside

\* What may go wrong does so MaxFaults times at most, and only once without "again".
Fault == faults < MaxFaults /\ (faults = 0 \/ "again" \in may) /\ faults' = faults + 1

Abandoned == {[r EXCEPT !.live = FALSE] : r \in net}

\* A second timeout says the host does not answer in time: nothing more is sent.
Timeout ==
    /\ "timeout" \in may
    /\ InProgress(p) /\ p.job.stage = "sent"
    /\ \/ Fault
       \/ p.job.answer = None /\ (\A r \in net : ~r.live) /\ faults' = faults
    /\ LET q == [p EXCEPT !.unknown = [id |-> p.job.id, etag |-> p.job.etag],
                          !.job = [@ EXCEPT !.stage = "asking", !.answer = None]]
           r == IF p.job.resent THEN Failed(q) ELSE q
       IN  /\ p' = [r EXCEPT !.out = None]
           /\ net' = Abandoned \cup (IF r.out = None THEN {} ELSE {r.out})
    /\ UNCHANGED <<may, file, made, frame, asks, rewound>>

\* The request fails without a timeout; whether the host stored it stays open.
NetworkError ==
    /\ "error" \in may /\ Fault
    /\ InProgress(p) /\ p.job.stage = "sent"
    /\ LET q == Failed(p)
       IN  /\ p' = [q EXCEPT !.out = None]
           /\ net' = Abandoned \cup (IF q.out = None THEN {} ELSE {q.out})
    /\ UNCHANGED <<may, file, made, frame, asks, rewound>>

\* recoverUnknownSave asks, and the host answers or cannot be reached.
HostMeta ==
    /\ InProgress(p) /\ p.job.stage = "asking" /\ p.job.answer = None
    /\ Becomes([p EXCEPT !.job.answer = [ok |-> TRUE, etag |-> file.text, saveId |-> file.id]])
    /\ UNCHANGED outside

Unreachable ==
    /\ InProgress(p) /\ p.job.stage = "asking" /\ p.job.answer = None /\ Fault
    /\ Becomes(Failed(p))
    /\ UNCHANGED <<may, file, made, frame, asks, rewound>>

\* saveOverwritingConflict: the host's stamp is asked for, then the save is forced. An
\* answer that is bare, because the host cannot be reached or names no stamp, clears the
\* stamp that is held, and the save goes out without one.
SeedEtag ==
    /\ "overwrite" \in may /\ p.conflictHold /\ p.seeding = None /\ Asking
    /\ \E etag \in {file.text} \cup (IF "bare" \in may THEN {None} ELSE {}) :
           Becomes([p EXCEPT !.seeding = [etag |-> etag, stale |-> FALSE]])

\* A stamp taken meanwhile stands: the answer is then not used.
Seeded(q, etag) ==
    [q EXCEPT !.stamp = etag,
              !.consent = @ \cup {IF etag = None THEN None ELSE etag.theirs},
              !.chosen = @ \cup (IF etag = None THEN {[id |-> q.ids + 1, made |-> made]} ELSE {})]

Overwrite ==
    /\ p.seeding # None
    /\ LET q == [p EXCEPT !.seeding = None]
       IN  Becomes(SavePageForce(IF p.seeding.stale THEN q ELSE Seeded(q, p.seeding.etag)))
    /\ UNCHANGED outside

\* A frame is applied: over a page the gate calls clean it replaces what is there, else
\* it is merged, and the merge saves itself. What is left is that version's content.
BugApplied(q, text) ==
    LET diverged == q.dirty /\ q.text.mine > text.mine
        r == [q EXCEPT !.text = [text EXCEPT !.mine = IF diverged THEN q.text.mine ELSE @],
                       !.dirty = diverged,
                       !.saved = IF diverged THEN @ ELSE text]
    IN  SaveAfterMerge(RecordEtag(r, text), diverged)

Applied(q, text) ==
    LET diverged == q.dirty /\ q.text.mine > text.mine
        r == [q EXCEPT !.text = [text EXCEPT !.mine = IF diverged THEN q.text.mine ELSE @],
                       !.dirty = diverged,
                       !.saved = IF diverged THEN @ ELSE text]
    IN  SaveAfterMerge(ConflictResolvedBySync(RecordEtag(r, text), text), diverged)

Sync ==
    /\ frame # None /\ frame' = None
    /\ Becomes(Applied(p, frame))
    /\ UNCHANGED <<may, file, made, asks, faults, rewound>>

-----------------------------------------------------------------------------
(* The holds. clay.wire holds autosave off while an agent works on the     *)
(* file; a preview holds every save; an exit from edit mode closes the     *)
(* session, flushes under its permit, and here is refused and resumes.     *)

HoldSaving ==
    /\ "wire" \in may /\ ~p.wire
    /\ Becomes([p EXCEPT !.wire = TRUE, !.autosaveSuspended = @ + 1])
    /\ UNCHANGED outside

ReleaseSaving ==
    /\ p.wire
    /\ Becomes(ResumeAutosave([p EXCEPT !.wire = FALSE]))
    /\ UNCHANGED outside

HoldAllSaves ==
    /\ "preview" \in may /\ ~p.previewHold
    /\ Becomes([p EXCEPT !.previewHold = TRUE])
    /\ UNCHANGED outside

ReleaseAllSaves ==
    /\ p.previewHold
    /\ LET q == [p EXCEPT !.previewHold = FALSE, !.previewMissed = FALSE,
                          !.previewAutosaveMissed = FALSE]
       IN  Becomes(IF p.previewMissed THEN Explicit(q, FALSE)
                   ELSE IF p.previewAutosaveMissed THEN Throttled(q) ELSE q)
    /\ UNCHANGED outside

Quiesce ==
    /\ "exit" \in may /\ ~p.quiesced /\ Asking
    /\ Becomes([p EXCEPT !.quiesced = TRUE])

\* flushBytes waits for the lane and gives up on a conflict.
FlushBytes ==
    /\ p.quiesced /\ ~InProgress(p) /\ ~p.conflictHold /\ p.unknown = None
    /\ Becomes(Explicit(p, TRUE))
    /\ UNCHANGED outside

Resume ==
    /\ p.quiesced
    /\ LET q == [p EXCEPT !.quiesced = FALSE, !.parkedAutosave = FALSE]
           r == IF p.parkedAutosave THEN Throttled(q) ELSE q
       IN  Becomes([r EXCEPT !.soon = IF @ = "deferred" THEN "armed" ELSE @])
    /\ UNCHANGED outside

-----------------------------------------------------------------------------
(* The host, the other writers, and requests that never arrive.            *)

Reply(r, ok, etag, saveId) ==
    IF r.live THEN [p EXCEPT !.job.answer = [ok |-> ok, etag |-> etag, saveId |-> saveId]] ELSE p

\* The host stores the save: one for the file as it is, or one without a stamp. A frame
\* about the version it is stored over is void.
Store(r) ==
    /\ r \in net /\ net' = net \ {r} /\ r.etag \in {None, file.text}
    /\ file' = [text |-> r.text, id |-> r.id]
    /\ frame' = None
    /\ rewound' = (rewound \/ (r.etag = None /\ r.text.mine < file.text.mine))
    /\ p' = [Reply(r, TRUE, r.text, r.id) EXCEPT
                !.landed = @ \/ (InProgress(p) /\ p.job.text = r.text)]
    /\ UNCHANGED <<may, made, asks, faults>>

Refuse(r) ==
    /\ r \in net /\ net' = net \ {r} /\ r.etag \notin {None, file.text}
    /\ p' = Reply(r, FALSE, file.text, file.id)
    /\ UNCHANGED <<may, file, made, frame, asks, faults, rewound>>

Lose(r) ==
    /\ "timeout" \in may /\ Fault
    /\ r \in net /\ net' = net \ {r}
    /\ UNCHANGED <<may, file, made, frame, p, asks, rewound>>

\* Another tab (whose save has an id) or another program.
Other(id) ==
    /\ "other" \in may /\ made < MaxOthers /\ made' = made + 1
    /\ file' = [text |-> [file.text EXCEPT !.theirs = made'], id |-> id]
    /\ frame' = file'.text
    /\ UNCHANGED <<may, net, p, asks, faults, rewound>>

\* A host may forget its receipt and stay conforming.
Forget ==
    /\ "restart" \in may /\ file.id # None
    /\ file' = [file EXCEPT !.id = None]
    /\ UNCHANGED <<may, made, frame, net, p, asks, faults, rewound>>

Next ==
    \/ Edit \/ SavePage \/ SavePageSoon \/ FireSoon \/ Fire \/ Trail \/ WindowPasses
    \/ TakeAnswer \/ Timeout \/ NetworkError \/ HostMeta \/ Unreachable
    \/ SeedEtag \/ Overwrite \/ Sync
    \/ HoldSaving \/ ReleaseSaving \/ HoldAllSaves \/ ReleaseAllSaves
    \/ Quiesce \/ FlushBytes \/ Resume
    \/ \E r \in net : Store(r) \/ Refuse(r) \/ Lose(r)
    \/ \E id \in {None, Stranger} : Other(id)
    \/ Forget

Spec == Init /\ [][Next]_vars

-----------------------------------------------------------------------------
(* Types, and what the page promises.                                      *)

\* Every request is for a stamp the page really held, one at a time, and only what the
\* page waits for is answered.
TypeOK ==
    /\ file.text \in Texts /\ file.id \in Nat \cup {None, Stranger}
    /\ frame \in OrNone(Texts) /\ net \subseteq Requests
    /\ p.text \in Texts /\ p.saved \in Texts /\ p.stamp \in Stamps
    /\ p.out = None /\ p.autosaveSuspended \in 0 .. 2
    /\ p.soon \in {None, "armed", "deferred"} /\ p.running \in {None, "trail", "sent"}
    /\ p.job # None => p.job.stage \in {"sent", "asking"} /\ p.job.id \in 1 .. p.ids
    /\ {r \in net : r.live} # {} => InProgress(p)

\* A save the page reports as saved is one whose bytes the host stored, whatever was
\* lost, delayed or forgotten (recoverUnknownSave, save-core.js).
SavedMeansStored == ~p.missing

\* A save under a stamp never takes the file back: no edit of this tab, and no version of
\* another writer unless a person chose to overwrite that very version (sendSave's stamps,
\* saveOverwritingConflict). One without a stamp is stored over whatever is there, and is
\* only sent once a person chose that and the host named no version (seedEtag). What the
\* page does after such a save took back an edit of its own (rewound) is left out.
LastWriteWins == None \in p.consent /\ \E r \in net : r.etag = None /\ Store(r)

FileKeepsEdits ==
    [][\/ /\ file'.text.mine >= file.text.mine
          /\ file'.text.theirs >= file.text.theirs \/ file.text.theirs \in p.consent
       \/ LastWriteWins \/ rewound]_vars

\* A version that was made after a person chose to overwrite whatever is there is replaced
\* by no save but the one that was chosen: no stamp is "last write wins for that one save"
\* (etag.js), and a second Cmd+S is not that choice (saveOverwritingConflict).
OverwriteIsOneSave ==
    [][file'.text.theirs < file.text.theirs =>
         \/ file.text.theirs \in p.consent
         \/ \E c \in p.chosen : file'.id = c.id \/ file.text.theirs <= c.made]_vars

\* A page whose gate says clean holds no edit the file lacks: the gate may over-report
\* and must never under-report (dirty-gate.js), for a frame replaces a clean page. Left
\* out: a file that a late save without a stamp took back.
GateNeverUnderReports == rewound \/ p.dirty \/ p.text.mine <= file.text.mine

\* Autosave is suspended exactly as often as it is held: by the wire, and by a refusal
\* until it is answered.
SuspensionCounted ==
    p.autosaveSuspended =
        (IF p.wire THEN 1 ELSE 0) + (IF p.conflictHold THEN 1 ELSE 0)

\* The page's own bookkeeping agrees: types, one request at a time, and the count.
HoldsAgree == TypeOK /\ SuspensionCounted

\* When every timer, request and frame is done and nothing holds saving, failed or is
\* reported as parked, every edit is in the file: whatever arrived while a save could
\* not go out was replayed (pendingSave, pendingAutosave, autosaveMissed, the preview's
\* and the session's, and the scheduler's request). Left out: a file that a late save
\* without a stamp took back.
Resting ==
    /\ ~InProgress(p) /\ ~p.due /\ ~p.trail /\ p.soon # "armed"
    /\ p.seeding = None /\ frame = None
Held == p.wire \/ p.previewHold \/ p.quiesced \/ p.conflictHold
RestsSaved ==
    Resting /\ ~Held /\ ~p.failed /\ ~p.parkedWork /\ ~rewound =>
        p.text.mine = file.text.mine /\ ~p.dirty

\* A refusal is held only over a version this page does not show: one that live sync
\* merged is answered, in whatever order the frame and the 412 came (conflictResolvedBySync).
RefusedOnlyUnseen == p.conflictHold => p.conflictEtag.theirs > p.text.theirs

\* A refusal over the version whose stamp this tab holds is answered, whichever of the
\* frame and the 412 came first (conflictResolvedBySync, live sync's conflict handler).
\* Left out: a version a person chose to overwrite, and a save whose outcome was ever in
\* doubt, where the stamp taken for this tab's own save may outlive the save it was for.
HeldOverAnother ==
    p.conflictHold /\ faults = 0 => p.conflictEtag # p.stamp \/ p.consent # {}

\* No automatic save goes out while autosave is suspended.
AutosaveNeverUnderHold == ~p.broke

\* Work a closed session parked is reported until a save has covered it.
ParkedUntilCovered == p.parkedAt > p.saved.mine => p.parkedWork
=============================================================================
