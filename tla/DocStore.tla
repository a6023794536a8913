------------------------------ MODULE DocStore ------------------------------
(***************************************************************************)
(* One .htmlclay document of htmlclay: its bytes on disk, the in-memory    *)
(* session.File records about them, its version history, and every route   *)
(* that reads or writes it (serve, save, restore, data write, versions     *)
(* list), interleaved with external programs, the file watcher, crashes    *)
(* and update restarts.                                                    *)
(*                                                                         *)
(* A handler's critical section (session.File.Lock) is a record in req     *)
(* with one action per durable step, so external edits, the watcher's      *)
(* polls and crashes fall between the steps as they do in the program.     *)
(* The lock excludes the other handlers and the watcher's publication,     *)
(* never an external program.                                              *)
(*                                                                         *)
(* A definition named Bug... is a plausible mistake in the one after it;   *)
(* nothing uses it. PROJECT.json says which property each one breaks.      *)
(***************************************************************************)
EXTENDS Naturals, FiniteSets

CONSTANTS
    Content,      \* the byte strings a document can hold (their hash is their name)
    Empty,        \* the zero-byte content
    Marked,       \* the contents that carry this document's htmlclayid
    Bare,         \* Bare[c]: c as a restore writes it, htmlclayid stripped
    None,         \* absent: no file, no record, no header
    Star,         \* the If-Match value *
    IfMatches,    \* If-Match values clients send, None for a plain save
    SaveIds,      \* Save-ID header values
    Req,          \* concurrent HTTP handlers
    TrustedOnly,  \* TRUE: the registration's provenance is exactly ViaTrusted
    HandoffOn,    \* TRUE: an update restart may carry the save token over
    Faults,       \* the I/O steps that may fail
    OldHistories, \* the version histories an earlier run may have left
    MaxEdits, MaxRuns, MaxWrites   \* bounds on external edits, process runs, writes

Keys == {"id", "path"}   \* the two ways versions.Key names a history

FaultKinds == {"read", "backup", "resolve", "write", "sync"}

ASSUME DocAssumption ==
    /\ Empty \in Content
    /\ None \notin Content /\ Star \notin Content \cup {None}
    /\ None \in IfMatches /\ IfMatches \subseteq Content \cup {None, Star}
    /\ None \notin SaveIds /\ None \notin Req \cup Keys \cup {"another-tab"}
    /\ Marked \subseteq Content \ {Empty}
    /\ Bare \in [Content -> Content]
    /\ \A c \in Content : Bare[c] \notin Marked /\ (c \notin Marked => Bare[c] = c)
    /\ OldHistories \subseteq SUBSET Content
    /\ Faults \subseteq FaultKinds
    /\ TrustedOnly \in BOOLEAN /\ HandoffOn \in BOOLEAN
    /\ MaxEdits \in Nat /\ MaxRuns \in Nat /\ MaxWrites \in Nat

VARIABLES
    disk,         \* the document's bytes, None while there is no file
    versions,     \* versions[k]: the contents published in key k's history
    provisional,  \* meta.json of the id history: a first-open snapshot nobody saved
    proc,         \* "up", "down", or "handoff" (down, its tokens in the handoff file)
    token,        \* some tab holds a save token this process accepts
    file,         \* the session.File records, lost with the process
    pending,      \* the watcher's unconfirmed candidate
    lock,         \* the handler inside File.Lock, None when it is free
    req,          \* req[r]: the critical section handler r is in
    edits, runs, writes,   \* what the bounds count
    ev,           \* what the last step did, for the properties to look at
    author,       \* who put the present bytes on disk
    failed,       \* contents whose backup was attempted and failed
    stored,       \* the <<Save-ID, body>> pairs that saves committed, ever
    known,        \* contents this run stored for a tab or a data write, or first observed
    tabStored,    \* contents this run stored for a save or a restore
    sighted,      \* the tabs were told of an outside edit since this run's last write
    engaged       \* the id history stands behind an acknowledged write

store  == <<versions, provisional>>
bounds == <<edits, runs, writes>>
ghosts == <<author, failed, stored, known, tabStored, sighted, engaged>>
vars   == <<disk, versions, provisional, proc, token, file, pending, lock, req,
            edits, runs, writes, ev,
            author, failed, stored, known, tabStored, sighted, engaged>>

-----------------------------------------------------------------------------
(* session.File: the per-file records and the operations that set them.    *)

NewFile == [lastServerWrite |-> None, lastStableObservation |-> None,
            historyKey |-> None, writtenHere |-> FALSE,
            externalSinceOwnWrite |-> FALSE,
            lastSaveID |-> None, lastSaveEtag |-> None]

Observed(f) == f.lastServerWrite # None

BugRecordServerWrite(f, c) ==
    [f EXCEPT !.lastServerWrite = c, !.externalSinceOwnWrite = FALSE]

RecordServerWrite(f, c) ==
    [f EXCEPT !.lastServerWrite = c, !.lastStableObservation = c,
              !.externalSinceOwnWrite = FALSE]

NoteWriteByThisHost(f) == [f EXCEPT !.writtenHere = TRUE]

NoteWriteFromOutsideTabs(f) == [f EXCEPT !.externalSinceOwnWrite = TRUE]

RecordStableObservation(f, c) ==
    [f EXCEPT !.lastStableObservation = c,
              !.externalSinceOwnWrite = @ \/ c # f.lastServerWrite]

BugNoteFirstObservation(f, c) == RecordServerWrite(f, c)

NoteFirstObservation(f, c) == IF Observed(f) THEN f ELSE RecordServerWrite(f, c)

BugRecordSaveReceipt(f, i, c) ==
    [f EXCEPT !.lastSaveID = IF i = None THEN @ ELSE i, !.lastSaveEtag = c]

RecordSaveReceipt(f, i, c) == [f EXCEPT !.lastSaveID = i, !.lastSaveEtag = c]

\* The Save-ID reported for bytes c: the recorded one while its etag still matches.
SaveReceiptFor(f, c) == IF f.lastSaveEtag = c THEN f.lastSaveID ELSE None

\* The key is set once and then refuses to move.
SetHistoryKey(f, k) == IF f.historyKey = None THEN [f EXCEPT !.historyKey = k] ELSE f
-----------------------------------------------------------------------------
(* Identity, the version store and the HTTP helpers.                       *)

\* versions.Key: the id in the bytes, or else a hash of the path.
KeyOf(c) == IF c \in Marked THEN "id" ELSE "path"

\* ensureHistoryKeyLocked: the keys a handler holding bytes c may end up with.
\* ResolveIdentity answers this document's id whether it resumes, claims or
\* mints it; a store error falls back to versions.Key.
ResolvedKeys(f, c) ==
    IF f.historyKey # None THEN {f.historyKey}
    ELSE {"id"} \cup (IF "resolve" \in Faults THEN {KeyOf(c)} ELSE {})

\* ResolveIdentity reports a freshly minted id when the path owns no id history
\* and the bytes claim none.
Minted(f, k, c) ==
    f.historyKey = None /\ k = "id" /\ versions["id"] = {} /\ c \notin Marked

HasHistory(k) == versions[k] # {}

\* Backup(k, c) publishes c; a published version rewrites meta.json, which ends
\* the provisional state, and identical bytes publish nothing.
BackedUp(k, cs) == [versions EXCEPT ![k] = @ \cup cs]
ProvisionalAfter(k, cs) == provisional /\ ~(k = "id" /\ cs \ versions["id"] # {})

\* The sets of contents that a sequence of Backup calls for cs may publish.
BackupOutcomes(cs) == IF "backup" \in Faults THEN SUBSET cs ELSE {cs}

IfMatchSatisfied(m, c) == IF m = Star THEN c # Empty ELSE m = c

\* The read of the registered file: its bytes, and whether it succeeded. A
\* missing or unreadable file leaves the handler with nil bytes.
ReadOutcomes ==
    {[err |-> IF disk = None THEN "missing" ELSE "none",
      data |-> IF disk = None THEN Empty ELSE disk]}
      \cup IF "read" \in Faults /\ disk # None
           THEN {[err |-> "unreadable", data |-> Empty]} ELSE {}

\* emptyPending reads the candidate's hash and bytes, which the poll writes
\* without the watcher lock. A settled candidate is seen as it is; while a
\* non-empty one is being filled in, either answer can come out.
EmptyPendingOutcomes ==
    IF pending = None THEN {FALSE} ELSE IF pending = Empty THEN {TRUE} ELSE BOOLEAN

BugConflictAttribution(f, rd) ==
    IF rd.err = "none" /\ f.lastServerWrite = rd.data /\ ~f.externalSinceOwnWrite
    THEN "another-tab" ELSE None

conflictAttribution(f, rd) ==
    IF /\ rd.err = "none"
       /\ f.writtenHere
       /\ f.lastServerWrite = rd.data
       /\ ~f.externalSinceOwnWrite
    THEN "another-tab" ELSE None
-----------------------------------------------------------------------------
Idle == [pc |-> "idle"]

\* A handler inside its critical section: what it was asked, what it read, and
\* the next durable step.
Section(kind, pc, m, b, i, rd) ==
    [pc |-> pc, kind |-> kind, ifMatch |-> m, body |-> b, saveId |-> i,
     read |-> rd, stale |-> FALSE]

Quiet == [type |-> "none"]

Init ==
    /\ disk \in Content
    /\ \E h \in OldHistories : versions = [k \in Keys |-> IF k = "id" THEN h ELSE {}]
    /\ provisional = FALSE
    /\ proc = "up" /\ token = FALSE
    /\ file = NewFile
    /\ pending = None
    /\ lock = None /\ req = [r \in Req |-> Idle]
    /\ edits = 0 /\ runs = 1 /\ writes = 0
    /\ ev = Quiet
    /\ author = "ext"
    /\ failed = {} /\ stored = {} /\ known = {} /\ tabStored = {}
    /\ sighted = FALSE
    /\ engaged = (versions["id"] # {})

BugMayEnter(r) == proc = "up" /\ req[r].pc = "idle"

\* A handler that needs the file lock may enter its critical section.
MayEnter(r) == proc = "up" /\ lock = None /\ req[r].pc = "idle"

Enter(r, section) == lock' = r /\ req' = [req EXCEPT ![r] = section]

Leave(r) == lock' = None /\ req' = [req EXCEPT ![r] = Idle]
-----------------------------------------------------------------------------
(* serveRegistered: a document navigation. The whole section is one read   *)
(* and at most one backup.                                                 *)

Serve ==
    /\ proc = "up" /\ lock = None /\ disk # None
    /\ \E k \in ResolvedKeys(file, disk) :
         LET first == ~Observed(file)
             snapshot == IF first /\ ~TrustedOnly THEN {disk} ELSE {}
         IN  /\ file' = NoteFirstObservation(SetHistoryKey(file, k), disk)
             /\ known' = IF first THEN known \cup {disk} ELSE known
             /\ \E done \in BackupOutcomes(snapshot) :
                  /\ versions' = BackedUp(k, done)
                  /\ failed' = failed \cup (snapshot \ done)
                  /\ provisional' = \/ ProvisionalAfter(k, done)
                                    \/ done # {} /\ Minted(file, k, disk)
    /\ token' = TRUE
    /\ ev' = Quiet
    /\ UNCHANGED <<disk, proc, pending, lock, req, bounds, author, stored, tabStored, sighted, engaged>>

\* handleListVersions, and the key half of handleRestoreVersion: historyKey pins
\* a key from the bytes on disk when nothing has resolved one.
ListVersions ==
    /\ proc = "up" /\ lock = None /\ token
    /\ disk # None
    /\ file' = SetHistoryKey(file, KeyOf(disk))
    /\ ev' = Quiet
    /\ UNCHANGED <<disk, store, proc, token, pending, lock, req, bounds, ghosts>>
-----------------------------------------------------------------------------
(* handleSave.                                                             *)

\* The read and the If-Match judgment. A refusal writes nothing at all.
SaveRead(r, m, b, i) ==
    /\ MayEnter(r) /\ token
    /\ \E rd \in ReadOutcomes :
         \/ /\ m # None => rd.err # "unreadable" /\ IfMatchSatisfied(m, rd.data)
            /\ writes < MaxWrites /\ writes' = writes + 1
            /\ Enter(r, Section("save", "check", m, b, i, rd))
            /\ ev' = Quiet
         \/ /\ m # None /\ rd.err = "unreadable"
            /\ ev' = Quiet
            /\ UNCHANGED <<lock, req, writes>>
         \/ /\ m # None /\ rd.err # "unreadable" /\ ~IfMatchSatisfied(m, rd.data)
            /\ ev' = [type |-> "refused", data |-> rd.data,
                      changedBy |-> conflictAttribution(file, rd),
                      saveId |-> SaveReceiptFor(file, rd.data)]
            /\ UNCHANGED <<lock, req, writes>>
    /\ UNCHANGED <<disk, store, proc, token, file, pending, edits, runs, ghosts>>

\* A save whose bytes change nothing still resolves the identity it records its
\* page state under.
SaveNothingToWrite(r) ==
    /\ req[r].pc = "check" /\ req[r].read.data = req[r].body
    /\ \E k \in ResolvedKeys(file, req[r].body) : file' = SetHistoryKey(file, k)
    /\ Leave(r)
    /\ ev' = Quiet
    /\ UNCHANGED <<disk, store, proc, token, pending, bounds, ghosts>>

\* Identity, first observation, the stale test and the truncation guard.
SaveCheck(r) ==
    /\ req[r].pc = "check"
    /\ \E k \in ResolvedKeys(file, req[r].body) :
         LET rd    == req[r].read
             ok    == rd.err = "none"
             keyed == SetHistoryKey(file, k)
             stale == ok /\ Observed(file) /\ file.lastServerWrite # rd.data
         IN  /\ file' = IF ok THEN NoteFirstObservation(keyed, rd.data) ELSE keyed
             /\ known' = IF ok /\ ~Observed(file) THEN known \cup {rd.data} ELSE known
             /\ \E held \in EmptyPendingOutcomes :
                  IF stale /\ rd.data = Empty /\ held
                  THEN Leave(r)
                  ELSE /\ req' = [req EXCEPT ![r] = [@ EXCEPT !.pc = "backup", !.stale = stale]]
                       /\ UNCHANGED lock
    /\ ev' = Quiet
    /\ UNCHANGED <<disk, store, proc, token, pending, bounds,
                   author, failed, stored, tabStored, sighted, engaged>>
-----------------------------------------------------------------------------
(* writeApplied, the data API: handleSave's commit sequence with the body  *)
(* computed from the stored bytes. It holds no token: the document only    *)
(* has to be registered.                                                   *)

DataRead(r, m, b) ==
    /\ MayEnter(r) /\ writes < MaxWrites
    /\ writes' = writes + 1
    /\ disk \notin {None, Empty} /\ b # disk /\ (b \in Marked <=> disk \in Marked)
    /\ m # None => IfMatchSatisfied(m, disk)
    /\ \E k \in ResolvedKeys(file, disk) : file' = SetHistoryKey(file, k)
    /\ Enter(r, Section("data", "backup", m, b, None, [err |-> "none", data |-> disk]))
    /\ ev' = Quiet
    /\ UNCHANGED <<disk, store, proc, token, pending, edits, runs, ghosts>>
-----------------------------------------------------------------------------
(* handleRestoreVersion up to its write: the safety backup is mandatory.   *)

BugSafe(done, safety) == TRUE

\* Restoring goes on only when the safety copy is in the store.
Safe(done, safety) == done = safety

RestoreRead(r, v) ==
    /\ MayEnter(r) /\ token /\ writes < MaxWrites
    /\ writes' = writes + 1
    /\ \E rd \in ReadOutcomes :
         LET keyed == IF rd.err = "none" THEN SetHistoryKey(file, KeyOf(rd.data)) ELSE file
             key   == IF keyed.historyKey = None THEN "path" ELSE keyed.historyKey
             safety == IF rd.err = "none" THEN {rd.data} ELSE {}
         IN  /\ rd.err # "unreadable" /\ v \in versions[key] /\ v # Empty
             /\ file' = keyed
             /\ \E done \in BackupOutcomes(safety) :
                  /\ versions' = BackedUp(key, done)
                  /\ provisional' = ProvisionalAfter(key, done)
                  /\ failed' = failed \cup (safety \ done)
                  /\ IF Safe(done, safety)
                     THEN Enter(r, Section("restore", "rename", None, Bare[v], None, rd))
                     ELSE UNCHANGED <<lock, req>>
    /\ ev' = Quiet
    /\ UNCHANGED <<disk, proc, token, pending, edits, runs,
                   author, stored, known, tabStored, sighted, engaged>>
-----------------------------------------------------------------------------
(* The commit sequence the three routes share.                             *)

BugPreWrite(r) ==
    IF req[r].read.err = "none" /\ ~HasHistory(file.historyKey)
    THEN {req[r].read.data} ELSE {}

\* The bytes on disk are versioned first when the save is stale or nothing was
\* ever versioned.
PreWrite(r) ==
    IF req[r].read.err = "none" /\ (req[r].stale \/ ~HasHistory(file.historyKey))
    THEN {req[r].read.data} ELSE {}

BugToVersion(r) == IF req[r].read.err = "none" THEN {req[r].read.data} ELSE {}

\* The incoming bytes are versioned always, before they are written.
ToVersion(r) == PreWrite(r) \cup {req[r].body}

Backups(r) ==
    /\ req[r].pc = "backup"
    /\ LET cs == ToVersion(r)
       IN  \E done \in BackupOutcomes(cs) :
             /\ versions' = BackedUp(file.historyKey, done)
             /\ provisional' = ProvisionalAfter(file.historyKey, done)
             /\ failed' = failed \cup (cs \ done)
    /\ req' = [req EXCEPT ![r].pc = "rename"]
    /\ ev' = Quiet
    /\ UNCHANGED <<disk, proc, token, file, pending, lock, bounds,
                   author, stored, known, tabStored, sighted, engaged>>

\* atomicWriteFile: the rename that publishes the staged bytes.
Rename(r) ==
    /\ req[r].pc = "rename"
    /\ disk' = req[r].body
    /\ ev' = [type |-> "replaced", kind |-> req[r].kind, ifMatch |-> req[r].ifMatch,
              read |-> req[r].read, old |-> disk, by |-> author]
    /\ \/ /\ req' = [req EXCEPT ![r].pc = "commit"]
          /\ author' = IF req[r].kind = "data" THEN "data" ELSE "tab"
          /\ UNCHANGED lock
       \* SyncDir fails after the rename: the bytes are replaced, the handler answers
       \* an error and no record moves.
       \/ /\ "sync" \in Faults
          /\ Leave(r)
          /\ author' = "unacked"
    /\ UNCHANGED <<store, proc, token, file, pending, bounds,
                   failed, stored, known, tabStored, sighted, engaged>>

\* The staged bytes never reach the name: an error, and nothing changed.
RenameFails(r) ==
    /\ "write" \in Faults
    /\ req[r].pc = "rename"
    /\ Leave(r)
    /\ ev' = Quiet
    /\ UNCHANGED <<disk, store, proc, token, file, pending, bounds, ghosts>>

\* The records a completed write leaves, by route.
Committed(f, q) ==
    LET w == NoteWriteByThisHost(RecordServerWrite(f, q.body))
    IN  CASE q.kind = "save"    -> RecordSaveReceipt(w, q.saveId, q.body)
          [] q.kind = "restore" -> w
          [] q.kind = "data"    -> NoteWriteFromOutsideTabs(w)

BugProvisionalAtCommit == provisional

\* SetProvisional(false): the write makes the history durable.
ProvisionalAtCommit == provisional /\ file.historyKey # "id"

Commit(r) ==
    /\ req[r].pc = "commit"
    /\ file' = Committed(file, req[r])
    /\ provisional' = ProvisionalAtCommit
    /\ ev' = [type |-> "acked", kind |-> req[r].kind, body |-> req[r].body,
              stale |-> req[r].stale, read |-> req[r].read]
    /\ stored' = IF req[r].kind = "save" THEN stored \cup {<<req[r].saveId, req[r].body>>}
                                         ELSE stored
    /\ known' = known \cup {req[r].body}
    /\ tabStored' = IF req[r].kind = "data" THEN tabStored ELSE tabStored \cup {req[r].body}
    /\ engaged' = (engaged \/ (file.historyKey = "id" /\ versions["id"] # {}))
    /\ Leave(r)
    /\ sighted' = FALSE
    /\ UNCHANGED <<disk, versions, proc, token, pending, bounds, author, failed>>
-----------------------------------------------------------------------------
(* External programs. They take no lock.                                   *)

\* An editor, a script or a sync client writes c, in place or by replacing the
\* file. A replacement has another identity, which voids a handoff's token.
ExtWrite(c) ==
    /\ edits < MaxEdits /\ edits' = edits + 1
    /\ c # disk
    /\ disk' = c /\ author' = "ext"
    /\ proc' \in {proc} \cup (IF proc = "handoff" THEN {"down"} ELSE {})
    /\ ev' = Quiet
    /\ UNCHANGED <<store, token, file, pending, lock, req, runs, writes,
                   failed, stored, known, tabStored, sighted, engaged>>

ExtDelete ==
    /\ edits < MaxEdits /\ edits' = edits + 1
    /\ disk # None
    /\ disk' = None /\ author' = "ext"
    /\ proc' = IF proc = "handoff" THEN "down" ELSE proc
    /\ ev' = Quiet
    /\ UNCHANGED <<store, token, file, pending, lock, req, runs, writes,
                   failed, stored, known, tabStored, sighted, engaged>>
-----------------------------------------------------------------------------
(* The watcher, as far as the records see it: a poll takes or drops a      *)
(* candidate without the lock, a confirmation takes the lock.              *)

WatcherPoll ==
    /\ proc = "up" /\ pending # disk
    /\ pending' = disk
    /\ ev' = Quiet
    /\ UNCHANGED <<disk, store, proc, token, file, lock, req, bounds, ghosts>>

\* publishConfirmed: suppression, revalidation, backup under a key it only
\* reads, publication, and the record only when somebody received it.
WatcherConfirm(delivered) ==
    /\ proc = "up" /\ lock = None /\ pending # None
    /\ pending' = None
    /\ IF file.lastStableObservation = pending \/ disk # pending
       THEN ev' = Quiet /\ UNCHANGED <<store, file, failed, sighted>>
       ELSE LET cs == IF file.historyKey = None THEN {} ELSE {pending}
                k  == IF file.historyKey = None THEN "id" ELSE file.historyKey
            IN  /\ \E done \in BackupOutcomes(cs) :
                     /\ versions' = BackedUp(k, done)
                     /\ provisional' = ProvisionalAfter(k, done)
                     /\ failed' = failed \cup (cs \ done)
                /\ file' = IF delivered THEN RecordStableObservation(file, pending) ELSE file
                /\ sighted' = (sighted \/ delivered)
                /\ ev' = [type |-> "foreign", data |-> pending, by |-> author]
    /\ UNCHANGED <<disk, proc, token, lock, req, bounds,
                   author, stored, known, tabStored, engaged>>
-----------------------------------------------------------------------------
(* The process ends and starts again.                                      *)

Stop(how) ==
    /\ proc = "up" /\ runs < MaxRuns
    /\ proc' = how
    /\ file' = NewFile /\ pending' = None
    /\ lock' = None /\ req' = [r \in Req |-> Idle]
    /\ author' = IF author = "ext" THEN "ext" ELSE "old"
    /\ known' = {} /\ tabStored' = {} /\ sighted' = FALSE
    /\ ev' = Quiet
    /\ UNCHANGED <<disk, store, bounds, failed, stored, engaged>>

\* A crash or a quit, between any two steps.
Crash == Stop("down") /\ token' = FALSE

\* An update restart: in-flight writes have drained, the tokens are in the
\* handoff file.
Handoff == HandoffOn /\ lock = None /\ Stop("handoff") /\ UNCHANGED token

\* Startup: restoreUpdateHandoff, and PruneAll, which deletes an expired
\* provisional history whole.
Start ==
    /\ proc # "up"
    /\ proc' = "up" /\ runs' = runs + 1
    /\ token' = (token /\ proc = "handoff")
    /\ \/ UNCHANGED store
       \/ /\ provisional
          /\ versions' = [versions EXCEPT !["id"] = {}]
          /\ provisional' = FALSE
    /\ ev' = Quiet
    /\ UNCHANGED <<disk, file, pending, lock, req, edits, writes, ghosts>>
-----------------------------------------------------------------------------
Bodies == Content \ {Empty}

Next ==
    \/ Serve
    \/ ListVersions
    \/ \E r \in Req :
         \/ \E m \in IfMatches, b \in Bodies, i \in SaveIds \cup {None} : SaveRead(r, m, b, i)
         \/ SaveNothingToWrite(r)
         \/ SaveCheck(r)
         \/ \E m \in IfMatches, b \in Bodies : DataRead(r, m, b)
         \/ \E v \in Content : RestoreRead(r, v)
         \/ Backups(r)
         \/ Rename(r)
         \/ RenameFails(r)
         \/ Commit(r)
    \/ \E c \in Content : ExtWrite(c)
    \/ ExtDelete
    \/ WatcherPoll
    \/ \E delivered \in BOOLEAN : WatcherConfirm(delivered)
    \/ Crash
    \/ Handoff
    \/ Start

Spec == Init /\ [][Next]_vars
-----------------------------------------------------------------------------
(* Correctness.                                                            *)

Maybe(S) == S \cup {None}

Reads == [err : {"none", "missing", "unreadable"}, data : Content]

Sections == [pc : {"check", "backup", "rename", "commit"}, kind : {"save", "restore", "data"},
             ifMatch : IfMatches, body : Content, saveId : Maybe(SaveIds),
             read : Reads, stale : BOOLEAN]

Authors == {"ext", "tab", "data", "unacked", "old"}

Events ==
    {Quiet}
    \cup [type : {"refused"}, data : Content, changedBy : {"another-tab", None},
          saveId : Maybe(SaveIds)]
    \cup [type : {"replaced"}, kind : {"save", "restore", "data"}, ifMatch : IfMatches,
          read : Reads, old : Maybe(Content), by : Authors]
    \cup [type : {"acked"}, kind : {"save", "restore", "data"}, body : Content,
          stale : BOOLEAN, read : Reads]
    \cup [type : {"foreign"}, data : Content, by : Authors]

\* The types of the state: what each variable may hold at any time.
TypeOK ==
    /\ disk \in Maybe(Content)
    /\ versions \in [Keys -> SUBSET Content]
    /\ provisional \in BOOLEAN
    /\ proc \in {"up", "down", "handoff"} /\ token \in BOOLEAN
    /\ file \in [lastServerWrite : Maybe(Content), lastStableObservation : Maybe(Content),
                 historyKey : Maybe(Keys), writtenHere : BOOLEAN,
                 externalSinceOwnWrite : BOOLEAN,
                 lastSaveID : Maybe(SaveIds), lastSaveEtag : Maybe(Content)]
    /\ pending \in Maybe(Content)
    /\ lock \in Maybe(Req)
    /\ req \in [Req -> {Idle} \cup Sections]
    /\ edits \in Nat /\ runs \in Nat /\ writes \in Nat
    /\ ev \in Events
    /\ author \in Authors
    /\ failed \subseteq Content /\ known \subseteq Content /\ tabStored \subseteq Content
    /\ stored \subseteq Maybe(SaveIds) \X Content
    /\ sighted \in BOOLEAN /\ engaged \in BOOLEAN

\* The versions the present process keeps this document's history under.
History == IF file.historyKey = None THEN {} ELSE versions[file.historyKey]

\* The document in c can still be recovered, or a backup of it was tried and failed.
Kept(c) == \E h \in History \cup failed : Bare[h] = Bare[c]

\* A save or a restore never destroys the only copy of a document: the bytes it
\* read, if they are still the ones it replaces, are in the history, whoever
\* wrote them and however long ago ("Backups are the actual safety net").
NoLostBytes ==
    (/\ ev.type = "replaced" /\ ev.kind \in {"save", "restore"}
     /\ ev.read.err = "none" /\ ev.read.data = ev.old)
        => Kept(ev.old)

\* A restore keeps the stronger promise: no failed backup excuses it.
RestoreKeepsBytes ==
    (/\ ev.type = "replaced" /\ ev.kind = "restore"
     /\ ev.read.err = "none" /\ ev.read.data = ev.old)
        => ev.old \in History

\* A conditional write that goes through replaces the very bytes it named, unless
\* an external program moved them after the comparison. Two conditional saves
\* that hold the same stamp can therefore not both win.
ConditionalExact ==
    (ev.type = "replaced" /\ ev.ifMatch # None /\ ev.by # "ext")
        => IfMatchSatisfied(ev.ifMatch, IF ev.old = None THEN Empty ELSE ev.old)

\* The Save-ID a refusal reports for the stored bytes is the id of a save whose
\* body those bytes are (spec 6 receipts), whatever restores, id-less saves, data
\* writes and external edits came between.
ReceiptHonest ==
    (ev.type = "refused" /\ ev.saveId # None) => <<ev.saveId, ev.data>> \in stored

\* A refusal blames the person's other tab only for bytes that a tab of this very
\* run stored, never for a data write or an edit made while the program was closed;
\* and never once the tabs were told of an outside edit, even if it was undone since
\* ("that record only clears when this host writes again", conflictAttribution).
BlameHonest ==
    (ev.type = "refused" /\ ev.changedBy = "another-tab") =>
        ev.data \in tabStored /\ ~sighted

\* The bytes a write acknowledged are in the history when the acknowledgement
\* goes out, so a later clobber cannot lose them.
AckedIsVersioned == ev.type = "acked" => Kept(ev.body)

\* The watcher never reports a write of this run's own handlers as a change made
\* outside.
OwnWriteNeverForeign == ev.type = "foreign" => ev.by \notin {"tab", "data"}

\* A save that is acknowledged without the stale warning replaced bytes this run
\* had stored or first observed, not an edit nobody was told of.
StaleHonest ==
    (ev.type = "acked" /\ ev.kind = "save" /\ ~ev.stale /\ ev.read.err = "none")
        => ev.read.data \in known

\* The versions a person engaged stay listed and restorable: while an id history
\* exists no handler works under the path key, and startup never reclaims a history
\* that stands behind an acknowledged write.
HistoryKept ==
    /\ [](file.historyKey = "path" => versions["id"] = {})
    /\ [][engaged /\ versions["id"] # {} => versions'["id"] # {}]_vars
-----------------------------------------------------------------------------
(* What the source says of itself and the code does not keep: the property *)
(* of a run that finds it violated.                                        *)

\* writeApplied is "handleSave's commit sequence with the body computed from the
\* stored bytes" (dataroutes_write.go): a data write keeps the bytes it replaces
\* as a save does.
DataWriteKeepsBytes ==
    (/\ ev.type = "replaced" /\ ev.kind = "data"
     /\ ev.read.err = "none" /\ ev.read.data = ev.old)
        => Kept(ev.old)
=============================================================================
