--------------------------- MODULE DocStoreProofs ---------------------------
(***************************************************************************)
(* Theorems about DocStore, for every set of contents, of handlers and of  *)
(* faults, and for every bound.                                            *)
(***************************************************************************)
EXTENDS DocStore, TLAPS

-----------------------------------------------------------------------------
(* Type correctness.                                                       *)

FileRecords ==
    [lastServerWrite : Maybe(Content), lastStableObservation : Maybe(Content),
     historyKey : Maybe(Keys), writtenHere : BOOLEAN, externalSinceOwnWrite : BOOLEAN,
     lastSaveID : Maybe(SaveIds), lastSaveEtag : Maybe(Content)]

\* The record operations of session.File keep the record's type.
LEMMA FileOpsType ==
    ASSUME NEW f \in FileRecords, NEW c \in Content, NEW k \in Keys, NEW i \in Maybe(SaveIds)
    PROVE  /\ RecordServerWrite(f, c) \in FileRecords
           /\ NoteFirstObservation(f, c) \in FileRecords
           /\ NoteWriteByThisHost(f) \in FileRecords
           /\ NoteWriteFromOutsideTabs(f) \in FileRecords
           /\ RecordStableObservation(f, c) \in FileRecords
           /\ RecordSaveReceipt(f, i, c) \in FileRecords
           /\ SetHistoryKey(f, k) \in FileRecords
  <1> USE DEF FileRecords, Maybe
  <1>1. RecordServerWrite(f, c) \in FileRecords
    BY DEF RecordServerWrite
  <1>2. NoteFirstObservation(f, c) \in FileRecords
    BY <1>1 DEF NoteFirstObservation
  <1>3. NoteWriteByThisHost(f) \in FileRecords /\ NoteWriteFromOutsideTabs(f) \in FileRecords
    BY DEF NoteWriteByThisHost, NoteWriteFromOutsideTabs
  <1>4. RecordStableObservation(f, c) \in FileRecords
    BY DEF RecordStableObservation
  <1>5. RecordSaveReceipt(f, i, c) \in FileRecords
    BY DEF RecordSaveReceipt
  <1>6. SetHistoryKey(f, k) \in FileRecords
    BY DEF SetHistoryKey
  <1> QED BY <1>1, <1>2, <1>3, <1>4, <1>5, <1>6

\* What each record operation leaves in each record.
LEMMA FileOps ==
    ASSUME DocAssumption, NEW f \in FileRecords, NEW c \in Content, NEW k \in Keys
    PROVE  /\ SetHistoryKey(f, k).historyKey # None
           /\ f.historyKey # None => SetHistoryKey(f, k) = f
           /\ SetHistoryKey(f, k).lastServerWrite = f.lastServerWrite
           /\ SetHistoryKey(f, k).lastStableObservation = f.lastStableObservation
           /\ NoteFirstObservation(f, c).historyKey = f.historyKey
           /\ Observed(f) => NoteFirstObservation(f, c) = f
           /\ ~Observed(f) => /\ NoteFirstObservation(f, c).lastServerWrite = c
                              /\ NoteFirstObservation(f, c).lastStableObservation = c
           /\ Observed(NoteFirstObservation(f, c))
           /\ RecordStableObservation(f, c).historyKey = f.historyKey
           /\ RecordStableObservation(f, c).lastServerWrite = f.lastServerWrite
           /\ RecordStableObservation(f, c).lastStableObservation = c
  BY DEF FileRecords, SetHistoryKey, NoteFirstObservation, RecordServerWrite,
         RecordStableObservation, Observed, DocAssumption, Keys

\* What a handler may read is an outcome of type Reads.
LEMMA ReadsType ==
    ASSUME DocAssumption, TypeOK, NEW rd \in ReadOutcomes
    PROVE  rd \in Reads
  BY DEF DocAssumption, TypeOK, ReadOutcomes, Reads, Maybe

LEMMA KeysType ==
    ASSUME TypeOK, NEW c, NEW k \in ResolvedKeys(file, c)
    PROVE  k \in Keys
  BY DEF TypeOK, ResolvedKeys, Keys, KeyOf, Maybe

\* Backing up contents of the store's type keeps it.
LEMMA BackupType ==
    ASSUME TypeOK, NEW cs \in SUBSET Content, NEW done \in BackupOutcomes(cs), NEW k \in Keys
    PROVE  /\ done \subseteq cs
           /\ BackedUp(k, done) \in [Keys -> SUBSET Content]
           /\ ProvisionalAfter(k, done) \in BOOLEAN
  <1>1. done \subseteq cs
    BY DEF BackupOutcomes
  <1>2. BackedUp(k, done) \in [Keys -> SUBSET Content]
    BY <1>1 DEF TypeOK, BackedUp
  <1>3. ProvisionalAfter(k, done) \in BOOLEAN
    BY DEF TypeOK, ProvisionalAfter
  <1> QED BY <1>1, <1>2, <1>3

\* The critical sections the routes open are of type Sections.
LEMMA SectionType ==
    ASSUME NEW kind \in {"save", "restore", "data"},
           NEW pc \in {"check", "backup", "rename", "commit"},
           NEW m \in IfMatches, NEW b \in Content, NEW i \in Maybe(SaveIds), NEW rd \in Reads
    PROVE  Section(kind, pc, m, b, i, rd) \in Sections
  BY DEF Section, Sections

\* A handler that is not idle is in a section.
LEMMA InSection ==
    ASSUME TypeOK, NEW r \in Req, req[r].pc # "idle"
    PROVE  req[r] \in Sections
  BY DEF TypeOK, Idle

LEMMA QuietType == Quiet \in Events
  BY DEF Events

LEMMA InitType == ASSUME DocAssumption, Init PROVE TypeOK
  <1>1. versions \in [Keys -> SUBSET Content]
    BY DEF DocAssumption, Init
  <1>2. file \in FileRecords
    BY DEF Init, NewFile, FileRecords, Maybe
  <1>3. req \in [Req -> {Idle} \cup Sections]
    BY DEF Init
  <1> QED
    BY <1>1, <1>2, <1>3, QuietType DEF Init, TypeOK, FileRecords, Maybe, Authors


LEMMA ServeType == ASSUME DocAssumption, TypeOK, Serve PROVE TypeOK'
  <1>1. PICK k \in ResolvedKeys(file, disk) :
          /\ file' = NoteFirstObservation(SetHistoryKey(file, k), disk)
          /\ known' = IF ~Observed(file) THEN known \cup {disk} ELSE known
          /\ \E done \in BackupOutcomes(IF ~Observed(file) /\ ~TrustedOnly THEN {disk} ELSE {}) :
               /\ versions' = BackedUp(k, done)
               /\ failed' = failed \cup ((IF ~Observed(file) /\ ~TrustedOnly THEN {disk} ELSE {}) \ done)
               /\ provisional' = \/ ProvisionalAfter(k, done)
                                 \/ done # {} /\ Minted(file, k, disk)
    BY DEF Serve
  <1>2. disk \in Content /\ k \in Keys
    BY KeysType DEF Serve, TypeOK, Maybe
  <1>3. file' \in FileRecords
    BY <1>1, <1>2, FileOpsType DEF TypeOK, FileRecords
  <1>4. versions' \in [Keys -> SUBSET Content] /\ provisional' \in BOOLEAN /\ failed' \subseteq Content
    BY <1>1, <1>2, BackupType DEF TypeOK, Minted, ProvisionalAfter
  <1> QED
    BY <1>1, <1>2, <1>3, <1>4, QuietType DEF Serve, TypeOK, FileRecords, bounds

LEMMA ListType == ASSUME DocAssumption, TypeOK, ListVersions PROVE TypeOK'
  <1>1. file' \in FileRecords
    BY FileOpsType DEF ListVersions, TypeOK, FileRecords, KeyOf, Keys
  <1> QED
    BY <1>1, QuietType DEF ListVersions, TypeOK, FileRecords, store, bounds, ghosts

LEMMA SaveReadType ==
    ASSUME DocAssumption, TypeOK, NEW r \in Req, NEW m \in IfMatches, NEW b \in Bodies,
           NEW i \in Maybe(SaveIds), SaveRead(r, m, b, i)
    PROVE  TypeOK'
  <1>1. writes' \in Nat
    BY DEF SaveRead, TypeOK
  <1>2. PICK rd \in ReadOutcomes :
          \/ /\ Enter(r, Section("save", "check", m, b, i, rd))
             /\ ev' = Quiet
          \/ /\ ev' = Quiet
             /\ UNCHANGED <<lock, req>>
          \/ /\ ev' = [type |-> "refused", data |-> rd.data,
                       changedBy |-> conflictAttribution(file, rd),
                       saveId |-> SaveReceiptFor(file, rd.data)]
             /\ UNCHANGED <<lock, req>>
    BY DEF SaveRead
  <1>3. rd \in Reads
    BY ReadsType
  <1>4. lock' \in Maybe(Req) /\ req' \in [Req -> {Idle} \cup Sections]
    BY <1>2, <1>3, SectionType DEF TypeOK, Enter, Maybe, Bodies
  <1>5. ev' \in Events
    BY <1>2, <1>3, QuietType DEF Events, TypeOK, conflictAttribution, SaveReceiptFor, Reads, Maybe
  <1> QED
    BY <1>1, <1>4, <1>5 DEF SaveRead, TypeOK, store, ghosts

LEMMA SaveNothingType ==
    ASSUME DocAssumption, TypeOK, NEW r \in Req, SaveNothingToWrite(r)
    PROVE  TypeOK'
  <1>1. file' \in FileRecords
    BY KeysType, FileOpsType DEF SaveNothingToWrite, TypeOK, FileRecords, SetHistoryKey, Maybe
  <1> QED
    BY <1>1, QuietType DEF SaveNothingToWrite, TypeOK, FileRecords, Leave, Maybe, store, bounds, ghosts

LEMMA SaveCheckType ==
    ASSUME DocAssumption, TypeOK, NEW r \in Req, SaveCheck(r)
    PROVE  TypeOK'
  <1>1. req[r] \in Sections
    BY InSection DEF SaveCheck
  <1>2. PICK k \in ResolvedKeys(file, req[r].body) :
          /\ file' = IF req[r].read.err = "none"
                     THEN NoteFirstObservation(SetHistoryKey(file, k), req[r].read.data)
                     ELSE SetHistoryKey(file, k)
          /\ known' = IF req[r].read.err = "none" /\ ~Observed(file)
                      THEN known \cup {req[r].read.data} ELSE known
          /\ \/ Leave(r)
             \/ /\ UNCHANGED lock
                /\ \E st \in BOOLEAN : req' = [req EXCEPT ![r] = [@ EXCEPT !.pc = "backup", !.stale = st]]
    <2> DEFINE st == /\ req[r].read.err = "none" /\ Observed(file)
                     /\ file.lastServerWrite # req[r].read.data
    <2>1. st \in BOOLEAN
      OBVIOUS
    <2> QED BY <2>1 DEF SaveCheck
  <1>3. req[r].read.data \in Content /\ k \in Keys
    BY <1>1, KeysType DEF Sections, Reads
  <1>4. file' \in FileRecords
    <2>1. file \in FileRecords
      BY DEF TypeOK, FileRecords
    <2>2. SetHistoryKey(file, k) \in FileRecords
      BY <2>1, <1>3, FileOpsType DEF SetHistoryKey, FileRecords, Maybe
    <2>3. NoteFirstObservation(SetHistoryKey(file, k), req[r].read.data) \in FileRecords
      BY <2>2, <1>3, FileOpsType DEF Maybe
    <2> QED BY <1>2, <2>2, <2>3
  <1>5. lock' \in Maybe(Req) /\ req' \in [Req -> {Idle} \cup Sections]
    <2>1. CASE Leave(r)
      BY <2>1 DEF Leave, TypeOK, Maybe
    <2>2. CASE UNCHANGED lock /\ \E st \in BOOLEAN : req' = [req EXCEPT ![r] = [@ EXCEPT !.pc = "backup", !.stale = st]]
      <3>1. PICK st \in BOOLEAN : req' = [req EXCEPT ![r] = [@ EXCEPT !.pc = "backup", !.stale = st]]
        BY <2>2
      <3>2. [req[r] EXCEPT !.pc = "backup", !.stale = st] \in Sections
        BY <1>1 DEF Sections
      <3> QED BY <2>2, <3>1, <3>2 DEF TypeOK
    <2> QED BY <1>2, <2>1, <2>2
  <1>6. known' \subseteq Content
    BY <1>2, <1>3, ZenonT(60) DEF TypeOK
  <1>7. /\ UNCHANGED <<disk, versions, provisional, proc, token, pending, edits, runs, writes>>
        /\ UNCHANGED <<author, failed, stored, tabStored, sighted, engaged>>
        /\ ev' = Quiet
    BY DEF SaveCheck, store, bounds
  <1> QED
    BY <1>4, <1>5, <1>6, <1>7, QuietType, SMTT(30) DEF TypeOK, FileRecords

LEMMA DataReadType ==
    ASSUME DocAssumption, TypeOK, NEW r \in Req, NEW m \in IfMatches, NEW b \in Bodies,
           DataRead(r, m, b)
    PROVE  TypeOK'
  <1>1. disk \in Content /\ None \in Maybe(SaveIds)
    BY DEF DataRead, TypeOK, Maybe
  <1>2. [err |-> "none", data |-> disk] \in Reads
    BY <1>1 DEF Reads
  <1>3. file' \in FileRecords
    BY <1>1, KeysType, FileOpsType DEF DataRead, TypeOK, FileRecords, SetHistoryKey, Maybe
  <1>4. lock' \in Maybe(Req) /\ req' \in [Req -> {Idle} \cup Sections]
    BY <1>1, <1>2, SectionType DEF DataRead, Enter, TypeOK, Maybe, Bodies
  <1> QED
    BY <1>3, <1>4, QuietType DEF DataRead, TypeOK, FileRecords, store, ghosts

\* Every key a section works under is one of the keys.
LEMMA RestoreReadType ==
    ASSUME DocAssumption, TypeOK, NEW r \in Req, NEW v \in Content, RestoreRead(r, v)
    PROVE  TypeOK'
  <1>1. PICK rd \in ReadOutcomes :
          LET keyed == IF rd.err = "none" THEN SetHistoryKey(file, KeyOf(rd.data)) ELSE file
              key   == IF keyed.historyKey = None THEN "path" ELSE keyed.historyKey
              safety == IF rd.err = "none" THEN {rd.data} ELSE {}
          IN  /\ file' = keyed
              /\ \E done \in BackupOutcomes(safety) :
                   /\ versions' = BackedUp(key, done)
                   /\ provisional' = ProvisionalAfter(key, done)
                   /\ failed' = failed \cup (safety \ done)
                   /\ \/ Enter(r, Section("restore", "rename", None, Bare[v], None, rd))
                      \/ UNCHANGED <<lock, req>>
    BY DEF RestoreRead
  <1> DEFINE keyed == IF rd.err = "none" THEN SetHistoryKey(file, KeyOf(rd.data)) ELSE file
             key   == IF keyed.historyKey = None THEN "path" ELSE keyed.historyKey
             safety == IF rd.err = "none" THEN {rd.data} ELSE {}
  <1>2. rd \in Reads /\ rd.data \in Content /\ KeyOf(rd.data) \in Keys
    BY ReadsType DEF Reads, KeyOf, Keys
  <1>3. file \in FileRecords /\ keyed \in FileRecords
    BY <1>2, FileOpsType DEF TypeOK, FileRecords, Maybe
  <1>4. key \in Keys
    BY <1>3 DEF FileRecords, Maybe, Keys
  <1>5. safety \subseteq Content
    BY <1>2
  <1>6. file' = keyed /\ \E done \in BackupOutcomes(safety) :
                   /\ versions' = BackedUp(key, done)
                   /\ provisional' = ProvisionalAfter(key, done)
                   /\ failed' = failed \cup (safety \ done)
                   /\ \/ Enter(r, Section("restore", "rename", None, Bare[v], None, rd))
                      \/ UNCHANGED <<lock, req>>
    BY <1>1
  <1> HIDE DEF keyed, key, safety
  <1>7. versions' \in [Keys -> SUBSET Content] /\ provisional' \in BOOLEAN /\ failed' \subseteq Content
    BY <1>6, <1>4, <1>5, BackupType DEF TypeOK
  <1>8. Section("restore", "rename", None, Bare[v], None, rd) \in Sections
    BY <1>2 DEF Section, Sections, Maybe, DocAssumption
  <1>9. lock' \in Maybe(Req) /\ req' \in [Req -> {Idle} \cup Sections]
    BY <1>6, <1>8 DEF TypeOK, Enter, Maybe
  <1>10. /\ UNCHANGED <<disk, proc, token, pending, edits, runs>> /\ writes' = writes + 1
         /\ UNCHANGED <<author, stored, known, tabStored, sighted, engaged>> /\ ev' = Quiet
    BY DEF RestoreRead
  <1> QED
    BY <1>3, <1>6, <1>7, <1>9, <1>10, QuietType DEF TypeOK, FileRecords

LEMMA BackupsType ==
    ASSUME DocAssumption, TypeOK, file.historyKey # None, NEW r \in Req, Backups(r)
    PROVE  TypeOK'
  <1>1. req[r] \in Sections /\ file.historyKey \in Keys
    BY InSection DEF Backups, TypeOK, Maybe
  <1>2. ToVersion(r) \subseteq Content
    BY <1>1 DEF ToVersion, PreWrite, Sections, Reads
  <1>3. versions' \in [Keys -> SUBSET Content] /\ provisional' \in BOOLEAN /\ failed' \subseteq Content
    BY <1>1, <1>2, BackupType DEF Backups, TypeOK
  <1>4. req' \in [Req -> {Idle} \cup Sections]
    <2>1. [req[r] EXCEPT !.pc = "rename"] \in Sections
      BY <1>1 DEF Sections
    <2> QED BY <2>1 DEF Backups, TypeOK
  <1> QED
    BY <1>3, <1>4, QuietType DEF Backups, TypeOK, bounds

LEMMA RenameType ==
    ASSUME DocAssumption, TypeOK, NEW r \in Req, Rename(r)
    PROVE  TypeOK'
  <1>1. req[r] \in Sections
    BY InSection DEF Rename
  <1>2. disk' \in Maybe(Content) /\ author' \in Authors
    BY <1>1 DEF Rename, Sections, Maybe, Authors
  <1>3. ev' \in Events
    BY <1>1 DEF Rename, Events, Sections, TypeOK
  <1>4. lock' \in Maybe(Req) /\ req' \in [Req -> {Idle} \cup Sections]
    <2>1. [req[r] EXCEPT !.pc = "commit"] \in Sections
      BY <1>1 DEF Sections
    <2> QED BY <2>1 DEF Rename, Leave, TypeOK, Maybe
  <1> QED
    BY <1>2, <1>3, <1>4 DEF Rename, TypeOK, store, bounds

LEMMA CommitType ==
    ASSUME DocAssumption, TypeOK, NEW r \in Req, Commit(r)
    PROVE  TypeOK'
  <1>1. req[r] \in Sections
    BY InSection DEF Commit
  <1>2. req[r].body \in Content /\ req[r].saveId \in Maybe(SaveIds)
    BY <1>1 DEF Sections
  <1>3. file' \in FileRecords
    <2> DEFINE w == NoteWriteByThisHost(RecordServerWrite(file, req[r].body))
    <2>1. file \in FileRecords
      BY DEF TypeOK, FileRecords
    <2>2. RecordServerWrite(file, req[r].body) \in FileRecords
      BY <2>1, <1>2, FileOpsType DEF Keys
    <2>3. w \in FileRecords
      BY <2>2, <1>2, FileOpsType DEF Keys
    <2> HIDE DEF w
    <2>4. RecordSaveReceipt(w, req[r].saveId, req[r].body) \in FileRecords
          /\ NoteWriteFromOutsideTabs(w) \in FileRecords
      BY <2>3, <1>2, FileOpsType DEF Keys
    <2>5. file' \in {RecordSaveReceipt(w, req[r].saveId, req[r].body), w, NoteWriteFromOutsideTabs(w)}
      BY <1>1 DEF Commit, Committed, Sections, w
    <2> QED BY <2>3, <2>4, <2>5
  <1>4. ev' \in Events
    BY <1>1 DEF Commit, Events, Sections
  <1>5. lock' \in Maybe(Req) /\ req' \in [Req -> {Idle} \cup Sections]
    BY DEF Commit, Leave, TypeOK, Maybe
  <1>6. stored' \subseteq Maybe(SaveIds) \X Content
    BY <1>2 DEF Commit, TypeOK
  <1>7. known' \subseteq Content /\ tabStored' \subseteq Content
    BY <1>2 DEF Commit, TypeOK
  <1>8. sighted' \in BOOLEAN /\ engaged' \in BOOLEAN /\ provisional' \in BOOLEAN
    BY DEF Commit, ProvisionalAtCommit, TypeOK
  <1> QED
    BY <1>3, <1>4, <1>5, <1>6, <1>7, <1>8 DEF Commit, TypeOK, FileRecords, bounds

LEMMA WatcherConfirmType ==
    ASSUME DocAssumption, TypeOK, NEW delivered \in BOOLEAN, WatcherConfirm(delivered)
    PROVE  TypeOK'
  <1>1. pending \in Content /\ file \in FileRecords
    BY DEF WatcherConfirm, TypeOK, Maybe, FileRecords
  <1>2. CASE file.lastStableObservation = pending \/ disk # pending
    BY <1>2, QuietType DEF WatcherConfirm, TypeOK, store, bounds, Maybe
  <1>3. CASE ~(file.lastStableObservation = pending \/ disk # pending)
    <2> DEFINE cs == IF file.historyKey = None THEN {} ELSE {pending}
               k  == IF file.historyKey = None THEN "id" ELSE file.historyKey
    <2>1. cs \subseteq Content /\ k \in Keys
      BY <1>1 DEF FileRecords, Maybe, Keys
    <2>2. /\ \E done \in BackupOutcomes(cs) :
               /\ versions' = BackedUp(k, done)
               /\ provisional' = ProvisionalAfter(k, done)
               /\ failed' = failed \cup (cs \ done)
          /\ file' = IF delivered THEN RecordStableObservation(file, pending) ELSE file
          /\ ev' = [type |-> "foreign", data |-> pending, by |-> author]
          /\ sighted' = (sighted \/ delivered)
      BY <1>3 DEF WatcherConfirm
    <2> HIDE DEF cs, k
    <2>3. versions' \in [Keys -> SUBSET Content] /\ provisional' \in BOOLEAN /\ failed' \subseteq Content
      BY <2>1, <2>2, BackupType DEF TypeOK
    <2>4. file' \in FileRecords
      BY <2>2, <1>1, FileOpsType DEF Keys, Maybe
    <2>5. ev' \in Events
      BY <2>2, <1>1 DEF Events, TypeOK
    <2>6. sighted' \in BOOLEAN
      BY <2>2 DEF TypeOK
    <2> QED
      BY <2>2, <2>3, <2>4, <2>5, <2>6 DEF WatcherConfirm, TypeOK, FileRecords, bounds, Maybe
  <1> QED BY <1>2, <1>3

LEMMA StopType ==
    ASSUME DocAssumption, TypeOK, NEW how \in {"down", "handoff"}, Stop(how), token' \in BOOLEAN
    PROVE  TypeOK'
  <1>1. file' \in FileRecords
    BY DEF Stop, NewFile, FileRecords, Maybe
  <1> QED
    BY <1>1, QuietType DEF Stop, TypeOK, FileRecords, Maybe, Authors, store, bounds

-----------------------------------------------------------------------------
(* Which handler is where.                                                 *)

\* Only the holder of the lock is in a critical section, and a handler that is
\* about to back up has a history key.
LockInv ==
    /\ \A r \in Req : req[r].pc # "idle" => lock = r
    /\ \A r \in Req : req[r].pc = "backup" => file.historyKey # None

LEMMA NextLock ==
    ASSUME DocAssumption, TypeOK, LockInv, [Next]_vars
    PROVE  LockInv'
  <1> USE DEF store, bounds, ghosts
  <1>1. CASE Serve
    BY <1>1 DEF Serve, LockInv, SetHistoryKey, NoteFirstObservation, RecordServerWrite, TypeOK,
                ResolvedKeys, KeyOf, Keys, DocAssumption
  <1>2. CASE ListVersions
    BY <1>2 DEF ListVersions, LockInv, SetHistoryKey, KeyOf, Keys, TypeOK, DocAssumption
  <1>3. ASSUME NEW r \in Req, NEW m \in IfMatches, NEW b \in Bodies, NEW i \in Maybe(SaveIds),
               SaveRead(r, m, b, i)
        PROVE  LockInv'
    BY <1>3 DEF SaveRead, MayEnter, Enter, Section, LockInv, TypeOK, DocAssumption
  <1>4. ASSUME NEW r \in Req, SaveNothingToWrite(r)
        PROVE  LockInv'
    BY <1>4 DEF SaveNothingToWrite, Leave, Idle, LockInv, TypeOK, DocAssumption
  <1>5. ASSUME NEW r \in Req, SaveCheck(r)
        PROVE  LockInv'
    <2>1. req[r] \in Sections
      BY <1>5, InSection DEF SaveCheck
    <2>2. req[r].read.data \in Content
      BY <2>1 DEF Sections, Reads
    <2>3. PICK k \in ResolvedKeys(file, req[r].body) :
            file' \in {SetHistoryKey(file, k),
                       NoteFirstObservation(SetHistoryKey(file, k), req[r].read.data)}
      BY <1>5 DEF SaveCheck
    <2>4. file \in FileRecords /\ k \in Keys /\ SetHistoryKey(file, k) \in FileRecords
      BY KeysType DEF TypeOK, FileRecords, SetHistoryKey, Maybe
    <2>5. file'.historyKey # None
      BY <2>2, <2>3, <2>4, FileOps
    <2>6. lock = r /\ \A q \in Req : q # r => req'[q] = req[q]
      BY <1>5 DEF SaveCheck, Leave, LockInv, TypeOK
    <2>7. req'[r].pc = "idle" \/ lock' = lock
      BY <1>5, <2>1 DEF SaveCheck, Leave, Idle, TypeOK
    <2> QED BY <2>5, <2>6, <2>7, LockInv DEF LockInv
  <1>6. ASSUME NEW r \in Req, NEW m \in IfMatches, NEW b \in Bodies, DataRead(r, m, b)
        PROVE  LockInv'
    <2>1. PICK k \in ResolvedKeys(file, disk) : file' = SetHistoryKey(file, k)
      BY <1>6 DEF DataRead
    <2>2. file'.historyKey # None
      BY <2>1, KeysType, FileOps DEF TypeOK, FileRecords, DataRead, Maybe
    <2> QED BY <1>6, <2>2 DEF DataRead, MayEnter, Enter, Section, LockInv, TypeOK, DocAssumption
  <1>7. ASSUME NEW r \in Req, NEW v \in Content, RestoreRead(r, v)
        PROVE  LockInv'
    BY <1>7 DEF RestoreRead, MayEnter, Enter, Section, LockInv, TypeOK, DocAssumption
  <1>8. ASSUME NEW r \in Req, Backups(r)
        PROVE  LockInv'
    BY <1>8 DEF Backups, LockInv, TypeOK
  <1>9. ASSUME NEW r \in Req, Rename(r)
        PROVE  LockInv'
    <2>1. req[r] \in Sections
      BY <1>9, InSection DEF Rename
    <2>2. req' \in {[req EXCEPT ![r].pc = "commit"], [req EXCEPT ![r] = Idle]}
          /\ file' = file /\ (lock' = lock \/ (req' = [req EXCEPT ![r] = Idle]))
      BY <1>9 DEF Rename, Leave
    <2>3. \A q \in Req : q # r => req'[q] = req[q]
      BY <2>2 DEF TypeOK
    <2>4. req'[r].pc \in {"commit", "idle"} /\ (req'[r].pc = "commit" => lock' = lock)
      BY <2>1, <2>2 DEF TypeOK, Idle, Sections
    <2>5. lock = r
      BY <1>9 DEF Rename, LockInv
    <2> QED BY <1>9, <2>2, <2>3, <2>4, <2>5 DEF LockInv, Rename, Leave
  <1>10. ASSUME NEW r \in Req, RenameFails(r)
        PROVE  LockInv'
    BY <1>10 DEF RenameFails, Leave, Idle, LockInv, TypeOK
  <1>11. ASSUME NEW r \in Req, Commit(r)
        PROVE  LockInv'
    BY <1>11 DEF Commit, Leave, Idle, LockInv, TypeOK
  <1>12. ASSUME NEW c \in Content, ExtWrite(c)
        PROVE  LockInv'
    BY <1>12 DEF ExtWrite, LockInv
  <1>13. CASE ExtDelete
    BY <1>13 DEF ExtDelete, LockInv
  <1>14. CASE WatcherPoll
    BY <1>14 DEF WatcherPoll, LockInv
  <1>15. ASSUME NEW d \in BOOLEAN, WatcherConfirm(d)
        PROVE  LockInv'
    BY <1>15 DEF WatcherConfirm, LockInv, TypeOK, RecordStableObservation, DocAssumption
  <1>16. ASSUME NEW how, Stop(how)
        PROVE  LockInv'
    BY <1>16 DEF Stop, LockInv, Idle
  <1>17. CASE Start
    BY <1>17 DEF Start, LockInv
  <1>18. CASE UNCHANGED vars
    BY <1>18 DEF vars, LockInv
  <1> QED
    BY <1>1, <1>2, <1>3, <1>4, <1>5, <1>6, <1>7, <1>8, <1>9, <1>10, <1>11, <1>12, <1>13,
       <1>14, <1>15, <1>16, <1>17, <1>18 DEF Next, Crash, Handoff, Maybe

-----------------------------------------------------------------------------
LEMMA NextType ==
    ASSUME DocAssumption, TypeOK, LockInv, [Next]_vars
    PROVE  TypeOK'
  <1> USE DEF store, bounds, ghosts
  <1>1. CASE Serve
    BY <1>1, ServeType
  <1>2. CASE ListVersions
    BY <1>2, ListType
  <1>3. ASSUME NEW r \in Req, NEW m \in IfMatches, NEW b \in Bodies, NEW i \in Maybe(SaveIds),
               SaveRead(r, m, b, i)
        PROVE  TypeOK'
    BY <1>3, SaveReadType
  <1>4. ASSUME NEW r \in Req, SaveNothingToWrite(r)
        PROVE  TypeOK'
    BY <1>4, SaveNothingType
  <1>5. ASSUME NEW r \in Req, SaveCheck(r)
        PROVE  TypeOK'
    BY <1>5, SaveCheckType
  <1>6. ASSUME NEW r \in Req, NEW m \in IfMatches, NEW b \in Bodies, DataRead(r, m, b)
        PROVE  TypeOK'
    BY <1>6, DataReadType
  <1>7. ASSUME NEW r \in Req, NEW v \in Content, RestoreRead(r, v)
        PROVE  TypeOK'
    BY <1>7, RestoreReadType
  <1>8. ASSUME NEW r \in Req, Backups(r)
        PROVE  TypeOK'
    BY <1>8, BackupsType DEF Backups, LockInv
  <1>9. ASSUME NEW r \in Req, Rename(r)
        PROVE  TypeOK'
    BY <1>9, RenameType
  <1>10. ASSUME NEW r \in Req, RenameFails(r)
        PROVE  TypeOK'
    BY <1>10, QuietType DEF RenameFails, Leave, TypeOK, Maybe
  <1>11. ASSUME NEW r \in Req, Commit(r)
        PROVE  TypeOK'
    BY <1>11, CommitType
  <1>12. ASSUME NEW c \in Content, ExtWrite(c)
        PROVE  TypeOK'
    BY <1>12, QuietType DEF ExtWrite, TypeOK, Maybe, Authors
  <1>13. CASE ExtDelete
    BY <1>13, QuietType DEF ExtDelete, TypeOK, Maybe, Authors
  <1>14. CASE WatcherPoll
    BY <1>14, QuietType DEF WatcherPoll, TypeOK
  <1>15. ASSUME NEW d \in BOOLEAN, WatcherConfirm(d)
        PROVE  TypeOK'
    BY <1>15, WatcherConfirmType
  <1>16. ASSUME NEW how \in {"down", "handoff"}, Stop(how), token' \in BOOLEAN
        PROVE  TypeOK'
    BY <1>16, StopType
  <1>17. CASE Start
    <2>1. versions' \in [Keys -> SUBSET Content] /\ provisional' \in BOOLEAN
      <3>1. CASE UNCHANGED store
        BY <3>1 DEF TypeOK
      <3>2. CASE versions' = [versions EXCEPT !["id"] = {}] /\ provisional' = FALSE
        BY <3>2 DEF TypeOK
      <3> QED BY <1>17, <3>1, <3>2 DEF Start
    <2>2. token' \in BOOLEAN
      <3>1. token' = (token /\ proc = "handoff")
        BY <1>17 DEF Start
      <3> QED BY <3>1
    <2> QED BY <1>17, <2>1, <2>2, QuietType DEF Start, TypeOK
  <1>18. CASE UNCHANGED vars
    BY <1>18 DEF vars, TypeOK
  <1>19. CASE Crash
    BY <1>16, <1>19 DEF Crash
  <1>20. CASE Handoff
    BY <1>16, <1>20 DEF Handoff, TypeOK
  <1> QED
    BY <1>1, <1>2, <1>3, <1>4, <1>5, <1>6, <1>7, <1>8, <1>9, <1>10, <1>11, <1>12, <1>13,
       <1>14, <1>15, <1>17, <1>18, <1>19, <1>20 DEF Next, Maybe

\* The state stays within its types, and the file lock is exclusive: whatever
\* handlers, watcher, external programs, crashes and update restarts do, only the
\* handler that holds File.Lock is inside a critical section.
THEOREM TypeCorrect == ASSUME DocAssumption PROVE Spec => [](TypeOK /\ LockInv)
  <1>1. Init => TypeOK /\ LockInv
    <2>1. ASSUME Init PROVE LockInv
      BY <2>1 DEF Init, LockInv, Idle
    <2> QED BY <2>1, InitType
  <1>2. TypeOK /\ LockInv /\ [Next]_vars => (TypeOK /\ LockInv)'
    BY NextType, NextLock
  <1> QED BY <1>1, <1>2, PTL DEF Spec

-----------------------------------------------------------------------------
(* Conditional writes are exact.                                           *)

\* The bytes on disk, nil bytes when there is no file.
Stored == IF disk = None THEN Empty ELSE disk

\* From its comparison to its rename, a conditional section's stamp still matches
\* the bytes on disk, unless an external program wrote them.
CondInv ==
    /\ \A r \in Req :
         (/\ req[r].pc \in {"check", "backup", "rename"}
          /\ req[r].ifMatch # None /\ author # "ext")
            => IfMatchSatisfied(req[r].ifMatch, Stored)
    /\ ConditionalExact

LEMMA NextCond ==
    ASSUME DocAssumption, TypeOK, LockInv, CondInv, [Next]_vars
    PROVE  CondInv'
  <1> USE DEF store, bounds, ghosts
  <1>1. CASE Serve
    BY <1>1 DEF Serve, CondInv, ConditionalExact, Stored, TypeOK, Quiet
  <1>2. CASE ListVersions
    BY <1>2 DEF ListVersions, CondInv, ConditionalExact, Stored, TypeOK, Quiet
  <1>3. ASSUME NEW r \in Req, NEW m \in IfMatches, NEW b \in Bodies, NEW i \in Maybe(SaveIds),
               SaveRead(r, m, b, i)
        PROVE  CondInv'
    <2>1. PICK rd \in ReadOutcomes :
            \/ /\ m # None => rd.err # "unreadable" /\ IfMatchSatisfied(m, rd.data)
               /\ Enter(r, Section("save", "check", m, b, i, rd))
               /\ ev' = Quiet
            \/ ev'.type # "replaced" /\ UNCHANGED <<lock, req>>
      BY <1>3 DEF SaveRead, Quiet
    <2>2. rd.err # "unreadable" => rd.data = Stored
      BY DEF ReadOutcomes, Stored
    <2>3. CASE UNCHANGED <<lock, req>> /\ ev'.type # "replaced"
      BY <1>3, <2>3 DEF SaveRead, CondInv, ConditionalExact, Stored
    <2>4. CASE /\ m # None => rd.err # "unreadable" /\ IfMatchSatisfied(m, rd.data)
               /\ Enter(r, Section("save", "check", m, b, i, rd))
               /\ ev' = Quiet
      BY <1>3, <2>2, <2>4 DEF SaveRead, Enter, Section, CondInv, ConditionalExact, Stored, TypeOK, Quiet
    <2> QED BY <2>1, <2>3, <2>4
  <1>4. ASSUME NEW r \in Req, SaveNothingToWrite(r)
        PROVE  CondInv'
    BY <1>4 DEF SaveNothingToWrite, Leave, Idle, CondInv, ConditionalExact, Stored, TypeOK, Quiet
  <1>5. ASSUME NEW r \in Req, SaveCheck(r)
        PROVE  CondInv'
    <2>1. req[r] \in Sections
      BY <1>5, InSection DEF SaveCheck
    <2>2. /\ \A q \in Req \ {r} : req'[q] = req[q]
          /\ \/ req'[r].pc = "idle"
             \/ req'[r].ifMatch = req[r].ifMatch
      <3>1. CASE Leave(r)
        BY <3>1 DEF Leave, Idle, TypeOK
      <3>2. CASE \E st \in BOOLEAN :
                   req' = [req EXCEPT ![r] = [@ EXCEPT !.pc = "backup", !.stale = st]]
        BY <2>1, <3>2 DEF TypeOK, Sections
      <3> QED BY <1>5, <3>1, <3>2 DEF SaveCheck
    <2>3. Stored' = Stored /\ author' = author /\ ev'.type # "replaced"
      BY <1>5 DEF SaveCheck, Stored, Quiet
    <2>4. ASSUME NEW q \in Req, req'[q].pc \in {"check", "backup", "rename"},
                 req'[q].ifMatch # None, author' # "ext"
          PROVE  IfMatchSatisfied(req'[q].ifMatch, Stored')
      <3>1. req[q].pc \in {"check", "backup", "rename"} /\ req'[q].ifMatch = req[q].ifMatch
        BY <1>5, <2>2, <2>4 DEF SaveCheck
      <3>2. author # "ext"
        BY <2>3, <2>4
      <3>3. IfMatchSatisfied(req[q].ifMatch, Stored)
        BY <2>4, <3>1, <3>2 DEF CondInv
      <3> QED BY <2>3, <3>1, <3>3
    <2> QED BY <2>3, <2>4 DEF CondInv, ConditionalExact
  <1>6. ASSUME NEW r \in Req, NEW m \in IfMatches, NEW b \in Bodies, DataRead(r, m, b)
        PROVE  CondInv'
    <2>1. m # None => IfMatchSatisfied(m, Stored)
      BY <1>6 DEF DataRead, Stored
    <2> QED BY <1>6, <2>1 DEF DataRead, Enter, Section, CondInv, ConditionalExact, Stored, TypeOK, Quiet
  <1>7. ASSUME NEW r \in Req, NEW v \in Content, RestoreRead(r, v)
        PROVE  CondInv'
    <2>1. \A q \in Req : req'[q] = req[q] \/ req'[q].ifMatch = None
      BY <1>7 DEF RestoreRead, Enter, Section, TypeOK
    <2> QED BY <1>7, <2>1 DEF RestoreRead, CondInv, ConditionalExact, Stored, Quiet
  <1>8. ASSUME NEW r \in Req, Backups(r)
        PROVE  CondInv'
    <2>1. req[r] \in Sections
      BY <1>8, InSection DEF Backups
    <2>2. \A q \in Req : req'[q].ifMatch = req[q].ifMatch
                          /\ (req[q].pc = req'[q].pc \/ req[q].pc = "backup")
      BY <1>8, <2>1 DEF Backups, TypeOK, Sections, Idle
    <2> QED BY <1>8, <2>2 DEF Backups, CondInv, ConditionalExact, Stored, Quiet
  <1>9. ASSUME NEW r \in Req, Rename(r)
        PROVE  CondInv'
    <2>1. req[r] \in Sections
      BY <1>9, InSection DEF Rename
    <2>2. \A q \in Req : q # r => req[q].pc = "idle" /\ req'[q] = req[q]
      BY <1>9 DEF Rename, Leave, LockInv, TypeOK
    <2>3. req'[r].pc \in {"commit", "idle"}
      BY <1>9, <2>1 DEF Rename, Leave, Idle, TypeOK, Sections
    <2>4. ConditionalExact'
      BY <1>9, <2>1 DEF Rename, ConditionalExact, CondInv, Stored
    <2> QED BY <2>2, <2>3, <2>4 DEF CondInv
  <1>10. ASSUME NEW r \in Req, RenameFails(r)
        PROVE  CondInv'
    BY <1>10 DEF RenameFails, Leave, Idle, CondInv, ConditionalExact, Stored, TypeOK, Quiet
  <1>11. ASSUME NEW r \in Req, Commit(r)
        PROVE  CondInv'
    BY <1>11 DEF Commit, Leave, Idle, CondInv, ConditionalExact, Stored, TypeOK, Quiet
  <1>12. ASSUME NEW c \in Content, ExtWrite(c)
        PROVE  CondInv'
    BY <1>12 DEF ExtWrite, CondInv, ConditionalExact, Stored, TypeOK, Quiet
  <1>13. CASE ExtDelete
    BY <1>13 DEF ExtDelete, CondInv, ConditionalExact, Stored, TypeOK, Quiet
  <1>14. CASE WatcherPoll
    BY <1>14 DEF WatcherPoll, CondInv, ConditionalExact, Stored, TypeOK, Quiet
  <1>15. ASSUME NEW d \in BOOLEAN, WatcherConfirm(d)
        PROVE  CondInv'
    BY <1>15 DEF WatcherConfirm, CondInv, ConditionalExact, Stored, TypeOK, Quiet
  <1>16. ASSUME NEW how \in {"down", "handoff"}, Stop(how)
        PROVE  CondInv'
    BY <1>16 DEF Stop, Idle, CondInv, ConditionalExact, Stored, Quiet
  <1>17. CASE Start
    BY <1>17 DEF Start, CondInv, ConditionalExact, Stored, TypeOK, Quiet
  <1>18. CASE UNCHANGED vars
    BY <1>18 DEF vars, CondInv, ConditionalExact, Stored
  <1> QED
    BY <1>1, <1>2, <1>3, <1>4, <1>5, <1>6, <1>7, <1>8, <1>9, <1>10, <1>11,
       <1>12, <1>13, <1>14, <1>15, <1>16, <1>17, <1>18 DEF Next, Crash, Handoff, Maybe

\* A conditional write that goes through replaced the very bytes it named, unless
\* an external program moved them after the comparison: of two conditional saves
\* holding one stamp, one is refused.
THEOREM ConditionalWritesExact == ASSUME DocAssumption PROVE Spec => []ConditionalExact
  <1>1. Init => CondInv
    BY DEF Init, CondInv, ConditionalExact, Idle, Quiet
  <1>2. TypeOK /\ LockInv /\ CondInv /\ [Next]_vars => CondInv'
    BY NextCond
  <1>3. CondInv => ConditionalExact
    BY DEF CondInv
  <1> QED BY <1>1, <1>2, <1>3, TypeCorrect, PTL DEF Spec

-----------------------------------------------------------------------------
(* Who may be in a section.                                                *)

\* A stopped process holds no records and no lock, and a restore is past its
\* backup when its section opens.
LifeInv ==
    /\ proc # "up" => file = NewFile /\ lock = None
    /\ \A r \in Req : req[r].pc \in {"check", "backup"} => req[r].kind # "restore"

LEMMA NextLife ==
    ASSUME DocAssumption, TypeOK, LockInv, LifeInv, [Next]_vars
    PROVE  LifeInv'
  <1> USE DEF store, bounds, ghosts
  <1>1. CASE Serve
    BY <1>1 DEF Serve, LifeInv, Leave, Idle, TypeOK
  <1>2. CASE ListVersions
    BY <1>2 DEF ListVersions, LifeInv, Leave, Idle, TypeOK
  <1>3. ASSUME NEW r \in Req, NEW m \in IfMatches, NEW b \in Bodies, NEW i \in Maybe(SaveIds),
               SaveRead(r, m, b, i)
        PROVE  LifeInv'
    <2>1. PICK rd \in ReadOutcomes :
            Enter(r, Section("save", "check", m, b, i, rd)) \/ UNCHANGED <<lock, req>>
      BY <1>3 DEF SaveRead
    <2> QED BY <1>3, <2>1 DEF SaveRead, MayEnter, Enter, Section, LifeInv, TypeOK
  <1>4. ASSUME NEW r \in Req, SaveNothingToWrite(r)
        PROVE  LifeInv'
    <2>1. proc = "up"
      BY <1>4 DEF SaveNothingToWrite, LifeInv, LockInv
    <2> QED BY <1>4, <2>1 DEF SaveNothingToWrite, LifeInv, Leave, Idle, TypeOK
  <1>5. ASSUME NEW r \in Req, SaveCheck(r)
        PROVE  LifeInv'
    <2>1. req[r] \in Sections
      BY <1>5, InSection DEF SaveCheck
    <2>2. \/ Leave(r)
          \/ \E st \in BOOLEAN :
               UNCHANGED lock /\ req' = [req EXCEPT ![r] = [@ EXCEPT !.pc = "backup", !.stale = st]]
      BY <1>5 DEF SaveCheck
    <2>3. proc' = "up"
      BY <1>5 DEF SaveCheck, LifeInv, LockInv
    <2>4. CASE Leave(r)
      BY <2>3, <2>4 DEF LifeInv, Leave, Idle, TypeOK
    <2>5. ASSUME NEW st \in BOOLEAN, req' = [req EXCEPT ![r] = [@ EXCEPT !.pc = "backup", !.stale = st]]
          PROVE  LifeInv'
      <3>1. req[r].kind # "restore"
        BY <1>5 DEF SaveCheck, LifeInv
      <3>2. req'[r].kind = req[r].kind /\ \A q \in Req \ {r} : req'[q] = req[q]
        BY <2>1, <2>5 DEF TypeOK, Sections
      <3> QED BY <2>3, <3>1, <3>2 DEF LifeInv
    <2> QED BY <2>2, <2>4, <2>5
  <1>6. ASSUME NEW r \in Req, NEW m \in IfMatches, NEW b \in Bodies, DataRead(r, m, b)
        PROVE  LifeInv'
    BY <1>6 DEF DataRead, MayEnter, Enter, Section, LifeInv, TypeOK
  <1>7. ASSUME NEW r \in Req, NEW v \in Content, RestoreRead(r, v)
        PROVE  LifeInv'
    BY <1>7 DEF RestoreRead, MayEnter, Enter, Section, LifeInv, TypeOK
  <1>8. ASSUME NEW r \in Req, Backups(r)
        PROVE  LifeInv'
    <2>1. req[r] \in Sections
      BY <1>8, InSection DEF Backups
    <2> QED BY <1>8, <2>1 DEF Backups, LifeInv, TypeOK, Sections
  <1>9. ASSUME NEW r \in Req, Rename(r)
        PROVE  LifeInv'
    <2>1. req[r] \in Sections
      BY <1>9, InSection DEF Rename
    <2>2. (req' = [req EXCEPT ![r].pc = "commit"] /\ UNCHANGED lock) \/ Leave(r)
      BY <1>9 DEF Rename
    <2> QED BY <1>9, <2>1, <2>2 DEF Rename, LifeInv, Leave, Idle, TypeOK, Sections
  <1>10. ASSUME NEW r \in Req, RenameFails(r)
        PROVE  LifeInv'
    BY <1>10 DEF RenameFails, LifeInv, Leave, Idle, TypeOK
  <1>11. ASSUME NEW r \in Req, Commit(r)
        PROVE  LifeInv'
    <2>1. proc = "up"
      BY <1>11 DEF Commit, LifeInv, LockInv
    <2> QED BY <1>11, <2>1 DEF Commit, LifeInv, Leave, Idle, TypeOK
  <1>12. ASSUME NEW c \in Content, ExtWrite(c)
        PROVE  LifeInv'
    BY <1>12 DEF ExtWrite, LifeInv, Leave, Idle, TypeOK
  <1>13. CASE ExtDelete
    BY <1>13 DEF ExtDelete, LifeInv, Leave, Idle, TypeOK
  <1>14. CASE WatcherPoll
    BY <1>14 DEF WatcherPoll, LifeInv, Leave, Idle, TypeOK
  <1>15. ASSUME NEW d \in BOOLEAN, WatcherConfirm(d)
        PROVE  LifeInv'
    BY <1>15 DEF WatcherConfirm, LifeInv, Leave, Idle, TypeOK
  <1>16. ASSUME NEW how \in {"down", "handoff"}, Stop(how)
        PROVE  LifeInv'
    BY <1>16 DEF Stop, LifeInv, Idle
  <1>17. CASE Start
    BY <1>17 DEF Start, LifeInv, Leave, Idle, TypeOK
  <1>18. CASE UNCHANGED vars
    BY <1>18 DEF vars, LifeInv
  <1> QED
    BY <1>1, <1>2, <1>3, <1>4, <1>5, <1>6, <1>7, <1>8, <1>9, <1>10, <1>11,
       <1>12, <1>13, <1>14, <1>15, <1>16, <1>17, <1>18 DEF Next, Crash, Handoff, Maybe

-----------------------------------------------------------------------------
(* The watcher never reports the host's own write.                         *)

NoCommit == \A r \in Req : req[r].pc # "commit"

\* Bytes a handler wrote are the last stable observation, from its commit on;
\* between its rename and its commit they are its body.
OwnInv ==
    /\ (author \in {"tab", "data"} /\ NoCommit)
         => Observed(file) /\ file.lastStableObservation = disk
    /\ \A r \in Req : (req[r].pc = "commit" /\ author \in {"tab", "data"}) => disk = req[r].body
    /\ OwnWriteNeverForeign

\* A first observation is made once, and resolving a key makes none.
LEMMA ObservedOps ==
    ASSUME DocAssumption, NEW f \in FileRecords, NEW c \in Content, NEW k \in Keys
    PROVE  LET g == SetHistoryKey(f, k)
               h == NoteFirstObservation(g, c)
           IN  /\ Observed(f) => /\ Observed(g) /\ Observed(h)
                                  /\ g.lastStableObservation = f.lastStableObservation
                                  /\ h.lastStableObservation = f.lastStableObservation
               /\ Observed(h)
               /\ ~Observed(f) => h.lastStableObservation = c
  BY DEF FileRecords, SetHistoryKey, NoteFirstObservation, RecordServerWrite, Observed,
         DocAssumption, Keys

\* Every route's commit records its body as the last write and observation.
LEMMA CommittedType ==
    ASSUME NEW f \in FileRecords, NEW q \in Sections
    PROVE  /\ Committed(f, q).lastServerWrite = q.body
           /\ Committed(f, q).lastStableObservation = q.body
           /\ Committed(f, q).historyKey = f.historyKey
  BY DEF FileRecords, Sections, Committed, RecordServerWrite, NoteWriteByThisHost,
         NoteWriteFromOutsideTabs, RecordSaveReceipt

LEMMA NextOwn ==
    ASSUME DocAssumption, TypeOK, LockInv, OwnInv, [Next]_vars
    PROVE  OwnInv'
  <1> USE DEF store, bounds, ghosts
  <1>1. CASE Serve
    <2>1. PICK k \in Keys : file' = NoteFirstObservation(SetHistoryKey(file, k), disk)
      BY <1>1, KeysType DEF Serve
    <2>2. disk \in Content
      BY <1>1 DEF Serve, TypeOK, Maybe
    <2>3. Observed(file') /\ (Observed(file) => file'.lastStableObservation = file.lastStableObservation)
      BY <2>1, <2>2, ObservedOps DEF TypeOK, FileRecords
    <2>4. ~Observed(file) => file'.lastStableObservation = disk
      BY <2>1, <2>2, ObservedOps DEF TypeOK, FileRecords
    <2> QED BY <1>1, <2>3, <2>4 DEF Serve, OwnInv, NoCommit, OwnWriteNeverForeign, Quiet
  <1>2. CASE ListVersions
    <2>1. file'.lastServerWrite = file.lastServerWrite
          /\ file'.lastStableObservation = file.lastStableObservation
      BY <1>2 DEF ListVersions, SetHistoryKey, TypeOK
    <2> QED BY <1>2, <2>1 DEF ListVersions, OwnInv, NoCommit, OwnWriteNeverForeign, Observed, Quiet
  <1>3. ASSUME NEW r \in Req, NEW m \in IfMatches, NEW b \in Bodies, NEW i \in Maybe(SaveIds),
               SaveRead(r, m, b, i)
        PROVE  OwnInv'
    <2>1. PICK rd \in ReadOutcomes :
            Enter(r, Section("save", "check", m, b, i, rd)) \/ UNCHANGED <<lock, req>>
      BY <1>3 DEF SaveRead
    <2>2. \A q \in Req : req'[q] = req[q] \/ (req'[q].pc = "check" /\ req[q].pc = "idle")
      BY <1>3, <2>1 DEF SaveRead, MayEnter, Enter, Section, TypeOK
    <2>3. ev'.type # "foreign"
      BY <1>3 DEF SaveRead, Quiet
    <2> QED BY <1>3, <2>2, <2>3 DEF SaveRead, OwnInv, NoCommit, OwnWriteNeverForeign
  <1>4. ASSUME NEW r \in Req, SaveNothingToWrite(r)
        PROVE  OwnInv'
    <2>1. file'.lastServerWrite = file.lastServerWrite
          /\ file'.lastStableObservation = file.lastStableObservation
      BY <1>4 DEF SaveNothingToWrite, SetHistoryKey, TypeOK
    <2>2. \A q \in Req : req'[q] = req[q] \/ (req'[q].pc = "idle" /\ req[q].pc = "check")
      BY <1>4 DEF SaveNothingToWrite, Leave, Idle, TypeOK
    <2> QED BY <1>4, <2>1, <2>2 DEF SaveNothingToWrite, OwnInv, NoCommit, OwnWriteNeverForeign, Observed, Quiet
  <1>5. ASSUME NEW r \in Req, SaveCheck(r)
        PROVE  OwnInv'
    <2>1. req[r] \in Sections
      BY <1>5, InSection DEF SaveCheck
    <2>2. PICK k \in Keys :
            \/ file' = SetHistoryKey(file, k)
            \/ file' = NoteFirstObservation(SetHistoryKey(file, k), req[r].read.data)
      BY <1>5, KeysType DEF SaveCheck
    <2>3. Observed(file) => Observed(file') /\ file'.lastStableObservation = file.lastStableObservation
      BY <2>1, <2>2, ObservedOps DEF TypeOK, FileRecords, Sections, Reads
    <2>4. \/ Leave(r)
          \/ \E st \in BOOLEAN : req' = [req EXCEPT ![r] = [@ EXCEPT !.pc = "backup", !.stale = st]]
      BY <1>5 DEF SaveCheck
    <2>5. \A q \in Req : req'[q] = req[q] \/ (req'[q].pc \in {"idle", "backup"} /\ req[q].pc = "check")
      <3>1. CASE Leave(r)
        BY <1>5, <3>1 DEF SaveCheck, Leave, Idle, TypeOK
      <3>2. ASSUME NEW st \in BOOLEAN, req' = [req EXCEPT ![r] = [@ EXCEPT !.pc = "backup", !.stale = st]]
            PROVE  \A q \in Req : req'[q] = req[q] \/ (req'[q].pc \in {"idle", "backup"} /\ req[q].pc = "check")
        BY <1>5, <2>1, <3>2 DEF SaveCheck, TypeOK, Sections
      <3> QED BY <2>4, <3>1, <3>2
    <2>6. disk' = disk /\ author' = author /\ ev'.type # "foreign"
      BY <1>5 DEF SaveCheck, Quiet
    <2> QED BY <2>3, <2>5, <2>6 DEF OwnInv, NoCommit, OwnWriteNeverForeign
  <1>6. ASSUME NEW r \in Req, NEW m \in IfMatches, NEW b \in Bodies, DataRead(r, m, b)
        PROVE  OwnInv'
    <2>1. file'.lastServerWrite = file.lastServerWrite
          /\ file'.lastStableObservation = file.lastStableObservation
      BY <1>6 DEF DataRead, SetHistoryKey, TypeOK
    <2>2. \A q \in Req : req'[q] = req[q] \/ (req'[q].pc = "backup" /\ req[q].pc = "idle")
      BY <1>6 DEF DataRead, MayEnter, Enter, Section, TypeOK
    <2> QED BY <1>6, <2>1, <2>2 DEF DataRead, OwnInv, NoCommit, OwnWriteNeverForeign, Observed, Quiet
  <1>7. ASSUME NEW r \in Req, NEW v \in Content, RestoreRead(r, v)
        PROVE  OwnInv'
    <2>1. file'.lastServerWrite = file.lastServerWrite
          /\ file'.lastStableObservation = file.lastStableObservation
      BY <1>7 DEF RestoreRead, SetHistoryKey, TypeOK
    <2>2. \A q \in Req : req'[q] = req[q] \/ (req'[q].pc = "rename" /\ req[q].pc = "idle")
      BY <1>7 DEF RestoreRead, MayEnter, Enter, Section, TypeOK
    <2> QED BY <1>7, <2>1, <2>2 DEF RestoreRead, OwnInv, NoCommit, OwnWriteNeverForeign, Observed, Quiet
  <1>8. ASSUME NEW r \in Req, Backups(r)
        PROVE  OwnInv'
    <2>1. req[r] \in Sections
      BY <1>8, InSection DEF Backups
    <2>2. \A q \in Req : req'[q] = req[q] \/ (req'[q].pc = "rename" /\ req[q].pc = "backup")
      BY <1>8, <2>1 DEF Backups, TypeOK, Sections
    <2> QED BY <1>8, <2>2 DEF Backups, OwnInv, NoCommit, OwnWriteNeverForeign, Quiet
  <1>9. ASSUME NEW r \in Req, Rename(r)
        PROVE  OwnInv'
    <2>1. req[r] \in Sections
      BY <1>9, InSection DEF Rename
    <2>2. \A q \in Req \ {r} : req[q].pc = "idle" /\ req'[q] = req[q]
      BY <1>9 DEF Rename, Leave, LockInv, TypeOK
    <2>3. CASE req' = [req EXCEPT ![r].pc = "commit"]
      <3>1. req'[r].pc = "commit" /\ req'[r].body = req[r].body
        BY <2>1, <2>3 DEF TypeOK, Sections
      <3> QED BY <1>9, <2>2, <3>1 DEF Rename, OwnInv, NoCommit, OwnWriteNeverForeign
    <2>4. CASE author' = "unacked"
      BY <1>9, <2>4 DEF Rename, OwnInv, NoCommit, OwnWriteNeverForeign
    <2> QED BY <1>9, <2>3, <2>4 DEF Rename
  <1>10. ASSUME NEW r \in Req, RenameFails(r)
        PROVE  OwnInv'
    <2>1. \A q \in Req : req'[q] = req[q] \/ (req'[q].pc = "idle" /\ req[q].pc = "rename")
      BY <1>10 DEF RenameFails, Leave, Idle, TypeOK
    <2> QED BY <1>10, <2>1 DEF RenameFails, OwnInv, NoCommit, OwnWriteNeverForeign, Quiet
  <1>11. ASSUME NEW r \in Req, Commit(r)
        PROVE  OwnInv'
    <2>1. req[r] \in Sections
      BY <1>11, InSection DEF Commit
    <2>2. file'.lastServerWrite = req[r].body /\ file'.lastStableObservation = req[r].body
      BY <1>11, <2>1, CommittedType DEF Commit, TypeOK, FileRecords
    <2>3. \A q \in Req : req'[q].pc = "idle"
      BY <1>11 DEF Commit, Leave, Idle, LockInv, TypeOK
    <2>4. req[r].body # None
      BY <2>1 DEF Sections, DocAssumption
    <2> QED BY <1>11, <2>2, <2>3, <2>4 DEF Commit, OwnInv, NoCommit, OwnWriteNeverForeign, Observed
  <1>12. ASSUME NEW c \in Content, ExtWrite(c)
        PROVE  OwnInv'
    BY <1>12 DEF ExtWrite, OwnInv, NoCommit, OwnWriteNeverForeign, Leave, Idle, TypeOK, Quiet
  <1>13. CASE ExtDelete
    BY <1>13 DEF ExtDelete, OwnInv, NoCommit, OwnWriteNeverForeign, Leave, Idle, TypeOK, Quiet
  <1>14. CASE WatcherPoll
    BY <1>14 DEF WatcherPoll, OwnInv, NoCommit, OwnWriteNeverForeign, Leave, Idle, TypeOK, Quiet
  <1>15. ASSUME NEW d \in BOOLEAN, WatcherConfirm(d)
        PROVE  OwnInv'
    <2>1. CASE file.lastStableObservation = pending \/ disk # pending
      BY <1>15, <2>1 DEF WatcherConfirm, OwnInv, NoCommit, OwnWriteNeverForeign, Quiet
    <2>2. CASE file.lastStableObservation # pending /\ disk = pending
      <3>1. NoCommit
        BY <1>15 DEF WatcherConfirm, LockInv, NoCommit, DocAssumption
      <3>2. author \notin {"tab", "data"}
        BY <2>2, <3>1 DEF OwnInv
      <3> QED BY <1>15, <2>2, <3>2 DEF WatcherConfirm, OwnInv, OwnWriteNeverForeign
    <2> QED BY <2>1, <2>2
  <1>16. ASSUME NEW how \in {"down", "handoff"}, Stop(how)
        PROVE  OwnInv'
    BY <1>16 DEF Stop, OwnInv, OwnWriteNeverForeign, Quiet
  <1>17. CASE Start
    BY <1>17 DEF Start, OwnInv, NoCommit, OwnWriteNeverForeign, Leave, Idle, TypeOK, Quiet
  <1>18. CASE UNCHANGED vars
    BY <1>18 DEF vars, OwnInv, NoCommit, OwnWriteNeverForeign
  <1> QED
    BY <1>1, <1>2, <1>3, <1>4, <1>5, <1>6, <1>7, <1>8, <1>9, <1>10, <1>11,
       <1>12, <1>13, <1>14, <1>15, <1>16, <1>17, <1>18 DEF Next, Crash, Handoff, Maybe

\* The watcher never reports a write of this run's own handlers as foreign:
\* whatever it confirms was put on disk by somebody else, or by a write that was
\* never acknowledged.
THEOREM OwnWritesSuppressed == ASSUME DocAssumption PROVE Spec => []OwnWriteNeverForeign
  <1>1. Init => OwnInv
    BY DEF Init, OwnInv, OwnWriteNeverForeign, Idle, Quiet
  <1>2. TypeOK /\ LockInv /\ OwnInv /\ [Next]_vars => OwnInv'
    BY NextOwn
  <1>3. OwnInv => OwnWriteNeverForeign
    BY DEF OwnInv
  <1> QED BY <1>1, <1>2, <1>3, TypeCorrect, PTL DEF Spec

-----------------------------------------------------------------------------
(* A restore never destroys what it replaces.                              *)

\* A restore that reached its rename has the bytes it read in the history.
RestoreInv ==
    /\ \A r \in Req : (req[r].pc = "rename" /\ req[r].kind = "restore" /\ req[r].read.err = "none")
                          => req[r].read.data \in History
    /\ RestoreKeepsBytes

LEMMA NextRestore ==
    ASSUME DocAssumption, TypeOK, LockInv, LifeInv, RestoreInv, [Next]_vars
    PROVE  RestoreInv'
  <1> USE DEF store, bounds, ghosts
  <1>1. CASE Serve
    <2>1. \A q \in Req : req[q].pc = "idle"
      BY <1>1 DEF Serve, MayEnter, LockInv, DocAssumption, Maybe
    <2> QED BY <1>1, <2>1 DEF Serve, RestoreInv, RestoreKeepsBytes, Quiet
  <1>2. CASE ListVersions
    <2>1. \A q \in Req : req[q].pc = "idle"
      BY <1>2 DEF ListVersions, MayEnter, LockInv, DocAssumption, Maybe
    <2> QED BY <1>2, <2>1 DEF ListVersions, RestoreInv, RestoreKeepsBytes, Quiet
  <1>3. ASSUME NEW r \in Req, NEW m \in IfMatches, NEW b \in Bodies, NEW i \in Maybe(SaveIds),
               SaveRead(r, m, b, i)
        PROVE  RestoreInv'
    <2>1. \A q \in Req : req[q].pc = "idle"
      BY <1>3 DEF SaveRead, MayEnter, LockInv, DocAssumption, Maybe
    <2>2. PICK rd \in ReadOutcomes :
            Enter(r, Section("save", "check", m, b, i, rd)) \/ UNCHANGED <<lock, req>>
      BY <1>3 DEF SaveRead
    <2>3. \A q \in Req : req'[q].pc # "rename"
      BY <1>3, <2>1, <2>2 DEF Enter, Section, TypeOK
    <2> QED BY <1>3, <2>3 DEF SaveRead, RestoreInv, RestoreKeepsBytes, Quiet
  <1>4. ASSUME NEW r \in Req, SaveNothingToWrite(r)
        PROVE  RestoreInv'
    <2>1. \A q \in Req : req'[q].pc = "idle"
      BY <1>4 DEF SaveNothingToWrite, LockInv, Leave, Idle, TypeOK
    <2> QED BY <1>4, <2>1 DEF SaveNothingToWrite, RestoreInv, RestoreKeepsBytes, Quiet
  <1>5. ASSUME NEW r \in Req, SaveCheck(r)
        PROVE  RestoreInv'
    <2>1. req[r] \in Sections
      BY <1>5, InSection DEF SaveCheck
    <2>2. \A q \in Req \ {r} : req[q].pc = "idle"
      BY <1>5 DEF SaveCheck, LockInv
    <2>3. \A q \in Req : req'[q].pc # "rename"
      <3>1. CASE Leave(r)
        BY <1>5, <2>2, <3>1 DEF Leave, Idle, TypeOK
      <3>2. ASSUME NEW st \in BOOLEAN, req' = [req EXCEPT ![r] = [@ EXCEPT !.pc = "backup", !.stale = st]]
            PROVE  \A q \in Req : req'[q].pc # "rename"
        BY <2>1, <2>2, <3>2 DEF TypeOK, Sections
      <3> QED BY <1>5, <3>1, <3>2 DEF SaveCheck
    <2> QED BY <1>5, <2>3 DEF SaveCheck, RestoreInv, RestoreKeepsBytes, Quiet
  <1>6. ASSUME NEW r \in Req, NEW m \in IfMatches, NEW b \in Bodies, DataRead(r, m, b)
        PROVE  RestoreInv'
    <2>1. \A q \in Req : req[q].pc = "idle"
      BY <1>6 DEF DataRead, MayEnter, LockInv, DocAssumption, Maybe
    <2>2. \A q \in Req : req'[q].pc # "rename"
      BY <1>6, <2>1 DEF DataRead, Enter, Section, TypeOK
    <2> QED BY <1>6, <2>2 DEF DataRead, RestoreInv, RestoreKeepsBytes, Quiet
  <1>7. ASSUME NEW r \in Req, NEW v \in Content, RestoreRead(r, v)
        PROVE  RestoreInv'
    <2>1. \A q \in Req : req[q].pc = "idle"
      BY <1>7 DEF RestoreRead, MayEnter, LockInv, DocAssumption, Maybe
    <2>2. PICK rd \in ReadOutcomes :
            \E done \in BackupOutcomes(IF rd.err = "none" THEN {rd.data} ELSE {}) :
              LET keyed == IF rd.err = "none" THEN SetHistoryKey(file, KeyOf(rd.data)) ELSE file
                  key   == IF keyed.historyKey = None THEN "path" ELSE keyed.historyKey
              IN  /\ file' = keyed
                  /\ versions' = BackedUp(key, done)
                  /\ \/ done = (IF rd.err = "none" THEN {rd.data} ELSE {})
                        /\ Enter(r, Section("restore", "rename", None, Bare[v], None, rd))
                     \/ UNCHANGED <<lock, req>>
      BY <1>7, Zenon DEF RestoreRead, Safe
    <2>3. CASE UNCHANGED <<lock, req>>
      BY <1>7, <2>1, <2>3 DEF RestoreRead, RestoreInv, RestoreKeepsBytes, Quiet
    <2>4. CASE Enter(r, Section("restore", "rename", None, Bare[v], None, rd)) /\ rd.err # "none"
      BY <1>7, <2>1, <2>4 DEF RestoreRead, Enter, Section, RestoreInv, RestoreKeepsBytes, TypeOK, Quiet
    <2>5. CASE rd.err = "none" /\ ~UNCHANGED <<lock, req>>
      <3>1. rd.data \in Content
        BY ReadsType DEF Reads
      <3>2. DEFINE k == SetHistoryKey(file, KeyOf(rd.data)).historyKey
      <3>3. k \in Keys
        <4>1. KeyOf(rd.data) \in Keys /\ file \in FileRecords
          BY DEF KeyOf, Keys, TypeOK, FileRecords
        <4>2. SetHistoryKey(file, KeyOf(rd.data)) \in FileRecords /\ k # None
          BY <4>1 DEF SetHistoryKey, FileRecords, Maybe, Keys, DocAssumption
        <4> QED BY <4>2 DEF FileRecords, Maybe
      <3>4. /\ file'.historyKey = k /\ k # None
            /\ versions' = BackedUp(k, {rd.data})
            /\ Enter(r, Section("restore", "rename", None, Bare[v], None, rd))
        BY <2>2, <2>5, <3>3, ZenonT(60) DEF DocAssumption
      <3>5. rd.data \in History'
        BY <3>3, <3>4 DEF History, BackedUp, TypeOK
      <3> QED BY <1>7, <2>1, <3>4, <3>5 DEF RestoreRead, Enter, Section, RestoreInv, RestoreKeepsBytes, TypeOK, Quiet
    <2> QED BY <2>2, <2>3, <2>4, <2>5
  <1>8. ASSUME NEW r \in Req, Backups(r)
        PROVE  RestoreInv'
    <2>1. req[r] \in Sections /\ req[r].kind # "restore"
      BY <1>8, InSection DEF Backups, LifeInv
    <2>2. req'[r].kind # "restore" /\ \A q \in Req \ {r} : req'[q] = req[q] /\ req[q].pc = "idle"
      BY <1>8, <2>1 DEF Backups, LockInv, TypeOK, Sections
    <2> QED BY <1>8, <2>2 DEF Backups, RestoreInv, RestoreKeepsBytes, Quiet
  <1>9. ASSUME NEW r \in Req, Rename(r)
        PROVE  RestoreInv'
    <2>1. req[r] \in Sections
      BY <1>9, InSection DEF Rename
    <2>2. req' = [req EXCEPT ![r].pc = "commit"] \/ Leave(r)
      BY <1>9 DEF Rename
    <2>3. \A q \in Req : req'[q].pc # "rename"
      BY <1>9, <2>1, <2>2 DEF Rename, LockInv, Leave, Idle, TypeOK, Sections
    <2>4. RestoreKeepsBytes'
      BY <1>9 DEF Rename, RestoreInv, RestoreKeepsBytes, History
    <2> QED BY <2>3, <2>4 DEF RestoreInv
  <1>10. ASSUME NEW r \in Req, RenameFails(r)
        PROVE  RestoreInv'
    <2>1. \A q \in Req : req'[q].pc = "idle"
      BY <1>10 DEF RenameFails, LockInv, Leave, Idle, TypeOK
    <2> QED BY <1>10, <2>1 DEF RenameFails, RestoreInv, RestoreKeepsBytes, Quiet
  <1>11. ASSUME NEW r \in Req, Commit(r)
        PROVE  RestoreInv'
    <2>1. \A q \in Req : req'[q].pc = "idle"
      BY <1>11 DEF Commit, LockInv, Leave, Idle, TypeOK
    <2> QED BY <1>11, <2>1 DEF Commit, RestoreInv, RestoreKeepsBytes, Quiet
  <1>12. ASSUME NEW c \in Content, ExtWrite(c)
        PROVE  RestoreInv'
    BY <1>12 DEF ExtWrite, RestoreInv, RestoreKeepsBytes, History, Leave, Idle, TypeOK, Quiet
  <1>13. CASE ExtDelete
    BY <1>13 DEF ExtDelete, RestoreInv, RestoreKeepsBytes, History, Leave, Idle, TypeOK, Quiet
  <1>14. CASE WatcherPoll
    BY <1>14 DEF WatcherPoll, RestoreInv, RestoreKeepsBytes, History, Leave, Idle, TypeOK, Quiet
  <1>15. ASSUME NEW d \in BOOLEAN, WatcherConfirm(d)
        PROVE  RestoreInv'
    <2>1. \A q \in Req : req[q].pc = "idle"
      BY <1>15 DEF WatcherConfirm, MayEnter, LockInv, DocAssumption, Maybe
    <2> QED BY <1>15, <2>1 DEF WatcherConfirm, RestoreInv, RestoreKeepsBytes, Quiet
  <1>16. ASSUME NEW how \in {"down", "handoff"}, Stop(how)
        PROVE  RestoreInv'
    BY <1>16 DEF Stop, Idle, RestoreInv, RestoreKeepsBytes, Quiet
  <1>17. CASE Start
    <2>1. \A q \in Req : req[q].pc = "idle"
      BY <1>17 DEF Start, LifeInv, LockInv, DocAssumption
    <2> QED BY <1>17, <2>1 DEF Start, RestoreInv, RestoreKeepsBytes, Quiet
  <1>18. CASE UNCHANGED vars
    BY <1>18 DEF vars, RestoreInv, RestoreKeepsBytes, History
  <1> QED
    BY <1>1, <1>2, <1>3, <1>4, <1>5, <1>6, <1>7, <1>8, <1>9, <1>10, <1>11,
       <1>12, <1>13, <1>14, <1>15, <1>16, <1>17, <1>18 DEF Next, Crash, Handoff, Maybe

\* The bytes a restore replaces are in the history when it replaces them, whatever
\* backup, read, write or directory sync failed on the way.
THEOREM RestoresKeepBytes == ASSUME DocAssumption PROVE Spec => []RestoreKeepsBytes
  <1>1. Init => LifeInv /\ RestoreInv
    BY DEF Init, LifeInv, RestoreInv, RestoreKeepsBytes, Idle, Quiet
  <1>2. TypeOK /\ LockInv /\ LifeInv /\ RestoreInv /\ [Next]_vars => (LifeInv /\ RestoreInv)'
    BY NextLife, NextRestore
  <1>3. RestoreInv => RestoreKeepsBytes
    BY DEF RestoreInv
  <1> QED BY <1>1, <1>2, <1>3, TypeCorrect, PTL DEF Spec

-----------------------------------------------------------------------------
(* No save or restore destroys the only copy of a document.                *)

\* What a section that has read, and one that has versioned, may rely on.
SectionKept(r) ==
    /\ req[r].pc = "check" => req[r].kind = "save" /\ Observed(file)
    /\ (/\ req[r].pc = "backup" /\ req[r].kind = "save"
        /\ req[r].read.err = "none" /\ ~req[r].stale)
         => Observed(file) /\ req[r].read.data = file.lastServerWrite
    /\ req[r].pc \in {"rename", "commit"} => file.historyKey # None /\ Kept(req[r].body)
    /\ (req[r].pc = "rename" /\ req[r].kind # "data" /\ req[r].read.err = "none")
         => Kept(req[r].read.data)

\* A tab's token comes with a first observation, and what this run believes to be
\* the last write or the first observation is kept.
KeepInv ==
    /\ proc # "up" => ~token
    /\ token => Observed(file)
    /\ Observed(file) => file.historyKey # None /\ Kept(file.lastServerWrite)
    /\ \A r \in Req : SectionKept(r)
    /\ NoLostBytes
    /\ AckedIsVersioned

\* With a key resolved, resolving again changes nothing, and neither does a first
\* observation of a document already observed.
LEMMA KeyedUnmoved ==
    ASSUME file.historyKey # None
    PROVE  /\ \A k : SetHistoryKey(file, k) = file
           /\ \A c : Observed(file) => NoteFirstObservation(file, c) = file
  BY DEF SetHistoryKey, NoteFirstObservation

LEMMA NextKeep ==
    ASSUME DocAssumption, ~TrustedOnly, ~HandoffOn, TypeOK, LockInv, LifeInv, KeepInv, [Next]_vars
    PROVE  KeepInv'
  <1> USE DEF store, bounds, ghosts
  <1>1. CASE Serve
    <2>1. \A q \in Req : req[q].pc = "idle"
      BY <1>1 DEF Serve, MayEnter, LockInv, DocAssumption, Maybe
    <2>2. \A q \in Req : SectionKept(q)'
      BY <1>1, <2>1 DEF Serve, SectionKept
    <2>3. proc' = "up" /\ ev' = Quiet /\ disk \in Content
      BY <1>1 DEF Serve, TypeOK, Maybe
    <2>4. CASE Observed(file)
      <3>1. file' = file /\ UNCHANGED <<versions, failed>>
        BY <1>1, <2>3, <2>4, KeyedUnmoved DEF Serve, KeepInv, BackupOutcomes, BackedUp, TypeOK, ResolvedKeys, Maybe
      <3> QED BY <2>2, <2>3, <2>4, <3>1 DEF KeepInv, Kept, History, Observed, NoLostBytes, AckedIsVersioned, Quiet
    <2>5. CASE ~Observed(file)
      <3>1. PICK k \in ResolvedKeys(file, disk) :
              /\ file' = NoteFirstObservation(SetHistoryKey(file, k), disk)
              /\ \E done \in BackupOutcomes({disk}) :
                   versions' = BackedUp(k, done) /\ failed' = failed \cup ({disk} \ done)
        BY <1>1, <2>5 DEF Serve
      <3>2. k \in Keys /\ file \in FileRecords
        BY KeysType DEF TypeOK, FileRecords
      <3>3. file'.historyKey = k /\ k # None
        BY <3>1, <3>2 DEF ResolvedKeys, SetHistoryKey, NoteFirstObservation, RecordServerWrite,
              FileRecords, DocAssumption
      <3>4. file'.lastServerWrite = disk
        BY <2>5, <3>1, <3>2 DEF SetHistoryKey, NoteFirstObservation, RecordServerWrite, FileRecords, Observed
      <3>5. disk \in versions'[k] \/ disk \in failed'
        BY <3>1, <3>2 DEF BackupOutcomes, BackedUp, TypeOK
      <3>6. Kept(file.lastServerWrite)'
        BY <3>3, <3>4, <3>5 DEF Kept, History
      <3>7. Observed(file)'
        BY <2>3, <3>4 DEF Observed, DocAssumption
      <3> QED BY <2>2, <2>3, <3>3, <3>6, <3>7 DEF KeepInv, NoLostBytes, AckedIsVersioned, Quiet
    <2> QED BY <2>4, <2>5
  <1>2. CASE ListVersions
    <2>1. \A q \in Req : req[q].pc = "idle"
      BY <1>2 DEF ListVersions, MayEnter, LockInv, DocAssumption, Maybe
    <2>2. file' = file
      BY <1>2, KeyedUnmoved DEF ListVersions, KeepInv, KeyOf, Keys
    <2>3. UNCHANGED <<proc, token, versions, failed, req>> /\ ev' = Quiet
      BY <1>2 DEF ListVersions
    <2> QED BY <2>2, <2>3 DEF KeepInv, SectionKept, Kept, History, Observed, NoLostBytes, AckedIsVersioned, Quiet
  <1>3. ASSUME NEW r \in Req, NEW m \in IfMatches, NEW b \in Bodies, NEW i \in Maybe(SaveIds),
               SaveRead(r, m, b, i)
        PROVE  KeepInv'
    <2>1. \A q \in Req : req[q].pc = "idle"
      BY <1>3 DEF SaveRead, MayEnter, LockInv, DocAssumption, Maybe
    <2>2. PICK rd \in ReadOutcomes :
            Enter(r, Section("save", "check", m, b, i, rd)) \/ UNCHANGED <<lock, req>>
      BY <1>3 DEF SaveRead
    <2>3. UNCHANGED <<proc, token, file, versions, failed>> /\ ev'.type \notin {"replaced", "acked"}
      BY <1>3 DEF SaveRead, Quiet
    <2>4. Observed(file)
      BY <1>3 DEF SaveRead, KeepInv
    <2>5. \A q \in Req : SectionKept(q)'
      BY <2>1, <2>2, <2>3, <2>4 DEF Enter, Section, SectionKept, Observed, TypeOK
    <2> QED BY <2>3, <2>4, <2>5 DEF KeepInv, Kept, History, Observed, NoLostBytes, AckedIsVersioned
  <1>4. ASSUME NEW r \in Req, SaveNothingToWrite(r)
        PROVE  KeepInv'
    <2>1. \A q \in Req : req'[q].pc = "idle"
      BY <1>4 DEF SaveNothingToWrite, LockInv, Leave, Idle, TypeOK
    <2>2. Observed(file)
      BY <1>4 DEF SaveNothingToWrite, KeepInv, SectionKept
    <2>3. file' = file
      BY <1>4, <2>2, KeysType, KeyedUnmoved DEF SaveNothingToWrite, KeepInv
    <2>4. UNCHANGED <<proc, token, versions, failed>> /\ ev' = Quiet
      BY <1>4 DEF SaveNothingToWrite
    <2> QED BY <2>1, <2>3, <2>4 DEF KeepInv, SectionKept, Kept, History, Observed, NoLostBytes, AckedIsVersioned, Quiet
  <1>5. ASSUME NEW r \in Req, SaveCheck(r)
        PROVE  KeepInv'
    <2>1. req[r] \in Sections /\ req[r].kind = "save" /\ Observed(file)
      BY <1>5, InSection DEF SaveCheck, KeepInv, SectionKept
    <2>2. req[r].read.data \in Content
      BY <2>1 DEF Sections, Reads
    <2>3. file' = file
      BY <1>5, <2>1, <2>2, KeysType, KeyedUnmoved DEF SaveCheck, KeepInv
    <2>4. UNCHANGED <<proc, token, versions, failed>> /\ ev' = Quiet
      BY <1>5, SMTT(30) DEF SaveCheck
    <2>5. \A q \in Req : SectionKept(q)'
      <3>1. CASE Leave(r)
        BY <1>5, <3>1 DEF SaveCheck, LockInv, Leave, Idle, SectionKept, TypeOK
      <3>2. ASSUME NEW st \in BOOLEAN, req' = [req EXCEPT ![r] = [@ EXCEPT !.pc = "backup", !.stale = st]],
                   req[r].read.err = "none" /\ ~st => file.lastServerWrite = req[r].read.data
            PROVE  \A q \in Req : SectionKept(q)'
        <4>1. /\ req'[r].pc = "backup" /\ req'[r].stale = st
              /\ req'[r].read = req[r].read
              /\ \A q \in Req \ {r} : req'[q] = req[q] /\ req[q].pc = "idle"
          BY <1>5, <2>1, <3>2 DEF SaveCheck, LockInv, TypeOK, Sections
        <4> QED BY <2>1, <2>3, <3>2, <4>1 DEF SectionKept, Observed
      <3>3. \/ Leave(r)
            \/ \E st \in BOOLEAN :
                 /\ req' = [req EXCEPT ![r] = [@ EXCEPT !.pc = "backup", !.stale = st]]
                 /\ (req[r].read.err = "none" /\ ~st) => file.lastServerWrite = req[r].read.data
        <4> DEFINE st == /\ req[r].read.err = "none" /\ Observed(file)
                         /\ file.lastServerWrite # req[r].read.data
        <4>1. st \in BOOLEAN
          OBVIOUS
        <4>2. (req[r].read.err = "none" /\ ~st) => file.lastServerWrite = req[r].read.data
          BY <2>1
        <4>3. Leave(r) \/ req' = [req EXCEPT ![r] = [@ EXCEPT !.pc = "backup", !.stale = st]]
          BY <1>5 DEF SaveCheck
        <4> HIDE DEF st
        <4> QED BY <4>1, <4>2, <4>3
      <3> QED BY <3>1, <3>2, <3>3
    <2> QED BY <2>3, <2>4, <2>5 DEF KeepInv, Kept, History, Observed, NoLostBytes, AckedIsVersioned, Quiet
  <1>6. ASSUME NEW r \in Req, NEW m \in IfMatches, NEW b \in Bodies, DataRead(r, m, b)
        PROVE  KeepInv'
    <2>1. \A q \in Req : req[q].pc = "idle"
      BY <1>6 DEF DataRead, MayEnter, LockInv, DocAssumption, Maybe
    <2>2. PICK k \in Keys : file' = SetHistoryKey(file, k)
      BY <1>6, KeysType DEF DataRead
    <2>3. \A q \in Req : SectionKept(q)'
      BY <1>6, <2>1 DEF DataRead, Enter, Section, SectionKept, TypeOK
    <2>4. UNCHANGED <<proc, token, versions, failed>> /\ ev' = Quiet
      BY <1>6 DEF DataRead
    <2>5. file' = file \/ ~Observed(file')
      BY <2>2, KeyedUnmoved DEF KeepInv, SetHistoryKey, Observed, TypeOK
    <2>6. Observed(file) => file' = file
      BY <2>2, KeyedUnmoved DEF KeepInv
    <2> QED BY <2>3, <2>4, <2>5, <2>6 DEF KeepInv, Kept, History, Observed, NoLostBytes, AckedIsVersioned, Quiet
  <1>7. ASSUME NEW r \in Req, NEW v \in Content, RestoreRead(r, v)
        PROVE  KeepInv'
    <2>1. \A q \in Req : req[q].pc = "idle"
      BY <1>7 DEF RestoreRead, MayEnter, LockInv, DocAssumption, Maybe
    <2>2. Observed(file) /\ file.historyKey # None
      BY <1>7 DEF RestoreRead, KeepInv
    <2>3. PICK rd \in ReadOutcomes :
            LET safety == IF rd.err = "none" THEN {rd.data} ELSE {}
            IN  /\ v \in versions[file.historyKey]
                /\ file' = file
                /\ \E done \in BackupOutcomes(safety) :
                     /\ versions' = BackedUp(file.historyKey, done)
                     /\ failed' = failed \cup (safety \ done)
                     /\ IF done = safety
                        THEN Enter(r, Section("restore", "rename", None, Bare[v], None, rd))
                        ELSE UNCHANGED <<lock, req>>
      <3>1. \A c : SetHistoryKey(file, KeyOf(c)) = file
        BY <2>2, KeyedUnmoved
      <3>2. PICK rd \in ReadOutcomes :
               LET keyed == IF rd.err = "none" THEN SetHistoryKey(file, KeyOf(rd.data)) ELSE file
                   key   == IF keyed.historyKey = None THEN "path" ELSE keyed.historyKey
                   safety == IF rd.err = "none" THEN {rd.data} ELSE {}
               IN  /\ v \in versions[key]
                   /\ file' = keyed
                   /\ \E done \in BackupOutcomes(safety) :
                        /\ versions' = BackedUp(key, done)
                        /\ failed' = failed \cup (safety \ done)
                        /\ IF done = safety
                           THEN Enter(r, Section("restore", "rename", None, Bare[v], None, rd))
                           ELSE UNCHANGED <<lock, req>>
        BY <1>7 DEF RestoreRead, Safe
      <3>3. (IF rd.err = "none" THEN SetHistoryKey(file, KeyOf(rd.data)) ELSE file) = file
        BY <3>1
      <3> QED BY <2>2, <3>2, <3>3
    <2>4. file.historyKey \in Keys
      BY <2>2 DEF TypeOK, Maybe
    <2>5. (\A k \in Keys : versions[k] \subseteq versions'[k]) /\ failed \subseteq failed'
      BY <2>3, <2>4 DEF BackedUp, TypeOK
    <2>6. Kept(file.lastServerWrite)'
      BY <2>2, <2>3, <2>4, <2>5 DEF KeepInv, Kept, History
    <2>7. UNCHANGED <<proc, token>> /\ ev' = Quiet
      BY <1>7 DEF RestoreRead
    <2>8. \A q \in Req : SectionKept(q)'
      <3>1. CASE UNCHANGED <<lock, req>>
        BY <2>1, <3>1 DEF SectionKept
      <3>2. CASE /\ Enter(r, Section("restore", "rename", None, Bare[v], None, rd))
                 /\ versions' = BackedUp(file.historyKey, IF rd.err = "none" THEN {rd.data} ELSE {})
        <4>1. Kept(Bare[v])'
          BY <2>2, <2>3, <2>4, <2>5 DEF Kept, History, DocAssumption
        <4>2. rd.err = "none" => Kept(rd.data)'
          BY <2>2, <2>3, <2>4, <3>2 DEF Kept, History, BackedUp, TypeOK
        <4>3. /\ req'[r].pc = "rename" /\ req'[r].body = Bare[v] /\ req'[r].read = rd
              /\ \A q \in Req \ {r} : req'[q].pc = "idle"
          BY <2>1, <3>2 DEF Enter, Section, TypeOK
        <4> QED BY <2>2, <2>3, <4>1, <4>2, <4>3 DEF SectionKept, Kept, History
      <3> QED BY <2>3, <3>1, <3>2
    <2> QED BY <2>2, <2>3, <2>6, <2>7, <2>8 DEF KeepInv, NoLostBytes, AckedIsVersioned, Quiet
  <1>8. ASSUME NEW r \in Req, Backups(r)
        PROVE  KeepInv'
    <2>1. req[r] \in Sections /\ file.historyKey \in Keys /\ file.historyKey # None
      BY <1>8, InSection DEF Backups, LockInv, TypeOK, Maybe
    <2>2. PICK done \in BackupOutcomes(ToVersion(r)) :
            versions' = BackedUp(file.historyKey, done) /\ failed' = failed \cup (ToVersion(r) \ done)
      BY <1>8 DEF Backups
    <2>3. /\ UNCHANGED <<proc, token, file>> /\ ev' = Quiet
          /\ \A k \in Keys : versions[k] \subseteq versions'[k]
          /\ failed \subseteq failed'
      BY <1>8, <2>1, <2>2 DEF Backups, BackedUp, TypeOK
    <2>4. \A c \in ToVersion(r) : Kept(c)'
      BY <2>1, <2>2, <2>3 DEF Kept, History, BackedUp, TypeOK
    <2>5. Observed(file) => Kept(file.lastServerWrite)'
      BY <2>1, <2>3 DEF KeepInv, Kept, History
    <2>6. /\ req'[r].pc = "rename" /\ req'[r].body = req[r].body /\ req'[r].kind = req[r].kind
          /\ req'[r].read = req[r].read
          /\ \A q \in Req \ {r} : req'[q].pc = "idle"
      BY <1>8, <2>1 DEF Backups, LockInv, TypeOK, Sections
    <2>7. (req[r].kind # "data" /\ req[r].read.err = "none") => Kept(req[r].read.data)'
      <3>1. CASE req[r].stale \/ ~HasHistory(file.historyKey)
        BY <2>4, <2>6, <3>1 DEF ToVersion, PreWrite
      <3>2. CASE ~req[r].stale
        BY <1>8, <2>1, <2>3, <2>5, <3>2 DEF Backups, KeepInv, SectionKept, LifeInv, Sections
      <3>3. CASE req[r].read.err = "none" /\ (req[r].stale \/ ~HasHistory(file.historyKey))
        BY <2>4, <2>6, <3>3 DEF ToVersion, PreWrite
      <3> QED BY <3>1, <3>2, <3>3
    <2>8. Kept(req[r].body)'
      BY <2>4, <2>6 DEF ToVersion
    <2>9. \A q \in Req : SectionKept(q)'
      BY <2>1, <2>3, <2>6, <2>7, <2>8 DEF SectionKept, Kept, History
    <2> QED BY <2>1, <2>3, <2>5, <2>9 DEF KeepInv, Observed, NoLostBytes, AckedIsVersioned, Quiet
  <1>9. ASSUME NEW r \in Req, Rename(r)
        PROVE  KeepInv'
    <2>1. req[r] \in Sections
      BY <1>9, InSection DEF Rename
    <2>2. UNCHANGED <<proc, token, file, versions, failed>> /\ ev'.type = "replaced"
      BY <1>9 DEF Rename
    <2>3. \A q \in Req : SectionKept(q)'
      <3>1. CASE Leave(r)
        BY <1>9, <3>1 DEF Rename, LockInv, Leave, Idle, SectionKept, TypeOK
      <3>2. CASE req' = [req EXCEPT ![r].pc = "commit"]
        <4>1. /\ req'[r].pc = "commit" /\ req'[r].body = req[r].body
              /\ \A q \in Req \ {r} : req'[q].pc = "idle"
          BY <1>9, <2>1, <3>2 DEF Rename, LockInv, TypeOK, Sections
        <4> QED BY <1>9, <2>2, <4>1 DEF Rename, KeepInv, SectionKept, Kept, History
      <3> QED BY <1>9, <3>1, <3>2 DEF Rename
    <2>4. NoLostBytes'
      BY <1>9, <2>2 DEF Rename, KeepInv, SectionKept, NoLostBytes, Kept, History
    <2> QED BY <2>2, <2>3, <2>4 DEF KeepInv, Kept, History, Observed, AckedIsVersioned
  <1>10. ASSUME NEW r \in Req, RenameFails(r)
        PROVE  KeepInv'
    <2>1. \A q \in Req : req'[q].pc = "idle"
      BY <1>10 DEF RenameFails, LockInv, Leave, Idle, TypeOK
    <2>2. UNCHANGED <<proc, token, file, versions, failed>> /\ ev' = Quiet
      BY <1>10 DEF RenameFails
    <2> QED BY <2>1, <2>2 DEF KeepInv, SectionKept, Kept, History, Observed, NoLostBytes, AckedIsVersioned, Quiet
  <1>11. ASSUME NEW r \in Req, Commit(r)
        PROVE  KeepInv'
    <2>1. \A q \in Req : req'[q].pc = "idle"
      BY <1>11 DEF Commit, LockInv, Leave, Idle, TypeOK
    <2>2. req[r] \in Sections /\ file.historyKey # None /\ Kept(req[r].body)
      BY <1>11, InSection DEF Commit, KeepInv, SectionKept
    <2>3. file'.lastServerWrite = req[r].body /\ file'.historyKey = file.historyKey
      BY <1>11, <2>2, CommittedType DEF Commit, TypeOK, FileRecords
    <2>4. UNCHANGED <<proc, token, versions, failed>> /\ ev'.type = "acked" /\ ev'.body = req[r].body
      BY <1>11 DEF Commit
    <2>5. proc = "up"
      BY <1>11 DEF Commit, LifeInv, LockInv
    <2>6. req[r].body # None
      BY <2>2 DEF Sections, DocAssumption
    <2> QED BY <2>1, <2>2, <2>3, <2>4, <2>5, <2>6
            DEF KeepInv, SectionKept, Kept, History, Observed, NoLostBytes, AckedIsVersioned
  <1>12. ASSUME NEW c \in Content, ExtWrite(c)
        PROVE  KeepInv'
    <2>1. UNCHANGED <<token, file, versions, failed, req>> /\ ev' = Quiet
      BY <1>12 DEF ExtWrite
    <2>2. proc' # "up" => proc # "up"
      BY <1>12 DEF ExtWrite
    <2> QED BY <2>1, <2>2 DEF KeepInv, SectionKept, Kept, History, Observed, NoLostBytes, AckedIsVersioned, Quiet
  <1>13. CASE ExtDelete
    <2>1. UNCHANGED <<token, file, versions, failed, req>> /\ ev' = Quiet
      BY <1>13 DEF ExtDelete
    <2>2. proc' # "up" => proc # "up"
      BY <1>13 DEF ExtDelete
    <2> QED BY <2>1, <2>2 DEF KeepInv, SectionKept, Kept, History, Observed, NoLostBytes, AckedIsVersioned, Quiet
  <1>14. CASE WatcherPoll
    <2>1. UNCHANGED <<proc, token, file, versions, failed, req>> /\ ev' = Quiet
      BY <1>14 DEF WatcherPoll
    <2> QED BY <2>1 DEF KeepInv, SectionKept, Kept, History, Observed, NoLostBytes, AckedIsVersioned, Quiet
  <1>15. ASSUME NEW d \in BOOLEAN, WatcherConfirm(d)
        PROVE  KeepInv'
    <2>1. \A q \in Req : req[q].pc = "idle"
      BY <1>15 DEF WatcherConfirm, MayEnter, LockInv, DocAssumption, Maybe
    <2>2. \A q \in Req : SectionKept(q)'
      BY <1>15, <2>1 DEF WatcherConfirm, SectionKept
    <2>3. /\ file'.lastServerWrite = file.lastServerWrite /\ file'.historyKey = file.historyKey
          /\ \A k \in Keys : versions[k] \subseteq versions'[k]
          /\ failed \subseteq failed'
      <3>1. CASE UNCHANGED <<store, file, failed, sighted>>
        BY <3>1
      <3>2. CASE ~UNCHANGED <<store, file, failed, sighted>>
        <4>1. file' = file \/ file' = RecordStableObservation(file, pending)
          BY <1>15, <3>2 DEF WatcherConfirm
        <4>2. \E k \in Keys : \E done \in SUBSET Content : versions' = BackedUp(k, done) /\ failed \subseteq failed'
          BY <1>15, <3>2, BackupType DEF WatcherConfirm, Keys, TypeOK, Maybe
        <4>3. file'.lastServerWrite = file.lastServerWrite /\ file'.historyKey = file.historyKey
          <5>1. file \in FileRecords /\ pending \in Content /\ "id" \in Keys
            BY <1>15 DEF WatcherConfirm, TypeOK, FileRecords, Maybe, Keys
          <5> QED BY <4>1, <5>1, FileOps
        <4>4. \A k \in Keys : versions[k] \subseteq versions'[k]
          BY <4>2 DEF BackedUp, TypeOK
        <4> QED BY <4>2, <4>3, <4>4
      <3> QED BY <3>1, <3>2
    <2>4. Observed(file) => Kept(file.lastServerWrite)'
      BY <2>3 DEF KeepInv, Kept, History, TypeOK, Maybe
    <2>5. UNCHANGED <<proc, token>> /\ ev'.type \notin {"replaced", "acked"}
      BY <1>15 DEF WatcherConfirm, Quiet
    <2> QED BY <2>2, <2>3, <2>4, <2>5 DEF KeepInv, Observed, NoLostBytes, AckedIsVersioned
  <1>16. CASE Crash
    BY <1>16 DEF Crash, Stop, Idle, NewFile, Observed, KeepInv, SectionKept, NoLostBytes, AckedIsVersioned, Quiet
  <1>17. CASE Start
    <2>1. file = NewFile /\ ~token /\ \A q \in Req : req[q].pc = "idle"
      BY <1>17 DEF Start, LifeInv, LockInv, KeepInv, DocAssumption
    <2>2. UNCHANGED <<file, req>> /\ ~token' /\ ev' = Quiet
      BY <1>17, <2>1 DEF Start
    <2> QED BY <2>1, <2>2 DEF NewFile, Observed, KeepInv, SectionKept, NoLostBytes, AckedIsVersioned, Quiet
  <1>18. CASE UNCHANGED vars
    BY <1>18 DEF vars, KeepInv, SectionKept, Kept, History, Observed, NoLostBytes, AckedIsVersioned
  <1> QED
    BY <1>1, <1>2, <1>3, <1>4, <1>5, <1>6, <1>7, <1>8, <1>9, <1>10, <1>11,
       <1>12, <1>13, <1>14, <1>15, <1>16, <1>17, <1>18 DEF Next, Handoff, Maybe

\* No save or restore of a document that its user opened destroys the only copy of
\* what it replaces. Folder trust alone and an update restart are excluded: with
\* either, the property fails (README, further behaviours).
THEOREM NoDocumentLost ==
    ASSUME DocAssumption, ~TrustedOnly, ~HandoffOn
    PROVE  Spec => [](NoLostBytes /\ AckedIsVersioned)
  <1>1. Init => LifeInv /\ KeepInv
    BY DEF Init, LifeInv, KeepInv, SectionKept, NewFile, Observed, NoLostBytes,
           AckedIsVersioned, Idle, Quiet
  <1>2. TypeOK /\ LockInv /\ LifeInv /\ KeepInv /\ [Next]_vars => (LifeInv /\ KeepInv)'
    BY NextLife, NextKeep
  <1>3. KeepInv => NoLostBytes /\ AckedIsVersioned
    BY DEF KeepInv
  <1> QED BY <1>1, <1>2, <1>3, TypeCorrect, PTL DEF Spec

\* The bytes behind an acknowledgement are versioned when it goes out, under the
\* same two exclusions.
THEOREM AcknowledgedIsKept ==
    ASSUME DocAssumption, ~TrustedOnly, ~HandoffOn
    PROVE  Spec => []AckedIsVersioned
  <1> QED BY NoDocumentLost, PTL

-----------------------------------------------------------------------------
(* How the records of a file move, for the three theorems after it.        *)

\* All of the records but the history key.
SameRecords(g, f) ==
    /\ g.lastServerWrite = f.lastServerWrite
    /\ g.lastStableObservation = f.lastStableObservation
    /\ g.writtenHere = f.writtenHere
    /\ g.externalSinceOwnWrite = f.externalSinceOwnWrite
    /\ g.lastSaveID = f.lastSaveID
    /\ g.lastSaveEtag = f.lastSaveEtag

\* The records that a first observation of c leaves.
FirstSeen(g, f, c) ==
    /\ ~Observed(f)
    /\ g.lastServerWrite = c /\ g.lastStableObservation = c
    /\ g.writtenHere = f.writtenHere
    /\ g.lastSaveID = f.lastSaveID
    /\ g.lastSaveEtag = f.lastSaveEtag

\* The records that the watcher's confirmation of c leaves.
SeenOutside(g, f, c) ==
    /\ c # f.lastStableObservation
    /\ g.lastServerWrite = f.lastServerWrite /\ g.lastStableObservation = c
    /\ g.writtenHere = f.writtenHere
    /\ (f.externalSinceOwnWrite \/ c # f.lastServerWrite) => g.externalSinceOwnWrite
    /\ g.lastSaveID = f.lastSaveID
    /\ g.lastSaveEtag = f.lastSaveEtag

\* A refusal answers from the records as they stand.
AnswersFrom(e, rd) ==
    e = [type |-> "refused", data |-> rd.data,
         changedBy |-> conflictAttribution(file, rd),
         saveId |-> SaveReceiptFor(file, rd.data)]

\* What a step that neither commits nor ends the process does to the records.
Moved ==
    /\ UNCHANGED <<stored, tabStored>> /\ known \subseteq known'
    /\ ev'.type # "acked"
    /\ ev'.type = "refused" =>
         UNCHANGED <<file, sighted>> /\ \E rd \in ReadOutcomes : AnswersFrom(ev', rd)
    /\ \/ SameRecords(file', file) /\ UNCHANGED sighted
       \/ (\E c \in known' : FirstSeen(file', file, c)) /\ UNCHANGED sighted
       \/ \E c \in Content : SeenOutside(file', file, c)

LEMMA KeyOnly ==
    ASSUME NEW f \in FileRecords, NEW k
    PROVE  SameRecords(SetHistoryKey(f, k), f)
  BY DEF SameRecords, SetHistoryKey, FileRecords

LEMMA KeyAndFirst ==
    ASSUME NEW f \in FileRecords, NEW k, NEW c
    PROVE  LET g == NoteFirstObservation(SetHistoryKey(f, k), c)
           IN  /\ Observed(f) => SameRecords(g, f)
               /\ ~Observed(f) => FirstSeen(g, f, c)
  BY DEF SameRecords, FirstSeen, SetHistoryKey, NoteFirstObservation, RecordServerWrite,
         Observed, FileRecords

LEMMA Confirmed ==
    ASSUME NEW f \in FileRecords, NEW c, c # f.lastStableObservation
    PROVE  SeenOutside(RecordStableObservation(f, c), f, c)
  BY DEF SeenOutside, RecordStableObservation, FileRecords

\* Every step commits a handler's write, ends the process, or moves the records
\* by resolving a key, by a first observation or by the watcher's confirmation.
LEMMA RecordsMove ==
    ASSUME DocAssumption, TypeOK, Next
    PROVE  \/ \E r \in Req : Commit(r)
           \/ \E how \in {"down", "handoff"} : Stop(how)
           \/ Moved
  <1> USE DEF store, bounds, ghosts
  <1> DEFINE Still == /\ UNCHANGED <<stored, tabStored, sighted>> /\ known \subseteq known'
                      /\ ev'.type \notin {"acked", "refused"}
  <1>f. file \in FileRecords
    BY DEF TypeOK, FileRecords
  <1>s. ASSUME UNCHANGED file PROVE SameRecords(file', file)
    BY <1>s DEF SameRecords
  <1>1. CASE Serve
    <2>1. PICK k \in Keys : file' = NoteFirstObservation(SetHistoryKey(file, k), disk)
      BY <1>1, KeysType DEF Serve
    <2>2. Still /\ (~Observed(file) => disk \in known')
      BY <1>1 DEF Serve, Quiet
    <2> QED BY <1>f, <2>1, <2>2, KeyAndFirst DEF Moved
  <1>2. CASE ListVersions
    <2>1. Still
      BY <1>2 DEF ListVersions, Quiet
    <2> QED BY <1>2, <1>f, <2>1, KeyOnly DEF ListVersions, Moved
  <1>3. ASSUME NEW r \in Req, NEW m \in IfMatches, NEW b \in Bodies, NEW i \in Maybe(SaveIds),
               SaveRead(r, m, b, i)
        PROVE  Moved
    <2>1. ev'.type # "acked" /\ (ev'.type = "refused" => \E rd \in ReadOutcomes : AnswersFrom(ev', rd))
      BY <1>3 DEF SaveRead, AnswersFrom, Quiet
    <2>2. UNCHANGED <<stored, tabStored, sighted, known, file>>
      BY <1>3 DEF SaveRead
    <2> QED BY <1>s, <2>1, <2>2 DEF Moved
  <1>4. ASSUME NEW r \in Req, SaveNothingToWrite(r)
        PROVE  Moved
    <2>1. Still
      BY <1>4 DEF SaveNothingToWrite, Quiet
    <2> QED BY <1>4, <1>f, <2>1, KeyOnly DEF SaveNothingToWrite, Moved
  <1>5. ASSUME NEW r \in Req, SaveCheck(r)
        PROVE  Moved
    <2>1. Still
      BY <1>5 DEF SaveCheck, Quiet
    <2>2. PICK k \in Keys :
            \/ file' = SetHistoryKey(file, k)
            \/ /\ file' = NoteFirstObservation(SetHistoryKey(file, k), req[r].read.data)
               /\ ~Observed(file) => req[r].read.data \in known'
      BY <1>5, KeysType DEF SaveCheck
    <2> QED BY <1>f, <2>1, <2>2, KeyOnly, KeyAndFirst DEF Moved
  <1>6. ASSUME NEW r \in Req, NEW m \in IfMatches, NEW b \in Bodies, DataRead(r, m, b)
        PROVE  Moved
    <2>1. Still
      BY <1>6 DEF DataRead, Quiet
    <2> QED BY <1>6, <1>f, <2>1, KeyOnly DEF DataRead, Moved
  <1>7. ASSUME NEW r \in Req, NEW v \in Content, RestoreRead(r, v)
        PROVE  Moved
    <2>1. Still
      BY <1>7 DEF RestoreRead, Quiet
    <2>2. file' = file \/ \E k : file' = SetHistoryKey(file, k)
      BY <1>7 DEF RestoreRead
    <2> QED BY <1>f, <1>s, <2>1, <2>2, KeyOnly DEF Moved
  <1>8. ASSUME NEW r \in Req, Backups(r)
        PROVE  Moved
    BY <1>8, <1>s DEF Backups, Moved, Quiet
  <1>9. ASSUME NEW r \in Req, Rename(r)
        PROVE  Moved
    <2>1. ev'.type = "replaced"
      BY <1>9 DEF Rename
    <2> QED BY <1>9, <1>s, <2>1 DEF Rename, Moved
  <1>10. ASSUME NEW r \in Req, RenameFails(r)
        PROVE  Moved
    BY <1>10, <1>s DEF RenameFails, Moved, Quiet
  <1>11. ASSUME NEW c \in Content, ExtWrite(c)
        PROVE  Moved
    BY <1>11, <1>s DEF ExtWrite, Moved, Quiet
  <1>12. CASE ExtDelete
    BY <1>12, <1>s DEF ExtDelete, Moved, Quiet
  <1>13. CASE WatcherPoll
    BY <1>13, <1>s DEF WatcherPoll, Moved, Quiet
  <1>14. ASSUME NEW d \in BOOLEAN, WatcherConfirm(d)
        PROVE  Moved
    <2>1. UNCHANGED <<stored, tabStored, known>> /\ ev'.type \notin {"acked", "refused"}
      BY <1>14 DEF WatcherConfirm, Quiet
    <2>2. pending \in Content
      BY <1>14 DEF WatcherConfirm, TypeOK, Maybe
    <2>3. \/ UNCHANGED <<file, sighted>>
          \/ /\ pending # file.lastStableObservation
             /\ file' = RecordStableObservation(file, pending)
      BY <1>14 DEF WatcherConfirm, TypeOK
    <2>4. UNCHANGED <<file, sighted>> \/ SeenOutside(file', file, pending)
      BY <1>f, <2>3, Confirmed
    <2> QED BY <1>s, <2>1, <2>2, <2>4 DEF Moved
  <1>15. CASE Start
    BY <1>15, <1>s DEF Start, Moved, Quiet
  <1> QED
    BY <1>1, <1>2, <1>3, <1>4, <1>5, <1>6, <1>7, <1>8, <1>9, <1>10, <1>11,
       <1>12, <1>13, <1>14, <1>15 DEF Next, Crash, Handoff, Maybe

-----------------------------------------------------------------------------
(* The receipts, the attribution and the stale warning are honest.         *)

\* The recorded receipt is that of a save that committed.
ReceiptInv ==
    /\ file.lastSaveID # None => <<file.lastSaveID, file.lastSaveEtag>> \in stored
    /\ ReceiptHonest

LEMMA NextReceipt ==
    ASSUME DocAssumption, TypeOK, LockInv, ReceiptInv, [Next]_vars
    PROVE  ReceiptInv'
  <1>1. ASSUME NEW r \in Req, Commit(r)
        PROVE  ReceiptInv'
    <2>1. req[r] \in Sections /\ file \in FileRecords
      BY <1>1, InSection DEF Commit, TypeOK, FileRecords
    <2>2. CASE req[r].kind = "save"
      <3>1. file'.lastSaveID = req[r].saveId /\ file'.lastSaveEtag = req[r].body
        BY <1>1, <2>1, <2>2 DEF Commit, Committed, RecordSaveReceipt, RecordServerWrite,
                                NoteWriteByThisHost, FileRecords
      <3> QED BY <1>1, <2>2, <3>1 DEF Commit, ReceiptInv, ReceiptHonest
    <2>3. CASE req[r].kind # "save"
      <3>1. file'.lastSaveID = file.lastSaveID /\ file'.lastSaveEtag = file.lastSaveEtag
        BY <1>1, <2>1, <2>3 DEF Commit, Committed, NoteWriteFromOutsideTabs, RecordServerWrite,
                                NoteWriteByThisHost, FileRecords, Sections
      <3> QED BY <1>1, <2>3, <3>1 DEF Commit, ReceiptInv, ReceiptHonest
    <2> QED BY <2>2, <2>3
  <1>2. ASSUME NEW how \in {"down", "handoff"}, Stop(how)
        PROVE  ReceiptInv'
    BY <1>2 DEF Stop, NewFile, ReceiptInv, ReceiptHonest, Quiet
  <1>3. CASE Moved
    <2>1. file'.lastSaveID = file.lastSaveID /\ file'.lastSaveEtag = file.lastSaveEtag
      BY <1>3 DEF Moved, SameRecords, FirstSeen, SeenOutside
    <2>2. ASSUME NEW rd \in ReadOutcomes, AnswersFrom(ev', rd), ev'.saveId # None
          PROVE  <<ev'.saveId, ev'.data>> \in stored
      BY <2>2 DEF AnswersFrom, SaveReceiptFor, ReceiptInv
    <2> QED BY <1>3, <2>1, <2>2 DEF Moved, ReceiptInv, ReceiptHonest
  <1>4. CASE UNCHANGED vars
    BY <1>4 DEF vars, ReceiptInv, ReceiptHonest
  <1> QED BY <1>1, <1>2, <1>3, <1>4, RecordsMove

\* The Save-ID that a refusal reports for the stored bytes is the id of a save of
\* exactly those bytes (handlers.go, SaveReceiptFor), for every interleaving of
\* restores, data writes, id-less saves, external edits and restarts.
THEOREM ReceiptsHonest == ASSUME DocAssumption PROVE Spec => []ReceiptHonest
  <1>1. Init => ReceiptInv
    BY DEF Init, NewFile, ReceiptInv, ReceiptHonest, Quiet
  <1>2. TypeOK /\ LockInv /\ ReceiptInv /\ [Next]_vars => ReceiptInv'
    BY NextReceipt
  <1>3. ReceiptInv => ReceiptHonest
    BY DEF ReceiptInv
  <1> QED BY <1>1, <1>2, <1>3, TypeCorrect, PTL DEF Spec

\* While a write of this host is recorded and nothing outside its tabs is noted
\* since, the last write is a tab's and the tabs were told of no outside edit; and
\* an observation that differs from the last write was noted as such an edit.
BlameInv ==
    /\ file.writtenHere => Observed(file)
    /\ file.writtenHere /\ ~file.externalSinceOwnWrite
         => file.lastServerWrite \in tabStored /\ ~sighted
    /\ file.lastStableObservation # file.lastServerWrite => file.externalSinceOwnWrite
    /\ BlameHonest

LEMMA NextBlame ==
    ASSUME DocAssumption, TypeOK, LockInv, BlameInv, [Next]_vars
    PROVE  BlameInv'
  <1>1. ASSUME NEW r \in Req, Commit(r)
        PROVE  BlameInv'
    <2>1. req[r] \in Sections /\ file \in FileRecords /\ req[r].body # None
      BY <1>1, InSection DEF Commit, TypeOK, FileRecords, Sections, DocAssumption
    <2>2. file'.lastServerWrite = req[r].body /\ file'.lastStableObservation = req[r].body
      BY <1>1, <2>1, CommittedType DEF Commit
    <2>3. req[r].kind = "data" => file'.externalSinceOwnWrite
      BY <1>1, <2>1 DEF Commit, Committed, NoteWriteFromOutsideTabs, RecordServerWrite,
                        NoteWriteByThisHost, FileRecords
    <2>4. req[r].kind # "data" => req[r].body \in tabStored'
      BY <1>1 DEF Commit
    <2>5. ~sighted' /\ ev'.type = "acked"
      BY <1>1 DEF Commit
    <2> QED BY <2>1, <2>2, <2>3, <2>4, <2>5 DEF BlameInv, BlameHonest, Observed
  <1>2. ASSUME NEW how \in {"down", "handoff"}, Stop(how)
        PROVE  BlameInv'
    BY <1>2 DEF Stop, NewFile, BlameInv, BlameHonest, Quiet
  <1>3. CASE Moved
    <2>1. BlameHonest'
      <3>1. ASSUME NEW rd \in ReadOutcomes, AnswersFrom(ev', rd), ev'.changedBy = "another-tab"
            PROVE  ev'.data \in tabStored /\ ~sighted
        BY <3>1 DEF AnswersFrom, conflictAttribution, BlameInv, DocAssumption
      <3> QED BY <1>3, <3>1 DEF Moved, BlameHonest
    <2>2. CASE SameRecords(file', file) /\ UNCHANGED sighted
      BY <1>3, <2>1, <2>2 DEF Moved, SameRecords, BlameInv, Observed
    <2>3. ASSUME NEW c \in known', FirstSeen(file', file, c)
          PROVE  BlameInv'
      BY <2>1, <2>3 DEF FirstSeen, BlameInv
    <2>4. ASSUME NEW c \in Content, SeenOutside(file', file, c)
          PROVE  BlameInv'
      <3>1. file'.externalSinceOwnWrite
        BY <2>4 DEF SeenOutside, BlameInv
      <3> QED BY <2>1, <2>4, <3>1 DEF SeenOutside, BlameInv, Observed
    <2> QED BY <1>3, <2>2, <2>3, <2>4 DEF Moved
  <1>4. CASE UNCHANGED vars
    BY <1>4 DEF vars, BlameInv, BlameHonest
  <1> QED BY <1>1, <1>2, <1>3, <1>4, RecordsMove

\* A refusal blames the person's other tab only for bytes a tab of this run stored,
\* and never once the tabs were told of an outside edit, undone or not
\* (conflictAttribution).
THEOREM BlamesHonest == ASSUME DocAssumption PROVE Spec => []BlameHonest
  <1>1. Init => BlameInv
    BY DEF Init, NewFile, BlameInv, BlameHonest, Quiet
  <1>2. TypeOK /\ LockInv /\ BlameInv /\ [Next]_vars => BlameInv'
    BY NextBlame
  <1>3. BlameInv => BlameHonest
    BY DEF BlameInv
  <1> QED BY <1>1, <1>2, <1>3, TypeCorrect, PTL DEF Spec

Ahead == {"backup", "rename", "commit"}

\* The last write or first observation is known, and so are the bytes that a save
\* past its stale test read and was not found stale for.
StaleInv ==
    /\ Observed(file) => file.lastServerWrite \in known
    /\ \A r \in Req :
         (/\ req[r].pc \in Ahead /\ req[r].kind = "save"
          /\ ~req[r].stale /\ req[r].read.err = "none") => req[r].read.data \in known
    /\ StaleHonest

\* Only the stale test brings a save past it; the steps after it keep what it read
\* and found.
LEMMA SectionsMove ==
    ASSUME DocAssumption, TypeOK, Next, NEW q \in Req, ~SaveCheck(q),
           req'[q].pc \in Ahead, req'[q].kind = "save"
    PROVE  /\ req[q].pc \in Ahead /\ req[q].kind = "save"
           /\ req'[q].stale = req[q].stale /\ req'[q].read = req[q].read
  <1> DEFINE Goal == /\ req[q].pc \in Ahead /\ req[q].kind = "save"
                     /\ req'[q].stale = req[q].stale /\ req'[q].read = req[q].read
  <1> USE DEF bounds, Ahead
  <1>1. CASE UNCHANGED req
    BY <1>1
  <1>2. ASSUME NEW r \in Req, NEW m \in IfMatches, NEW b \in Bodies, NEW i \in Maybe(SaveIds),
               SaveRead(r, m, b, i)
        PROVE  Goal
    BY <1>2 DEF SaveRead, Enter, Section, TypeOK
  <1>3. ASSUME NEW r \in Req, Leave(r)
        PROVE  Goal
    BY <1>3 DEF Leave, Idle, TypeOK
  <1>4. ASSUME NEW r \in Req, SaveCheck(r)
        PROVE  Goal
    <2>1. r # q
      BY <1>4
    <2>2. Leave(r) \/ \E s : req' = [req EXCEPT ![r] = s]
      BY <1>4 DEF SaveCheck
    <2> QED BY <1>3, <2>1, <2>2 DEF TypeOK
  <1>5. ASSUME NEW r \in Req, NEW m \in IfMatches, NEW b \in Bodies, DataRead(r, m, b)
        PROVE  Goal
    <2>1. Enter(r, Section("data", "backup", m, b, None, [err |-> "none", data |-> disk]))
      BY <1>5 DEF DataRead
    <2>2. \A p \in Req : IF p = r THEN req'[p].kind = "data" ELSE req'[p] = req[p]
      BY <2>1 DEF Enter, Section, TypeOK
    <2> QED BY <2>2
  <1>6. ASSUME NEW r \in Req, NEW v \in Content, RestoreRead(r, v)
        PROVE  Goal
    BY <1>6 DEF RestoreRead, Enter, Section, TypeOK
  <1>7. ASSUME NEW r \in Req, Backups(r)
        PROVE  Goal
    <2>1. req[r] \in Sections
      BY <1>7, InSection DEF Backups
    <2> QED BY <1>7, <2>1 DEF Backups, TypeOK, Sections
  <1>8. ASSUME NEW r \in Req, Rename(r)
        PROVE  Goal
    <2>1. req[r] \in Sections
      BY <1>8, InSection DEF Rename
    <2>2. CASE req' = [req EXCEPT ![r].pc = "commit"]
      BY <1>8, <2>1, <2>2 DEF Rename, TypeOK, Sections
    <2> QED BY <1>3, <1>8, <2>2 DEF Rename
  <1>9. ASSUME NEW how \in {"down", "handoff"}, Stop(how)
        PROVE  Goal
    BY <1>9 DEF Stop, Idle
  <1>10. Serve \/ ListVersions \/ ExtDelete \/ WatcherPoll \/ Start => UNCHANGED req
    BY DEF Serve, ListVersions, ExtDelete, WatcherPoll, Start
  <1>11. /\ \A c \in Content : ExtWrite(c) => UNCHANGED req
         /\ \A d \in BOOLEAN : WatcherConfirm(d) => UNCHANGED req
    BY DEF ExtWrite, WatcherConfirm
  <1>12. \A r \in Req : SaveNothingToWrite(r) \/ RenameFails(r) \/ Commit(r) => Leave(r)
    BY DEF SaveNothingToWrite, RenameFails, Commit
  <1> QED
    BY <1>1, <1>2, <1>3, <1>4, <1>5, <1>6, <1>7, <1>8, <1>9, <1>10, <1>11, <1>12
       DEF Next, Crash, Handoff, Maybe

LEMMA NextStale ==
    ASSUME DocAssumption, TypeOK, LockInv, StaleInv, [Next]_vars
    PROVE  StaleInv'
  <1>1. ASSUME NEW how \in {"down", "handoff"}, Stop(how)
        PROVE  StaleInv'
    BY <1>1 DEF Stop, NewFile, Idle, StaleInv, StaleHonest, Observed, Quiet, Ahead
  <1>2. ASSUME NEW r \in Req, Commit(r)
        PROVE  known \subseteq known' /\ StaleHonest' /\ (Observed(file) => file.lastServerWrite \in known)'
    <2>1. req[r] \in Sections /\ file \in FileRecords
      BY <1>2, InSection DEF Commit, TypeOK, FileRecords
    <2>2. file'.lastServerWrite = req[r].body /\ req[r].body \in known'
      BY <1>2, <2>1, CommittedType DEF Commit
    <2>3. StaleHonest'
      BY <1>2 DEF Commit, StaleInv, StaleHonest, Ahead
    <2> QED BY <1>2, <2>2, <2>3 DEF Commit, Observed
  <1>3. ASSUME Moved
        PROVE  known \subseteq known' /\ StaleHonest' /\ (Observed(file) => file.lastServerWrite \in known)'
    <2>1. StaleHonest'
      BY <1>3 DEF Moved, StaleHonest
    <2>2. (Observed(file) => file.lastServerWrite \in known)'
      BY <1>3 DEF Moved, SameRecords, FirstSeen, SeenOutside, StaleInv, Observed
    <2> QED BY <1>3, <2>1, <2>2 DEF Moved
  <1>4. ASSUME NEW q \in Req, SaveCheck(q), req'[q].pc \in Ahead,
               ~req'[q].stale, req'[q].read.err = "none"
        PROVE  req'[q].read.data \in known'
    <2>1. req[q] \in Sections
      BY <1>4, InSection DEF SaveCheck
    <2> DEFINE st == /\ req[q].read.err = "none" /\ Observed(file)
                     /\ file.lastServerWrite # req[q].read.data
    <2>2. st \in BOOLEAN
      OBVIOUS
    <2>3. Leave(q) \/ req' = [req EXCEPT ![q] = [@ EXCEPT !.pc = "backup", !.stale = st]]
      BY <1>4 DEF SaveCheck
    <2>4. ~Leave(q)
      BY <1>4 DEF Leave, Idle, TypeOK, Ahead
    <2>5. known \subseteq known' /\ (req[q].read.err = "none" /\ ~Observed(file) => req[q].read.data \in known')
      BY <1>4 DEF SaveCheck
    <2>6. ~st /\ req[q].read.err = "none" => req[q].read.data \in known'
      BY <2>5 DEF StaleInv
    <2> HIDE DEF st
    <2>7. ASSUME NEW s \in BOOLEAN, req' = [req EXCEPT ![q] = [@ EXCEPT !.pc = "backup", !.stale = s]]
          PROVE  req'[q].stale = s /\ req'[q].read = req[q].read
      BY <2>1, <2>7 DEF TypeOK, Sections
    <2> QED BY <1>4, <2>2, <2>3, <2>4, <2>6, <2>7
  <1>5. ASSUME Next, ~(\E how \in {"down", "handoff"} : Stop(how))
        PROVE  StaleInv'
    <2>1. known \subseteq known' /\ StaleHonest' /\ (Observed(file) => file.lastServerWrite \in known)'
      BY <1>2, <1>3, <1>5, RecordsMove DEF Moved
    <2>2. ASSUME NEW q \in Req, req'[q].pc \in Ahead, req'[q].kind = "save",
                 ~req'[q].stale, req'[q].read.err = "none"
          PROVE  req'[q].read.data \in known'
      <3>1. CASE SaveCheck(q)
        BY <1>4, <2>2, <3>1
      <3>2. CASE ~SaveCheck(q)
        <4>1. /\ req[q].pc \in Ahead /\ req[q].kind = "save"
              /\ req'[q].stale = req[q].stale /\ req'[q].read = req[q].read
          BY <1>5, <2>2, <3>2, SectionsMove
        <4> QED BY <2>1, <2>2, <4>1 DEF StaleInv
      <3> QED BY <3>1, <3>2
    <2> QED BY <2>1, <2>2 DEF StaleInv
  <1>6. CASE UNCHANGED vars
    BY <1>6 DEF vars, StaleInv, StaleHonest, Observed
  <1> QED BY <1>1, <1>5, <1>6

\* A save acknowledged without the stale warning replaced bytes this run had stored
\* or first observed (handleSave's stale test under the file lock), wherever the
\* external edits, the watcher's confirmations and the other handlers fall.
THEOREM StaleWarningsHonest == ASSUME DocAssumption PROVE Spec => []StaleHonest
  <1>1. Init => StaleInv
    BY DEF Init, NewFile, Idle, StaleInv, StaleHonest, Observed, Quiet, Ahead
  <1>2. TypeOK /\ LockInv /\ StaleInv /\ [Next]_vars => StaleInv'
    BY NextStale
  <1>3. StaleInv => StaleHonest
    BY DEF StaleInv
  <1> QED BY <1>1, <1>2, <1>3, TypeCorrect, PTL DEF Spec

-----------------------------------------------------------------------------
(* The history a person engaged stays theirs.                              *)

\* A tab's token comes with a resolved key, the key is the id's, and a history that
\* stands behind an acknowledged write is there and not provisional.
HistInv ==
    /\ proc # "up" => ~token
    /\ token => file.historyKey # None
    /\ file.historyKey # "path"
    /\ engaged => versions["id"] # {} /\ ~provisional

\* No step but startup's pruning takes a version away, and only a first opening
\* makes an empty history provisional.
Growing ==
    /\ versions["id"] # {} => versions'["id"] # {}
    /\ versions["id"] # {} /\ ~provisional => ~provisional'

LEMMA BackupGrows ==
    ASSUME TypeOK, NEW k \in Keys, NEW done \in SUBSET Content,
           versions' = BackedUp(k, done),
           provisional' = ProvisionalAfter(k, done)
    PROVE  Growing
  BY DEF TypeOK, BackedUp, ProvisionalAfter, Growing, Keys

LEMMA NextHist ==
    ASSUME DocAssumption, ~HandoffOn, "resolve" \notin Faults,
           TypeOK, LockInv, LifeInv, HistInv, [Next]_vars
    PROVE  HistInv' /\ (engaged => versions'["id"] # {})
  <1> DEFINE Goal == HistInv' /\ (engaged => versions'["id"] # {})
  <1> USE DEF store, bounds, ghosts
  <1>f. file \in FileRecords /\ engaged \in BOOLEAN /\ provisional \in BOOLEAN
    BY DEF TypeOK, FileRecords
  <1>k. \A c, k : k \in ResolvedKeys(file, c) =>
            SetHistoryKey(file, k).historyKey \in {"id"}
    BY <1>f DEF ResolvedKeys, SetHistoryKey, HistInv, FileRecords, Maybe, Keys
  <1>t. token => \A k : SetHistoryKey(file, k) = file
    BY DEF SetHistoryKey, HistInv
  <1>i. "id" # None
    BY DEF DocAssumption, Keys
  <1>g. ASSUME Growing, UNCHANGED engaged, UNCHANGED <<proc, token>>,
               file'.historyKey \in {file.historyKey, "id"}
        PROVE  Goal
    BY <1>f, <1>g, <1>i DEF Growing, HistInv
  <1>1. CASE Serve
    <2>1. PICK k \in ResolvedKeys(file, disk), done \in SUBSET Content :
            /\ file' = NoteFirstObservation(SetHistoryKey(file, k), disk)
            /\ versions' = BackedUp(k, done)
            /\ provisional' = \/ ProvisionalAfter(k, done)
                              \/ done # {} /\ Minted(file, k, disk)
      <3>1. disk \in Content
        BY <1>1 DEF Serve, TypeOK, Maybe
      <3> DEFINE snapshot == IF ~Observed(file) /\ ~TrustedOnly THEN {disk} ELSE {}
      <3>2. snapshot \in SUBSET Content
        BY <3>1
      <3>3. PICK k \in ResolvedKeys(file, disk) :
              /\ file' = NoteFirstObservation(SetHistoryKey(file, k), disk)
              /\ \E done \in BackupOutcomes(snapshot) :
                   /\ versions' = BackedUp(k, done)
                   /\ provisional' = \/ ProvisionalAfter(k, done)
                                     \/ done # {} /\ Minted(file, k, disk)
        BY <1>1 DEF Serve
      <3> HIDE DEF snapshot
      <3>4. \A done \in BackupOutcomes(snapshot) : done \in SUBSET Content
        BY <3>2 DEF BackupOutcomes
      <3> QED BY <3>3, <3>4
    <2>2. file'.historyKey = "id"
      <3>1. SetHistoryKey(file, k) \in FileRecords /\ k \in Keys
        BY <1>f, <2>1, KeysType, FileOpsType DEF SetHistoryKey, FileRecords, Maybe
      <3>2. disk \in Content
        BY <1>1 DEF Serve, TypeOK, Maybe
      <3> QED BY <1>k, <2>1, <3>1, <3>2, FileOps
    <2>3. k \in Keys
      BY KeysType
    <2>4. Growing
      BY <2>1, <2>3 DEF TypeOK, BackedUp, ProvisionalAfter, Growing, Keys, Minted
    <2>5. proc' = "up" /\ token' /\ engaged' = engaged
      BY <1>1 DEF Serve
    <2> QED BY <1>f, <1>i, <2>2, <2>4, <2>5 DEF Growing, HistInv
  <1>2. CASE ListVersions
    <2>1. file' = file
      BY <1>2, <1>t DEF ListVersions
    <2> QED BY <1>2, <1>g, <2>1 DEF ListVersions, Growing
  <1>3. ASSUME NEW r \in Req, NEW m \in IfMatches, NEW b \in Bodies, NEW i \in Maybe(SaveIds),
               SaveRead(r, m, b, i)
        PROVE  Goal
    BY <1>3, <1>g DEF SaveRead, Growing
  <1>4. ASSUME NEW r \in Req, SaveNothingToWrite(r)
        PROVE  Goal
    BY <1>4, <1>g, <1>k DEF SaveNothingToWrite, Growing
  <1>5. ASSUME NEW r \in Req, SaveCheck(r)
        PROVE  Goal
    <2>1. req[r] \in Sections /\ req[r].read.data \in Content
      BY <1>5, InSection DEF SaveCheck, Sections, Reads
    <2>2. PICK k \in ResolvedKeys(file, req[r].body) :
            file' \in {SetHistoryKey(file, k),
                       NoteFirstObservation(SetHistoryKey(file, k), req[r].read.data)}
      BY <1>5 DEF SaveCheck
    <2>3. SetHistoryKey(file, k) \in FileRecords /\ k \in Keys
      BY <1>f, KeysType, FileOpsType DEF SetHistoryKey, FileRecords, Maybe
    <2>4. file'.historyKey = "id"
      BY <1>k, <2>1, <2>2, <2>3, FileOps
    <2>5. UNCHANGED <<store, proc, token, engaged>>
      BY <1>5 DEF SaveCheck
    <2> QED BY <1>g, <2>4, <2>5 DEF Growing
  <1>6. ASSUME NEW r \in Req, NEW m \in IfMatches, NEW b \in Bodies, DataRead(r, m, b)
        PROVE  Goal
    <2>1. file'.historyKey = "id"
      BY <1>6, <1>k DEF DataRead
    <2>2. UNCHANGED <<store, proc, token, engaged>>
      BY <1>6 DEF DataRead
    <2> QED BY <1>g, <2>1, <2>2 DEF Growing
  <1>7. ASSUME NEW r \in Req, NEW v \in Content, RestoreRead(r, v)
        PROVE  Goal
    <2>1. \A c : SetHistoryKey(file, KeyOf(c)) = file
      BY <1>7, <1>t DEF RestoreRead
    <2>2. file.historyKey \in Keys /\ file.historyKey # None
      BY <1>7, <1>f DEF RestoreRead, HistInv, FileRecords, Maybe
    <2>3. file' = file /\ \E done \in SUBSET Content :
            versions' = BackedUp(file.historyKey, done) /\ provisional' = ProvisionalAfter(file.historyKey, done)
      <3>1. PICK rd \in ReadOutcomes :
               LET keyed == IF rd.err = "none" THEN SetHistoryKey(file, KeyOf(rd.data)) ELSE file
                   key   == IF keyed.historyKey = None THEN "path" ELSE keyed.historyKey
                   safety == IF rd.err = "none" THEN {rd.data} ELSE {}
               IN  /\ file' = keyed
                   /\ \E done \in BackupOutcomes(safety) :
                        versions' = BackedUp(key, done) /\ provisional' = ProvisionalAfter(key, done)
        BY <1>7 DEF RestoreRead
      <3>2. (IF rd.err = "none" THEN SetHistoryKey(file, KeyOf(rd.data)) ELSE file) = file
        BY <2>1
      <3>3. rd.data \in Content
        BY ReadsType DEF Reads
      <3>4. (IF rd.err = "none" THEN {rd.data} ELSE {}) \in SUBSET Content
        BY <3>3
      <3> QED BY <2>2, <3>1, <3>2, <3>4, BackupType
    <2>4. Growing
      BY <2>2, <2>3, BackupGrows
    <2>5. UNCHANGED <<proc, token, engaged>>
      BY <1>7 DEF RestoreRead
    <2> QED BY <1>g, <2>3, <2>4, <2>5
  <1>8. ASSUME NEW r \in Req, Backups(r)
        PROVE  Goal
    <2>1. req[r] \in Sections /\ file.historyKey \in Keys
      BY <1>8, InSection DEF Backups, LockInv, TypeOK, Maybe
    <2>2. ToVersion(r) \subseteq Content
      BY <2>1 DEF ToVersion, PreWrite, Sections, Reads
    <2>3. \E done \in SUBSET Content :
            versions' = BackedUp(file.historyKey, done) /\ provisional' = ProvisionalAfter(file.historyKey, done)
      BY <1>8, <2>1, <2>2, BackupType DEF Backups
    <2>4. UNCHANGED <<file, proc, token, engaged>>
      BY <1>8 DEF Backups
    <2> QED BY <1>g, <2>1, <2>3, <2>4, BackupGrows
  <1>9. ASSUME NEW r \in Req, Rename(r)
        PROVE  Goal
    BY <1>9, <1>g DEF Rename, Growing
  <1>10. ASSUME NEW r \in Req, RenameFails(r)
        PROVE  Goal
    BY <1>10, <1>g DEF RenameFails, Growing
  <1>11. ASSUME NEW r \in Req, Commit(r)
        PROVE  Goal
    <2>1. req[r] \in Sections
      BY <1>11, InSection DEF Commit
    <2>2. file'.historyKey = file.historyKey
      BY <1>11, <1>f, <2>1, CommittedType DEF Commit
    <2>3. /\ UNCHANGED <<versions, proc, token>>
          /\ engaged' = (engaged \/ (file.historyKey = "id" /\ versions["id"] # {}))
          /\ provisional' = (provisional /\ file.historyKey # "id")
      BY <1>11 DEF Commit, ProvisionalAtCommit
    <2> QED BY <1>f, <2>2, <2>3 DEF HistInv
  <1>12. ASSUME NEW c \in Content, ExtWrite(c)
        PROVE  Goal
    BY <1>12 DEF ExtWrite, HistInv
  <1>13. CASE ExtDelete
    BY <1>13 DEF ExtDelete, HistInv
  <1>14. CASE WatcherPoll
    BY <1>14, <1>g DEF WatcherPoll, Growing
  <1>15. ASSUME NEW d \in BOOLEAN, WatcherConfirm(d)
        PROVE  Goal
    <2>1. pending \in Content /\ "id" \in Keys
      BY <1>15 DEF WatcherConfirm, TypeOK, Maybe, Keys
    <2>2. file'.historyKey = file.historyKey
      BY <1>15, <1>f, <2>1, FileOps DEF WatcherConfirm
    <2>3. Growing
      <3> DEFINE cs == IF file.historyKey = None THEN {} ELSE {pending}
                 k  == IF file.historyKey = None THEN "id" ELSE file.historyKey
      <3>1. CASE UNCHANGED store
        BY <3>1 DEF Growing
      <3>2. CASE \E done \in BackupOutcomes(cs) :
                   versions' = BackedUp(k, done) /\ provisional' = ProvisionalAfter(k, done)
        <4>1. cs \in SUBSET Content /\ k \in Keys
          BY <1>f, <2>1 DEF FileRecords, Maybe
        <4> HIDE DEF cs, k
        <4> QED BY <3>2, <4>1, BackupType, BackupGrows
      <3> QED BY <1>15, <3>1, <3>2 DEF WatcherConfirm
    <2>4. UNCHANGED <<proc, token, engaged>>
      BY <1>15 DEF WatcherConfirm
    <2> QED BY <1>g, <2>2, <2>3, <2>4
  <1>16. CASE Crash
    BY <1>16 DEF Crash, Stop, NewFile, HistInv, DocAssumption, Keys
  <1>17. CASE Start
    <2>1. file = NewFile /\ ~token
      BY <1>17 DEF Start, LifeInv, HistInv
    <2>2. UNCHANGED <<file, engaged>> /\ ~token' /\ proc' = "up"
      BY <1>17, <2>1 DEF Start
    <2>3. UNCHANGED store \/ provisional
      BY <1>17 DEF Start
    <2> QED BY <1>f, <2>1, <2>2, <2>3 DEF HistInv
  <1>18. CASE UNCHANGED vars
    BY <1>18 DEF vars, HistInv
  <1> QED
    BY <1>1, <1>2, <1>3, <1>4, <1>5, <1>6, <1>7, <1>8, <1>9, <1>10, <1>11,
       <1>12, <1>13, <1>14, <1>15, <1>16, <1>17, <1>18 DEF Next, Handoff, Maybe

\* The versions a person engaged stay listed and restorable, for every content and
\* every crash, when no update restart hands a token over and the store's index can
\* be read (ResolveIdentity): no handler works under the path key while an id
\* history exists, and PruneAll never reclaims what an acknowledged write stands on.
THEOREM EngagedHistoryKept ==
    ASSUME DocAssumption, ~HandoffOn, "resolve" \notin Faults
    PROVE  Spec => HistoryKept
  <1>1. Init => LifeInv /\ HistInv
    BY DEF Init, LifeInv, HistInv, NewFile, Idle, DocAssumption, Keys
  <1>2. TypeOK /\ LockInv /\ LifeInv /\ HistInv /\ [Next]_vars => (LifeInv /\ HistInv)'
    BY NextLife, NextHist
  <1>3. HistInv => (file.historyKey = "path" => versions["id"] = {})
    BY DEF HistInv
  <1>4. TypeOK /\ LockInv /\ LifeInv /\ HistInv /\ [Next]_vars
          => [engaged /\ versions["id"] # {} => versions'["id"] # {}]_vars
    BY NextHist
  <1> QED BY <1>1, <1>2, <1>3, <1>4, TypeCorrect, PTL DEF Spec, HistoryKept
=============================================================================
