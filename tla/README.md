# htmlclay, verified

htmlclay is a desktop program that lets HTML documents save themselves: a local
web server serves `.htmlclay` files from the user's disk, injects the ClayJS
runtime, takes back what the page saves, keeps every version, and tells every
open tab when the file changes. The user's own bytes are at stake, and four
kinds of actor touch them with no common lock: the pages' requests, the file
watcher, other programs on the machine, and the end of the process. The page
keeps a half of it that is no simpler: it decides when to save, what a refusal
or a silence of the host means, and when a newer file replaces what is on screen.

This directory holds TLA+ modules translated from the source, the TLC runs that
check them on small instances, and theorems checked by TLAPS.

- [Inventory](#inventory)
- [Modules](#modules)
- [DocStore](#docstore): correspondence, properties, runs, proofs
- [LiveHub and Feed](#livehub-and-feed): correspondence, properties, runs, proofs
- [Broker](#broker): correspondence, properties, runs, proofs
- [SharedSync](#sharedsync), [SavedReader](#savedreader), [SaveClient](#saveclient): the page's half
- [What the runs found](#what-the-runs-found)
- [What is not modelled](#what-is-not-modelled)
- [Plan](#plan)
- [Running it](#running-it)

## Inventory

Paths are relative to `src/internal/` or `src/`. `internal/server` is where requests
meet. Paths with * are the ClayJS sources of the newest bundled version,
`internal/clayruntime/assets/1.17.0/`; the bundles beside them (`clay.standalone.js`,
`server/*.cjs`, `m/`) are built from these and other sources of that directory.

| Component | State it keeps | Operations | Meets |
|---|---|---|---|
| Document store: `server/handlers.go`, `versions_routes.go`, `dataroutes_write.go` | the bytes on disk; `session.File` records (last write, last stable observation, history key, receipt, attribution flags); the file lock | serve, save, restore, data write, versions list | version store (backup before write), hub (publish after), watcher (record of own writes), session manager (token, provenance) |
| Version store: `versions/versions.go` | a directory of timestamped copies and a `meta.json` per history key, an identity index | Backup, HasHistory, ResolveIdentity, SetProvisional, PruneAll | called under the file lock by every route and by the watcher |
| Page-state sidecars: `versions/page_state.go` | two records per document, each of the bytes with one hash: the matching one and the candidate | prepare, settle, look up by file hash | save, restore, watcher |
| Live-sync hub: `server/livesync.go` | one sequence counter; per path an incarnation (anchor, two lane buckets); resume cursors; subscribers with bounded queues | add, remove, relay, broadcastSaved, publishExternalChange, acceptServerReplacement, markAbsent, expire, shutdown | coordinator, watcher, stream handlers, browsers |
| Stream coordinator: `server/stream_coordinator.go` | none of its own; a mutex over hub membership and watcher references | add, remove, evict, lease, unlease | hub, watcher |
| Watcher: `server/watcher.go` | reference count, stat fingerprint and pending candidate per path | watch, unwatch, check (poll), publishConfirmed, emptyPending, shutdown | reads disk, takes the file lock to publish |
| Shared worker: `server/sync-worker.js` | ports, subscriptions with a position and the latest frames each, one EventSource | subscribe, unsubscribe, rebuild, onCursor, onFrame, sweep | pages over ports; the shared stream route |
| Page stream: `src/sync/stream.js`* | its port or its own EventSource, resume position, "repair" and "startup" questions | open, suspend, resume, reopen, fall back to a direct stream | worker; live sync; the saved reader |
| Saved-page reader: `src/sync/saved-stream.js`* | one receipt (bytes, stamp, number), watermark, one GET with its discards, one deferred reason | take a frame, a cursor, a notice, a body; accept or repair; stop | page stream; the served page; the caller's `apply` |
| Page save client: `src/core/{save,save-core,etag,autosave,dirty-gate,autosave-scheduler}.js`* | what the host has, the stamp, the request on the wire, an unanswered save, the dirty gate, and per hold what it turned away | save, autosave, force, suspend, resume, hold, quiesce, flush, recover | the host's save and meta routes; live sync; clay.wire; mode lifecycle |
| Live-sync client: `src/sync/live-sync.js`* | baselines, held frames, two pending slots | apply, merge, answer a refusal, save after a merge | page stream, save client, merge engine |
| Mode lifecycle: `src/core/mode-{lifecycle,transition}.js`* | leases, one transition | enter, exit, refuse, commit | save client's session |
| Session manager: `session/session.go` | registered files, roots with provenance, token table | register, resolve, grant, revoke, release | every route; broker; folders |
| Read-permission broker: `server/broker.go` | parked readers, batch timer, one dialog at a time, remembered denials | await, flush, decide, suppress, shutdown | session manager; native dialogs |
| Document wire: `server/wire.go`, `cmd/htmlclay/wire_cli.go` | observers and handlers per document, retained envelopes, binding, leases | add, publish, transitionBinding, sweep, shutdown | helper programs; coordinator leases |
| Helper programs: `server/helper.go`, `helper/runner.go` | dispatcher per document, running requests, consent | attach, detach, askThenStart, run, cancel | wire; child processes |
| Sites, router, trusted folders: `cmd/htmlclay/{sites,router,folders,recovery,open}.go`, `trust/policy.go` | port per site, trusted folders in the config | route, trust, untrust, open | session manager, config, hub (DropSubscribers) |
| Configuration: `config/*.go` | one JSON file | load, change, save atomically | everything |
| Self-update: `update/*.go`, `cmd/htmlclay/{selfupdate,handoff,update_now,sparkle}.go` | update state file, handoff file, admitted writes | check, stage, drain, hand over, swap, supervise, roll back | session manager (tokens), server (admission) |
| Single instance: `platform/singleinstance*.go` | socket lock | TryLock, forward an open, take over | main |
| Uploads, export: `server/{upload,export}.go` | staged files | stream to a temporary file, rename | session roots |
| Pure text: `dataapi`, `pageadmission`, `htmlutil`, `clayruntime`, `tailwind`, `aiedit`, `specwire` | none | parse, select, rewrite, hash | the routes |
| Shell: `tray`, `platform` dialogs, `browser`, `logging` | none that matters | user interface | main |

What is hard in it:

- **Steps, not transactions.** A save is read, compare, resolve identity, back
  up, rename, record. Other programs write the file at any of these points, each
  step can fail, and the program can end between two of them.
- **Records that outlive what they describe.** The last write, the history key,
  a Save-ID receipt, "bytes from outside seen since", an anchor, a drop mark, a
  resume cursor: each is set in one handler and believed in another.
- **Two goroutines per subscriber.** A publisher evicts while the stream's own
  handler unwinds; shutdown falls between the hub's half and the watcher's.
- **A restart that keeps tokens.** An update restart hands the tabs' tokens to a
  process that has none of the records that went with them.
- **Bounded memory of the past.** Replay buckets, cursors and incarnations age
  out, overflow and are reaped while tabs are away.
- **Silence.** A save that times out may still be stored, before or after the page
  asks; a page that was hidden, suspended or throttled cannot tell what it missed.
- **Holds on holds.** An agent, a refusal, a preview and a closing session each turn
  saves away, each with its own memory of what it turned away.
- **Bodies that arrive late.** A GET is answered from one version of the file while
  frames of the next ones arrive.

What makes each component correct, in one line each:

- Document store: no write destroys the only copy of anything; a conditional
  write replaces what it named; what is said to the tab about a conflict is true.
- Version store: an engaged history is neither lost, orphaned nor reclaimed;
  two documents never share one.
- Hub: a tab sees its lane in order and skips an event only when told to; no
  frame reaches a page of another file; references balance; streams end.
- Watcher: an external change that lasts is told once; the host's own writes never.
- Broker: each parked reader is answered once, and only within what was granted.
- Worker and page stream: a visible page ends with every frame of each kind, once and
  in order; the one stream lists the documents that pages hold, and no others.
- Saved reader: the article never goes back, and ends at the file or says it did not.
- Save client: no edit is taken back, left behind unreported, or called saved when it
  is not.
- Session manager and folders: nothing registered through a root outlives it.
- Wire and helpers: one terminal answer per request; a lost envelope is announced.
- Update: one runnable program at every crash point; no admitted write is cut off.
- Single instance: one process owns the documents.

## Modules

| Module | Models | State |
|---|---|---|
| `DocStore` | one document's bytes, its `session.File` records, its two possible histories, every route that reads or writes it, external programs, the watcher as the records see it, crashes and update restarts | checked, its safety properties proved |
| `DocStoreProofs` | theorems about DocStore | proved |
| `MCDocStore` | TLC instances of DocStore | |
| `Feed` | abstract specification of live sync: events per lane, what each tab has | |
| `LiveHub` | the hub, the coordinator, the watcher's reference count, the stream writers, the browsers' reconnection; implements `Feed` | checked, with liveness; the refinement and four safety properties proved |
| `LiveHubProofs` | theorems about LiveHub: its books, its types and the order of its frames; what it replays: no foreign frame, no silent gap, and the refinement of `Feed` | proved |
| `MCLiveHub` | TLC instances of LiveHub | |
| `Broker` | one site's read-permission broker: held requests, the batch timer, dialogs of both pipelines, grants, shutdown and teardown | checked, its safety properties proved |
| `BrokerProofs` | theorems about Broker | proved |
| `MCBroker` | TLC instances of Broker | |
| `SharedSync` | the shared worker, its ports, the pages behind it with their suspension and reopening, and the host's side of the shared stream | checked, its safety properties proved |
| `SharedSyncProofs` | theorems about SharedSync: its books and the order of frames | proved |
| `CurrentProofs` | theorem about SharedSync: a visible page is current | proved |
| `MCSharedSync` | TLC instances of SharedSync | |
| `SavedReader` | the receive-only reader of the saved file with its frames, cursors and GETs | checked, with liveness; its safety properties proved |
| `SavedReaderProofs` | theorems about SavedReader | proved |
| `MCSavedReader` | TLC instances of SavedReader | |
| `SaveClient` | an editable page's two save lanes, holds, recovery and stamps, over a network that loses and delays and a host that forgets | checked, every safety property proved |
| `SaveClientProofs` | theorems about SaveClient | proved |
| `MCSaveClient` | TLC instances of SaveClient | |
| `Picking` | parts of a sequence, and sequences strung together, as recursive functions; used by LiveHub, SavedReader and SharedSync | |
| `PickingProofs` | what picking and stringing return, for every sequence | proved |

DocStore and LiveHub meet in two places: a write that renames the file is
`ServerReplace` in LiveHub, and the watcher's confirmed change is `WatcherConfirm`
in DocStore and `PublishExternal` in LiveHub; whether the latter reached anyone is
DocStore's parameter `delivered`. They are not composed into one state space: the
hub never reads a record of `session.File` and the store reads nothing of the hub
but that one answer. Broker meets neither: it decides what a page may read of other
files, through roots the document routes do not ask about.

The page's modules meet the host's at its routes. SaveClient's host is what DocStore's
`SaveCheck` and `Commit` promise: a conditional save is stored if its stamp names the
file and refused otherwise, and a receipt names the save of those bytes
(`ConditionalExact`, `ReceiptHonest`) or is missing. SharedSync's and SavedReader's host
is what LiveHub promises (`FeedSpec`): each stream gets its lane in order from its
position, or a resync.

Definitions named `Bug...` are plausible mistakes in the definition after them. No
specification uses them; `PROJECT.json` says which property catches each.

## DocStore

### Correspondence

| Model | Code |
|---|---|
| `disk` | the registered file's bytes; `None` when missing. A content stands for its bytes and its hash |
| `versions`, `provisional` | the two histories `versions.Key` can name for the document (its htmlclayid, or its path), and the provisional flag of `meta.json` |
| `file` | `session.File`: `lastServerWrite`, `lastStableObservation`, `historyKey`, `writtenHere`, `externalSinceOwnWrite`, the one Save-ID receipt; lost with the process |
| `lock`, `req` | `File.Lock` and the handler's position in its critical section, with what it was asked and what it read |
| `pending` | the watcher's unconfirmed candidate |
| `proc`, `token` | the process is up, down, or down with its tokens in the handoff file; some tab holds a token this process accepts |
| `Serve` | `serveRegistered`: key, first observation, first-open snapshot |
| `ListVersions` | `handleListVersions` with `historyKey` |
| `SaveRead`, `SaveNothingToWrite`, `SaveCheck` | `handleSave` up to its backups: read and If-Match judgment; the unchanged save; identity, first observation, stale test, truncation guard |
| `DataRead` | `writeApplied` up to its backups |
| `RestoreRead` | `handleRestoreVersion` up to its write, mandatory safety backup included |
| `Backups`, `Rename`, `RenameFails`, `Commit` | the commit sequence the three routes share, one action per durable step |
| `WatcherPoll`, `WatcherConfirm` | `check` as far as the candidate; `publishConfirmed` |
| `ExtWrite`, `ExtDelete` | other programs; they take no lock |
| `Crash`, `Handoff`, `Start` | the end of the process at any point; `writeUpdateHandoff`; `restoreUpdateHandoff` with `PruneAll` |

`ev`, `author`, `failed`, `stored`, `known`, `tabStored`, `sighted`, `engaged` are
history variables: what the last step did, who put the present bytes on disk,
which backups were tried and failed, and so on. No guard reads them.

A fault kind in `Faults` lets that I/O step fail: `read`, `backup`, `resolve`
(identity), `write` (before the rename), `sync` (after it).

The truncation guard reads the watcher's candidate while the poll goroutine may be
writing it, without the lock: a data race, modelled as either answer
(`EmptyPendingOutcomes`).

### Properties

| Property | Says | Why a test would hardly reach it |
|---|---|---|
| `NoLostBytes` | a save or restore that replaces what it read leaves those bytes in the history (or a backup of them was tried and failed) | depends on the stale flag, on which history exists, and on what failed and who wrote before |
| `RestoreKeepsBytes` | a restore has no such excuse | the failing step is in the middle |
| `AckedIsVersioned` | acknowledged bytes are in the history | needs failing backups, keys that differ between routes |
| `ConditionalExact` | a conditional write replaces the very bytes its stamp names, unless another program moved them after the comparison | two handlers, one stamp |
| `ReceiptHonest` | a Save-ID reported for the stored bytes is of a save of those bytes | needs restores, id-less saves and edits in between |
| `BlameHonest` | a refusal blames another tab only for bytes a tab of this run stored, and never once the tabs were told of an outside edit, even one undone since | data writes, restarts; an edit, its undoing, a poll for each, then a conflict |
| `StaleHonest` | a save acknowledged without the stale warning replaced bytes this run knew | restart with a live token |
| `OwnWriteNeverForeign` | the watcher never reports the host's own write | poll between rename and record |
| `HistoryKept` | no handler works under the path key while an id history exists, and startup never reclaims a history behind an acknowledged write | order of first requests; a crash between backup and flag |

### Runs

Three contents besides the empty file are enough for "what was there, what is
written, what somebody else wrote"; two handlers are enough because the lock admits
one at a time; two external edits give "edit, then undo"; two process runs give
every restart case; one or two writes, because a record survives at most from one
write to the next. `CHECK_DEADLOCK FALSE`: with the bounds used up the system has
nothing left to do.

| Run | Instance | Shows |
|---|---|---|
| `doc_records` | registration by folder trust alone, an update restart that keeps the token, failing identity resolution; plain and one kind of conditional save, a Save-ID, a history an earlier run left, two writes, two edits | `ConditionalExact`, `ReceiptHonest`, `OwnWriteNeverForeign`, `BlameHonest`, `StaleHonest` |
| `doc_faults` | a document with and without its id; failing reads, backups, renames, syncs; all stamps; two runs | `NoLostBytes`, `RestoreKeepsBytes`, `AckedIsVersioned`, `HistoryKept` |
| `doc_data` | see [findings](#what-the-runs-found) | a violation |

### Proofs (`DocStoreProofs`)

All theorems assume `DocAssumption` (the constants have the shapes the code
gives them) and hold for every set of contents, handlers, stamps, Save-IDs, faults,
earlier histories and for every bound; three assume more, as their rows say, because
the property fails otherwise (see [further behaviours](#further-behaviours)).

| Theorem | Inductive invariant | Argument |
|---|---|---|
| `TypeCorrect` | `TypeOK /\ LockInv` | `LockInv`: the handler in a section holds the lock, and a section that has reached its backups has a resolved key. Without it `Backups` would index `versions` by `None`. |
| `ConditionalWritesExact` | `CondInv` | from comparison to rename the stamp matches the bytes on disk unless the last author is an external program: only the lock holder renames, and the lock holder is the section itself |
| `OwnWritesSuppressed` | `LifeInv`, `OwnInv` | with no section between rename and commit, bytes written here are the last stable observation; between them they are that section's body, and the watcher waits for the lock |
| `RestoresKeepBytes` | `RestoreInv` | a restore that has reached its rename has what it read under the key it will commit with; the key cannot move because `SetHistoryKey` refuses to |
| `NoDocumentLost` | `LifeInv`, `KeepInv` with `SectionKept` | a token comes with a first observation, what this run believes to be the last write is kept, and a section that is not stale read exactly that. Assumes the registration is not by folder trust alone and there is no update restart |
| `AcknowledgedIsKept` | the same | the same, with the same two assumptions |
| `ReceiptsHonest` | `ReceiptInv` | the record of the last Save-ID always goes with the stamp of a save that was made |
| `BlamesHonest` | `BlameInv` | while `writtenHere` stands and no outside edit is noted, the last server write is a tab's, and nobody was told otherwise |
| `StaleWarningsHonest` | `StaleInv`, with `SectionsMove` | what the record calls the last server write is known, so a save that is not stale read something known |
| `EngagedHistoryKept` | `HistInv` | a token comes with a key, and that key is never the path's while the id history can be resolved. Assumes identity resolution does not fail and there is no update restart |

The last four rest on `RecordsMove`: a step commits a write, stops the process, or
leaves `session.File`'s records to the few ways `Moved` lists. Every property of
DocStore's passing runs is proved.

## LiveHub and Feed

### Correspondence

One document path. A hub call is one action, because `h.mu` covers it whole. What
the program does afterwards outside the mutex is an action of its own: the
coordinator's removal of an evicted subscriber (`Evict`), the handler's writes
(`WriteCursor`, `WriteFrame`) and its unwinding (`Finish`).

| Model | Code |
|---|---|
| `seq` | `h.seq`; the persisted high-water mark keeps it rising across restarts, so `Restart` raises it |
| `inc` | `incarnation`: anchor, and per lane the retained frames and `droppedThrough` |
| `cursors` | `resumeCursor` by resume id: its base, and whether `disconnectAt` is set (`away`) |
| `stream` | one connection: subscriber membership (`sub`), `streamEnd` (`stopped`), dropped by the coordinator (`removed`), an eviction owed (`evicting`), cursor frame, replay slice, queue |
| `refs`, `leases` | the watcher's reference count of the path; wire leases among them |
| `ino` | the identity `probeIdentity` reads |
| `conn`, `pos`, `seen` | the browser: its connection, its Last-Event-ID, and how far its content is complete |
| `stage` | `hub.shutdown` and `watcher.shutdown`, two steps |
| `Connect`, `ConnectClosed` | `streamCoordinator.add` = `hub.add` + `watcher.watch`; a closed hub |
| `Publish` | `nextSeq`, `retainLocked`, `enqueue`, in one hold of the mutex; `Relay`, `BroadcastSaved`, `PublishExternal` call it |
| `ServerReplace` | the rename of a save, with `acceptServerReplacement` |
| `MarkAbsent`, `Expire`, `Forget`, `DropInactive` | `markAbsent`; `expireLocked`; `dropGlobalOldestLocked`; the inactive-incarnation cap |
| `DropSubscribers`, `HubShutdown`, `WatcherShutdown`, `Restart` | revocation and the end of the process |

Abstractions: a frame is its sequence number, and "too large to retain" is a choice;
time is only what it makes happen; a generation number is compared only inside one
call, so it is "rolled in this call"; other documents show as `Forget` and
`DropInactive`; a tab behind a shared stream is a subscriber without a resume id,
with a queue of its own. `Happens` selects which events of the environment an
instance lets happen. "early" lets a connection break before its cursor frame is
out.

`relay`, `broadcastSaved`, `notifyWarning` and `acceptServerReplacement` do not ask
whether the hub is closed; only `publishExternalChange` does. A relay after
shutdown makes an incarnation again. Nothing is delivered, and the model keeps it.

### Properties

| Property | Says |
|---|---|
| `NoSilentGap` | whatever a connected tab lacks of its lane is on its way to it, unless it was told to fetch the page |
| `FeedSpec` | LiveHub implements `Feed` (`now <- seq`): each tab gets the next event of its lane, never a later one, or refetches |
| `WellFormed` | types and caps, and what a connection still has to write goes up and starts above its cursor frame |
| `LatestReached` | after frames, cursors and incarnations have aged out, a returning tab ends with the newest event or is told; where the file is never momentarily absent (see [findings](#what-the-runs-found)) |
| `NoForeignReplay` | no frame of an earlier file is replayed onto the one that replaced it |
| `RefsBalanced` | the reference count is the streams the coordinator holds plus the leases |
| `ClosedHasNoSubs` | a closed hub delivers to nobody, and every connection it has is stopped |
| `CaughtUp` | once events and failures stop, a tab that joined catches up |
| `StoppedEnds` | a stopped stream ends |

### Fairness

`FairSpec` assumes weak fairness of `WriteCursor`, `WriteFrame`, `Finish` and
`Evict` for each stream: each stream's handler is a goroutine that loops over its
select with a write deadline, and a publisher calls `evict` before it returns. It
assumes weak fairness of `Connect` for each tab: a browser reopens an
`EventSource`. Nothing is assumed of publishers, other programs, failures, expiry or
shutdown.

### Runs

| Run | Instance | Shows |
|---|---|---|
| `hub_replay` | a live and a saved tab, three connections, buckets and queues of one frame, large frames, global eviction, a broken connection | `WellFormed`, `NoSilentGap`, `FeedSpec` |
| `hub_ends` | one tab, two connections, three file identities, in three scenarios. Ends: eviction, revocation and lease while the file is replaced, deleted, recreated and saved over. Closes: the same with shutdown in two halves, one frame fewer. Ages: a tab of a shared stream; expiry, reaping, restart, unreadable probes; no "early" | `RefsBalanced`, `ClosedHasNoSubs`, `NoForeignReplay`, `LatestReached` |
| `hub_live` | one tab, revocation, eviction, a broken connection; `FairSpec` | `CaughtUp`, `StoppedEnds` |
| `hub_absent` | see below | a violation |

What an instance lets happen is a scenario, a record chosen once (`plan`): which events
of the environment, which tabs share a stream, how many events, how many broken
connections. The bounds: with a bucket of one or two frames and a queue of one, the
second or third event already overflows both; two connections are an old one that has
not unwound and its successor, the third is another tab's. `Streams` and `Inos` are
symmetric, except in the liveness run, where no symmetry is used. `hub_replay` leaves out
replacement and expiry; of `hub_ends`, the first two scenarios leave out expiry and the third
"early": with them the properties fail, see [further behaviours](#further-behaviours).
`CHECK_DEADLOCK FALSE`: a closed hub with its bounds used up may stop.

### Proofs (`LiveHubProofs`, `PickingProofs`)

All assume `HubAssumption`, so they hold for every set of tabs, streams and identities,
every scenario and every cap. Two add a hypothesis on what happens to the path; each is
as weak as the code allows, and the last column says what breaks without it.

| Theorem | Inductive invariant | Hypothesis |
|---|---|---|
| `ReferencesBalanced` | `BooksInv` | none |
| `ClosedHubSilent` | `BooksInv` | none |
| `HubWellFormed` | `Tidy` | none |
| `ForeignNeverReplayed` | `Tidy`, `ForeignInv` | `Remembers`: no "expire", "restart" or "unreadable". A record made by a publish has no anchor and adopts whatever file is there next; so does one whose file could not be probed (see [further behaviours](#further-behaviours)) |
| `NoGap`, `HubFeeds` | `Tidy`, `GapInv` | `Steady`: nor "absent" (the finding) nor "replace" (the next tab after the one that rolls a generation is not told); behind a shared stream neither "forget" nor "big", which lose frames a tab without a cursor is not told of |

`ReferencesBalanced`: a stream the coordinator holds is used and not removed; a step
adds one such stream and one reference, drops as many of each, or (the watcher's
shutdown) drops all; the count goes with `Cardinality` of a finite set. `ClosedHubSilent`:
closing stops every connection in the step that drops its membership, and nothing joins
a closed hub. `HubMoves` classifies the steps once, by what they do to the books.

`HubWellFormed`: every bucket, slice and queue is a `Line`, an increasing sequence of
numbers up to `seq`, and a connection's cursor, slice and queue lie one above the other.
`Tidy` is that, with `BooksInv` and the types. `PickingProofs` has what the proofs need
of lines: what `Pick`, `Append`, `Tail` and `SubSeq` make of one. `Pick` is a recursive
function, and its lemma `PickLists` is proved by the least number at which it fails: the
library's induction theorems take an operator and so cannot be used, but its theorem that
the natural numbers are well-founded takes a set.

`ForeignNeverReplayed`: frames of an earlier file may stay in a bucket, as the server's
own replacement keeps them, but `OldIsPast`: every tab's resume point, cursor and
unwritten frames are already past them. A record without an anchor exists only before
the first tab.

`NoGap`: what a tab lacks is in one of three places. `Covered`: for a tab with a cursor,
each missed frame is in the bucket or below its drop mark, so that the next `Connect`
replays it or says resync. `Placed`: what the server believes the tab has is never above
what it has. `Served`: what a connection took over is in its slice or queue, or the
connection has lost its membership with everything after it. The step lemmas say for
each action which of the three moves a frame to which. `NoSilentGap` as checked is about
members only, and is not inductive: a connection that a shutdown or an eviction has cut
off has a gap, always at the end of what it will write, which `OnItsWay` allows for.
`HubFeeds` shows with the same invariant that each step of LiveHub is one of `Feed` or
changes nothing that Feed sees.

Model-checked only: `LatestReached`, which is what is left of `NoSilentGap` when records
age out, and which fails beyond one tab at a time (see
[further behaviours](#further-behaviours)), and the two liveness properties.

## Broker

### Correspondence

One site: its broker, the read roots of its session manager, requests that miss
every root, and the callers of `runPrompt` (open and trust requests). Code that
holds `b.mu` is one action; what follows outside it is one of its own wherever
somebody else can see the difference: the dialog, the wait for it, the wait for an
answer, `removeWaiter`.

| Model | Code |
|---|---|
| `Nodes`, `Home`, `Above`, `Real` | files and folders under the home directory; the folders above each; where a name leads once `EvalSymlinks` has resolved it |
| `waiters`, `arrival`, `suppressed`, `prompting`, `closed` | the broker's fields; the slice of waiters is a set with the order of parking |
| `timer`, `flushes` | `b.timer` (absent, ticking, fired and not yet cleared), and calls of `flush` on their way to the lock. `flush` clears the field whichever timer it holds, so a reset timer goes on ticking with nobody able to stop it |
| `pc`, `want`, `ch` | each request: where it is, its path, the answer on its channel of one |
| `dialog` | the grant prompt: asked, granted (the group is awake, the sweep is to come), done |
| `caller` | `runPrompt` callers |
| `opened`, `granted`, `revoked` | `Manager.readRoots` by provenance; `RevokeAll` |
| `Miss`, `AwaitDenied`, `AwaitCovered`, `AwaitParks`, `Receive`, `GiveUp`, `removeWaiter` | `serveAsset` and `await` |
| `Fire`, `FlushIdle`, `FlushAllSuppressed`, `FlushUngrantable`, `FlushAsks` | the timer; `flush` by its returns |
| `Refuse`, `GrantFails`, `Grant`, `WakeCovered`, `Decided` | `decide`, and the end of `flush` |
| `PromptWaits`, `PromptRefused`, `PromptStarts`, `PromptDone` | `runPrompt` |
| `Open`, `RevokeReadRoot`, `shutdown`, `RevokeAll` | what happens around it; `RevokeAll` after the broker's shutdown, the order of `site.close` |

Abstractions: time is only what it makes happen, so a ticking timer may fire, a
deadline pass or a batch be too old to extend at any moment. Sends that follow an
unlock (`denyAll`) are part of the step that takes their waiters out of the queue:
nobody else can reach those waiters any more. Letter case is exact. The file system
does not change under `Real`, but opening a folder may fail. The trusted root that
"Trust This Folder" may add, and the tray's list of grants, are left out.

### Properties

| Property | Says |
|---|---|
| `OneDialog` | one native dialog at a time, of whichever pipeline, and `prompting` says exactly that one is up |
| `AnsweredOnce` | nobody who will still be answered has been (a second send would block `flush` or `shutdown`), and a request held open is in the queue, in the dialog's group, or answered |
| `QueueWatched` | while requests are parked, a dialog, a timer or a running `flush` will look at them; after shutdown nobody is parked |
| `RevokedHoldsNothing` | after `RevokeAll` no root comes back, dialogs that outlive it included |
| `NeverAskedAgain` | no dialog is raised for a request at or under a folder that was refused, even one that parked during that dialog |
| `OnlyAllowed` | who is let through is under a folder the user opened or allowed, by name or by where it leads |
| `EveryRequestEnds`, `EveryPromptEnds` | every held request, and every waiting caller of `runPrompt`, is let go |

### Fairness

`FairSpec` assumes weak fairness of the timer, of `flush` and `decide`, of a
request's return from its select, and of the `runPrompt` callers: goroutines and
timers run, and a dialog gives up by itself after 120 seconds. `EveryRequestEnds`
assumes nothing of `brokerParkMax` or of the client, so the queue empties without
either. One disjunction covers the ways out of `promptDone.Wait`: a caller that wakes
to find another dialog up waits again. `EveryPromptEnds` holds because an instance has
finitely many dialogs; `sync.Cond` promises no order, and a page that always has
another dialog could keep a caller waiting.

### Runs

| Run | Instance | Shows |
|---|---|---|
| `broker_gate` | three requests for a file in a folder, in a folder inside it, and behind a link to that one; a queue of two; one other dialog; deadlines and shutdown | `OneDialog`, `AnsweredOnce`, `QueueWatched`, `NeverAskedAgain`, `OnlyAllowed` |
| `broker_live` | two requests, one in a folder that cannot be granted; opens, an untrust, deadlines, shutdown, teardown; `FairSpec` | `RevokedHoldsNothing`, `EveryRequestEnds`, `EveryPromptEnds` |

Two requests are a group or two groups; the third parks while the dialog for the
others is up, or meets the full queue. Requests are symmetric in `broker_gate` only.
`CHECK_DEADLOCK FALSE`: every request misses once, then the system may rest.

### Proofs (`BrokerProofs`)

From `TreeAssumption` (the folders form a tree with a deepest common folder for every
set) and `SiteAssumption` (the constants' shapes; finitely many requests), for any
tree, links, requests, callers and cap.

| Theorem | Inductive invariant | Argument |
|---|---|---|
| `TypeCorrect` | `Typed`, `Capped` | a request that has left "idle" has a path, and a dialog past "none" has a folder; without this `commonDir` and `Real` are applied to `None`. The cap counts a finite set |
| `DialogsSerialized` | `OneDialog` | inductive by itself: both pipelines take the flag under the lock |
| `QueueNeverStranded` | `QueueWatched` | each way out of `flush` and of a dialog re-arms or leaves the queue empty; a fired timer that was not cleared still has its `flush` to come |
| `OneAnswerEach` | `Places` | queue, group and answered are disjoint, and a request that never parked is in none |
| `OnlyWhatTheUserAllowed`, `SettledNotAskedAgain`, `TornDownHoldsNothing` | `Permission` with `Agreed` | roots are allowed folders; the dialog's folder is above every member of its group (`CommonDir`), and outside everything suppressed because each flush filters its queue first |

Model-checked only: `EveryRequestEnds`, `EveryPromptEnds`.

## SharedSync

### Correspondence

One origin: its shared worker, two pages that may show the same document or two, and
the host's shared stream. Worker, page and host share only queues, so every message
handler and timer is one action; what a handler sends joins the ports when it returns.

| Model | Code |
|---|---|
| `w.meta`, `w.subs` | the worker's `portMeta` and `subs`: visibility, last number seen and first cursor per port; position, latest frame of each kind, `needsResync`, ports per document |
| `w.stream`, `w.rebuild`, `w.reconnect` | the one EventSource with the records it lists, and the two timers that open it again |
| `port` | a MessagePort pair: `up` to the worker, `down` to the page, closed by the page |
| `page` | a `SyncStream` behind the worker: hidden, resume position, `repair` and `startup`, ready; `got[k]` is how far it is complete for kind `k` |
| `Start`, `Hide`, `Show`, `Suspend`, `Resume`, `Reopen`, `GoDirect`, `Close`, `Kill` | the page's side: opening, visibility, suspension and return, a new port after unanswered pings, the fall-back to a direct stream, the ends |
| `Hear` | `_onPortMessage`: status, cursor, frame, gone |
| `Handle` | `handle`: connect, subscribe, unsubscribe, visible, hidden |
| `Sweep`, `Rebuild`, `Break` | the sweep of silent ports; `rebuild`; `onerror` |
| `Listen` with `TakeEvent` | `onCursor`, `onFrame`, an entry's error |
| `Accept`, `Publish` | `handleSharedSyncStream` registering every entry before it answers; a publish. The stream is LiveHub's; here a position is answered with all that was missed, or with a resync |

A page's connection, its visibility and its subscription are one message: until the
third a port hears nothing but status. Pings are `Lost`: a page whose port the worker
dropped gets no answer. `MaxBehind` lets the worker take an event of the stream only
while no page has a message waiting; pages still lag behind each other's actions.

### Properties

| Property | Says |
|---|---|
| `BooksAgree` | a document the worker holds is held by exactly the ports subscribed to it; while no rebuild is due the stream lists what the worker holds; a page that listens is its port's page; types |
| `NoRepeatOnPort` | the frames on their way to a page go up and are newer than the last one on its port |
| `VisibleIsCurrent` | a visible page that nothing is on its way to has the newest frame of each kind or was told to fetch after it, and takes the stream for open |
| `RestsWhenServed` | when no step of the system itself is left, every visible page is current and the worker holds no document without a live page |

`RestsWhenServed` stands for the liveness property: `System` is the disjunction of what
happens by itself, and a state where it is not enabled is where a fair behaviour may
rest. With the finitely many events an instance has, every fair behaviour comes to rest,
so the invariant says what `<>[]` would, at an invariant's cost.

### Run

`sync_pages`: two pages, together or apart, three ports, a cap of one or two documents,
two published frames of either kind under a cap of one and one under two, one event of
the environment besides what pages do by themselves. Three ports are each page's own and the one it opens again; one event
(a break, a refused document, a hidden, suspended, throttled or killed page) is each of
the cases the worker has code for, against every interleaving of the messages.
`CHECK_DEADLOCK FALSE`: a served page may rest.

### Proofs (`SharedSyncProofs`, `CurrentProofs`)

The three theorems, `BooksAlwaysAgree`, `FramesNeverRepeat` and `VisibleAlwaysCurrent`,
assume only `SyncAssumption`: any pages and placements, documents, ports, kinds and caps,
and any number of frames, breaks and refusals. Each rests on the invariant of the one
before: `BooksInv`, `OrderInv`, `CurrentInv`. `BooksAgree` is not
inductive: what a handler does is right only for messages a port can carry, and a port's
messages are right only for what the pages may still send. `BooksInv` adds that.

| Part | Says | Why it is needed |
|---|---|---|
| `PagesOK`, `PortOK` | a page listens through its own open port; a connection is the first message of its port, and until it is handled the worker neither knows the port nor has sent it anything; a port nobody holds is empty | a port that connects twice, or whose connection overtakes its unsubscribing, would be subscribed to a document nobody shows |
| `LogOK` | what was published is frames of documents with rising numbers up to the counter | the host answers with parts of it |
| `Books` | of the worker alone: the ports of a document are those whose record names it (`Holders`), no document is without one, the cap, the stream lists no more than is open (`StreamOK`) and exactly that while nothing is due (`Listed`) | `SubsMatchPorts` and `StreamListsAll`; an event for a document that has been given up is dropped because the stream's list went down with it |

Each operator on the worker has a lemma of what it returns (`...Facts`) and one that it
keeps `Books` (`...Books`); `WorkerStep` puts a handler together with what the ports get
when it returns, `PageStep` a page's step with its port. A page that suspends, closes or
reopens hangs up on one port and dials on another, so the step lemmas speak of the port
given up and the port taken apart. What the host's answer is made of, and what is repeated
to a port that is visible again, is a sequence strung together in an order the model leaves
open (`Strung`); `PickingProofs` proves once what such a sequence holds and in which order.

`FramesNeverRepeat` needs an order that reaches from the host's counter to what a page
has read, because a frame passes three queues and a worker that may repeat it: nothing in a
port's own queue forbids a second copy. `OrderInv`, over `BooksInv`, says it for each stage;
TLC found it to hold on the instance of `sync_pages` before it was proved.

| Part | Says | Why it is needed |
|---|---|---|
| `StreamOrder` | events of one document come in a stream with its answer first and then rising numbers (`Following`), none beyond the host's counter; an answered document's frames are newer than the worker's position of it, or its answer is still due (`EntryOrder`) | a rebuilt stream replays from a position: a frame must not come from the old stream and from the new one |
| `SubOrder` | the latest frames kept of a document are not beyond its position, no two kinds share a number, and no port has seen more than the position | what a port that shows again is repeated is newer than all it was sent |
| `PortOrder` | the frames on their way to a page rise (`Rising`), and the worker has noted them as seen | the next frame, or the next repetition, is later than they are |
| `PageOrder` | the frames a page has yet to read are later than the last it read; a page that is still connecting has read none; a page's position is not beyond the counter | a reopened port starts afresh, and `Lowered` takes no position the host never gave |

A handler keeps the order when what it sends a port (`Shows`) rises, is past what the
worker's record said that port had seen and is noted in its new record; `WorkerOrder` says
so once for all handlers, `HostOrder` for what the host writes, `PageStepOrder` for the
pages' steps.

`VisibleIsCurrent` speaks of pages nothing is on its way to, so every step before that is
about what is on its way and what it will do. `CurrentInv` says it for every page on a
port, hidden ones and those with full queues too; TLC found it to hold on the instance of
`sync_pages` before it was proved.

| Part | Says | Why it is needed |
|---|---|---|
| `Answering` | a stream that was answered is known to the worker as open, or the event that says so is in its queue | a page takes the stream for open only after the worker does |
| `Readily` | a page whose worker has an open stream takes it for open, or the last status on its way says so | a status is sent when the state changes and when a port connects, never again |
| `Visibly` | of a visible page: whoever said "hidden" says "visible" after it (`Reappears`), and the worker knows it as visible or has the word still to read | a page that shows is repeated what it missed only when that word is handled |
| `Phased` | a page asks for a whole document (`Asking`: `repair` or `startup`) until its first cursor is read; its record has that cursor marked sent exactly when the document is open | the cursor that makes a page whole is sent once: by the document's answer, or at once by a worker that has it |
| `Complete` | each frame published of the document of a page that asks for nothing is one it has (`got`), or is carried to it by its port's queue or overtaken there by a later one of its kind or a resync (`Carries`), kept for it while it is hidden (`KeptFor`), or still to come to the worker (`Coming`: newer than the worker's position, and in the queue of a stream that was answered for it, unless an error or a resync is) | this is where a frame would be lost: at a break, a rebuild, a host that no longer has it, a resume, a sweep, a page that hides or suspends |

A page that is away or suspended asks when it comes back, so nothing need reach it. Every
handler is described once by what it leaves in the page's record and sends it (`Agrees`,
and `Greeted` for a connection): `GoesOn` says that such a step leaves the page attended
to, `StaysAttended` that a step which does not touch it does. `Mild` is a handler of one
port, `Shortened` an event read from the stream, `Hearing` a message read by a page.

`RestsWhenServed` says `ENABLED` and stays with TLC.

## SavedReader

### Correspondence

One reader of one file, with the handlers as actions over the closure's variables.

| Model | Code |
|---|---|
| `rd.receipt`, `matched`, `watermark`, `discards`, `job`, `pending`, `paused` | the variables of `followSaved`: the receipt (bytes, stamp, number), whether the stamps agreed, the highest number seen, discarded bodies, the GET on its way, the reason waiting, the wait for a connection |
| `Opened`, `TakeCursor`, `TakeFrame`, `TakeNotice` | `onOpen`, `onCursor`, `onMessage`, `onNotification` |
| `ReadBody`, `TakeBody`, `FailBody` | `runRepair`: the host reads the file, the body arrives, or the GET fails |
| `Stop` | `stop` |
| `Write`, `Announce`, `OtherLane` | the file changes; the saved lane publishes it, with bytes or without; other lanes take numbers |
| `since`, `Connect`, `Break` | `SyncStream`'s direct connection: the browser's last event id, with which it reconnects; a first connection starts at the counter; a later one gets what was published since, or a resync when the host no longer knows |

`stamped` says which of frames and bodies the host stamps; this host stamps bodies only.
`at`, `warned`, `forced` are history: the version on screen, whether "recoverable" is the
last thing reported, whether the body on screen was applied past its second discard.

### Properties

| Property | Says |
|---|---|
| `QuietShowsFile` | when nothing is on its way, the article shows the file, or the reader was told otherwise |
| `ReceiptSound` | the stamp on the receipt names its bytes and its number is one the article covers (a forced body apart); types |
| `NeverRewinds` | where frames and bodies are stamped and no text returns, the article never goes back |
| `EndsAtFile` | when the file stops changing the reader ends at it, or has said that it does not |

`FairSpec` assumes weak fairness of `Announce` (the host's save path and watcher),
`Connect` (a stream reconnects by itself), the four deliveries, and `ReadBody` and
`TakeBody` (a GET is answered or, with "fail", fails). Nothing is assumed of writers,
breaks or failures.

### Run

`reader_follows`: every stamping, three versions of the file of which the third may read
as the first, one number taken by another lane, one broken connection, one failed GET or
refused snapshot, a stop. Two changes after the first body are a body overtaken once and
one overtaken twice, the limit of `discards`. `CHECK_DEADLOCK FALSE`: a reader that is
stopped may rest.

### Proofs (`SavedReaderProofs`)

`ReceiptTrue`, `RestsAtFile` and `NoRewind` assume nothing but the constants' types
(`ReaderAssumption`): they hold for every history of the file, every stamping, and any
number of versions, breaks, failures and refusals. All three rest on one invariant,
`TypeOK /\ Whole`, in four parts.

| Part | Says | Why it is needed |
|---|---|---|
| `LogOK` | numbers of the saved lane rise, versions do not fall, and the last names the file once the host has told | `NeverRewinds` compares versions, the code compares numbers |
| `Sound` | of the reader's record: the stamp names the bytes, the receipt's number is covered (`Claims`), a matched receipt is some publication's (`Placed`), and a body nothing arrived under is at least as new as the article and as all that arrived (`FreshRead`) | an accepted body claims the watermark, and a frame is dropped for being at or under the receipt |
| `WireOK` | open, then the cursor, then publications with rising numbers past the browser's last event id, with the newest behind any other | a reconnect resumes at that id |
| `Following` | once the host has told everything, the newest publication is `Coming` (on the wire, or behind a resync, or above where the next connection resumes) or the reader has `Caught` up: owes a GET, was told, or shows the file | `QuietShowsFile` is this when nothing is on its way |

Each operator on the record has a lemma of what it keeps (`Goes`), and each
action one that puts them together with the wire. `EndsAtFile` stays with TLC: it is
liveness.

## SaveClient

### Correspondence

One editable page. A document reads `[mine, theirs]`: how many of this tab's edits it
holds and which of the other writers' versions it was made from; its stamp is what it
reads. Handlers are actions over `p`, built from operators that follow the call tree.

| Model | Code |
|---|---|
| `p.saved`, `p.stamp`, `p.dirty`, `p.touched` | `lastSaved` content, `etag.js`, the dirty gate and its clear-if-unchanged |
| `p.job`, `p.unknown` | `saveInProgress` with what the request carried; the save whose outcome a timeout left open |
| `p.pendingSave`, `pendingAutosave`, `autosaveSuspended`, `autosaveMissed`, `previewHold` and its memories, `quiesced` and `parked...`, `conflictHold`, `conflictEtag` | the holds of `save.js` and `autosave.js` and what each turned away |
| `p.due`, `running`, `trail`, `recent`, `soon` | the autosave scheduler, the throttle's trailing edge and window, the `savePageSoon` timer |
| `Explicit`, `Automatic`, `SavePageForce`, `Throttled` | `savePage`, `autosavePage`, `savePageForce`, `savePageThrottled` |
| `Answered`, `LateDuplicate`, `Recovered`, `Resend` | `sendSave`, `sendOnce`, `recoverUnknownSave`: a 412 over this tab's own save, proof of landing, the re-send under the first stamp; a save that went out without one is not sent again |
| `SeedEtag`, `Seeded`, `Overwrite` | `saveOverwritingConflict` with `seedEtag({fresh: true})`: the host is asked for its stamp and the save is forced under it. A bare answer (the host cannot be reached, or names no stamp) clears the stamp, and the save goes out with no `If-Match`; a stamp taken while the question was out stands |
| `Succeeded`, `Failed`, `Refused`, `DrainPendingSave` | `applySaveResult`, the conflict hold, the drain |
| `Applied`, `Sync` | live sync taking a version: replace a clean page, merge into a dirty one and save the merge, answer a refusal |
| `HoldSaving`, `HoldAllSaves`, `Quiesce`, `FlushBytes`, `Resume` | clay.wire's hold, a preview, an exit that is refused |
| `Store`, `Refuse`, `Lose`, `Other`, `Forget` | a conforming host (DocStore's promises; a save without a stamp is stored over whatever is there), the network, other writers, a host without its receipt |

`rewound`, and in `p` `landed`, `missing`, `broke`, `consent`, `chosen`, `failed` and
`parkedAt`, are histories. `consent` is what a person chose to overwrite: another writer's
version, or `None` for whichever a save without a stamp finds; `chosen` has the Save-ID of
each such save. `rewound` says that a save without a stamp was stored over a later edit of
this tab: one that failed or timed out and was stored after the next.

### Properties

| Property | Says |
|---|---|
| `SavedMeansStored` | a save reported saved is one whose bytes the host stored, whatever was lost, delayed or forgotten |
| `FileKeepsEdits` | no save under a stamp takes the file back: over no edit of this tab, and over no version of another writer but one a person chose to overwrite. None without a stamp is stored before a person chose to overwrite and the host named no version |
| `GateNeverUnderReports` | a page whose gate says clean holds no edit the file lacks |
| `HoldsAgree` | autosave is suspended exactly as often as it is held; one request at a time; types |
| `RestsSaved` | when every timer, request and frame is done and nothing holds saving or failed, every edit is in the file |
| `HeldOverAnother` | a refusal over the version whose stamp the page holds is answered, whichever of the 412 and the frame came first |

`GateNeverUnderReports` and `RestsSaved` leave out a file that was `rewound`, and
`FileKeepsEdits` what happens after it: the page has accounted for an edit that a late save
without a stamp took out of the file again. Stamps are what prevents that, and a person
waived them; without the exclusion both fail (see [further behaviours](#further-behaviours)).

### Run

`save_lanes`: eight scenarios, each a set of events that meet (an agent's hold with other
writers; a preview with timers and an agent; an exit with other writers; timeouts and a
host that forgets with other writers, and with explicit saves; timeouts with errors; an
overwrite that may go out without a stamp, with explicit saves and a failure, and with a
timeout). Two edits are one on the wire and one behind it, two versions one that refuses
and one that overtakes it, two explicit saves one and its queued successor, two faults a
timeout and the failure of what recovers from it. The last two scenarios have one fault: a
save without a stamp that is late needs an edit after it, a refusal a version, and
what the late save then replaces a second. `CHECK_DEADLOCK FALSE`: a page that is saved
may rest.

The scenarios keep four of the code's ways to leave an edit behind apart (typing into a
closed session, a preview over one, a throttled attempt under a hold, work parked and then
saved in part): with them properties fail, see [further behaviours](#further-behaviours).

### Proofs (`SaveClientProofs`)

All but `EditsReplayed` assume only `SaveAssumption`: they hold for every scenario and every
bound on edits, other writers' versions, saves and faults. `EditsReplayed` also assumes
`Apart`: no scenario has an exit beside typing into the closed session or beside a preview.
Either one loses an edit, on the instances `ExitRefused` and `HeldThenExit` of the
[further behaviours](#further-behaviours): the hypothesis is what the property needs and no
more. The second was met as the step of the proof that would not go through, and then
found by TLC.

| Theorem | Inductive invariant | Argument |
|---|---|---|
| `SavedIsStored` | `SaveInv`: `Lane`, `NetOf` | a request that carries the Save-ID of the save on the wire carries its bytes; only the newest request is waited for, and only while no answer is there; so an answer that proves the save (`Proves`) comes after the host stored those bytes. Ids are never used twice, so a late request cannot prove a later save |
| `HoldsAreCounted` | `SaveInv`: `Counted` | a hold that is given up takes one suspension with it before anything is replayed (`ResumeCounts`), and a refusal over a refusal takes none |
| `EditsKept` | `SaveInv`: `Read`, `NetReads`, `World`, `Behind` | the host stores a save with a stamp only over the very document it names, so it is enough that the text of every request covers its stamp (`Covers`): holds all of its edits, and its version unless a person chose to overwrite that one; and that a request has no stamp only once a person chose to overwrite whatever is there. A page only takes the stamp of a document it reads at least as much as: the answer to a save of its own, or the frame it merges (`AnswerCovered`, `StampKeeps`); the stamp that is forced, or its absence, is the one a person chose. A frame on its way is about the file as it is (`World`) and the page has not seen it (`Behind`), so a save can only be stored over it by that choice |
| `GateHonest` | `SaveInv`: `Read` | the gate is cleared by a save that ended with nothing touched since it was sent (`Wired`), by a page that reads as what was saved, or by the frame that replaces it; what was saved is never ahead of the file, unless it was `rewound` |
| `EditsReplayed` | `SaveInv` and `RestInv`: `Tended` | a page with unsaved work remembers it (`Minded`): by what stands until it is replayed (`Stands`: the scheduler's request, the throttle's trailing edge, the memory of a hold that is up), by what waits for the save on the wire (`Waits`), or by a save on the wire that carries all of it; or no save is on the wire and the page is told (`Told`: the failure, the parked work, the refusal). Of a successful save only what was typed behind it is left (`Drains`), and the drain turns what waited into a save, a request, or a memory of what holds it. So at rest, unheld and untold, nothing is unsaved, and `Read` makes the file hold it, unless it was `rewound` |
| `RefusalsAnswered` | `SaveInv` and `HeldInv`: `Calm` | until a fault or a person's choice: a save goes out under the page's stamp, and nothing else is under way (`Posted`); and while the file is this tab's own, no frame is coming and the page has its stamp or the answer that brings it (`Agrees`). So no 412 is over this tab's own save, a refusal leaves a hold only over another stamp, and the one that then comes to hold that stamp, a merge or a save, gives up the hold (`ResolvedSettles`, `SucceededSettles`) |

The operators over the page are proved one by one, in the order of the module: `Keeps` is
what each promises of the page it is given, `Ends` what the end of a save promises, and
`Moves` what the network's half of the invariant needs of either. `Reads` says that an
operator leaves the page as sound over the file as it was (`Read`), and `Grows` that a
handler which types, merges or overwrites does. `NetOf` and `NetReads` are needed because
the properties say nothing of requests still under way: one that was abandoned may be
stored long after. `Sound` puts the halves together: the lane's (`Lane`, `Counted`,
`NetOf`) holds always, the reading's (`Read`, `NetReads`) until the file is `rewound`,
which takes a person's choice (`None` in `consent`). TLC found `SaveInv` to hold on
small instances before it was proved.

For the last two theorems the same operators are gone through twice more: `After` and
`Alike` (with `Tended`, `Minded`, `Drains`) say what becomes of the page's memories,
`Settles` and `Freed` what becomes of its stamps, its hold and its lane.

Every property of the run is proved.

## What the runs found

Each is a run that TLC finds violated, with the sentence of the source it
contradicts quoted in `PROJECT.json`.

| Run | What happens |
|---|---|
| `doc_data` | a data write keeps no version of an external edit when the document has any history |
| `hub_absent` | a momentary absence of the file erases the drop marks with the frames: a tab that comes back is told nothing |

### Further behaviours

Consequences of the code met on the way and not kept as runs. The first column says
how to see each with TLC: which constants of which run's instance to change.

| Instance | What happens |
|---|---|
| `doc_records` with `Faults` empty and no Save-ID | `NoLostBytes` fails: a document registered by folder trust alone, with a history from an earlier run: its first save overwrites an edit made while the program was closed, and no version of it exists |
| the same with `TrustedOnly = FALSE` | `NoLostBytes` fails: after an update restart a save may be the first request; `NoteFirstObservation` takes the disk for its baseline, and an edit made during the restart is overwritten with no version of it |
| the same | `HistoryKept` fails: a versions list as the first request pins the path key beside an id history |
| `doc_faults` | a stale save answers that the previous version is in Backups although that backup failed and was only logged |
| `doc_records` | an outside edit that the watcher confirmed while nobody was subscribed, then undone, is blamed on the other tab: the record is made only when the change was delivered (hence "told" in `BlameHonest`) |
| `hub_replay`, with the invariant that each cursor with `away = FALSE` has a stream in `Held(stream)` of its tab | fails: a subscriber evicted by a publish leaves its resume cursor active for ever, because the hub no longer knows it when the coordinator removes it and so never marks it disconnected; its incarnation and anchor stay until the tab returns |
| the same, the invariant turned round | fails: the late remove of a tab's old connection starts the TTL of the cursor its new stream holds |
| `hub_absent` with two tabs, two files, and "replace" for "absent" | `NoSilentGap` fails: only the reconnect that itself rolls a replaced file's generation is told to resync; the next tab is not |
| `hub_absent` with two shared tabs, and "big" for "absent" | `NoSilentGap` fails: the same for a reaped incarnation made again by another tab's connect |
| `hub_ends` with "early" in `Ages` | `LatestReached` fails: the resync verdict is on one cursor frame; if that connection breaks first, the next connect is told nothing. After a restart an unshared tab, too |
| `hub_ends` with two tabs and "relay", "saved", "expire" | `LatestReached` fails: a reaped incarnation is made again by one tab's connect, so the other tab's finds one and is not told to resync |
| `hub_ends` with "expire" in `Ends` | `NoForeignReplay` fails: an incarnation made by a publish has no anchor and adopts whatever file is there next |
| `broker_gate`, with the invariant that a dialog that is up asks for a folder whose `Real` is not in `granted` | fails: a request that parked behind the dialog under a link to the folder is not freed by the grant, because the sweep resolves links only when the granted name differs from the one asked for; the user is asked for the same folder again. So is one who refused it: refusals are remembered by the name that was asked |
| `broker_live`, with the action property that no dialog goes up for a folder in `opened` | fails: opening a file wakes nobody, so a request parked under its folder is still asked about |
| `reader_follows` with one history, bodies stamped only, three versions, no faults; the invariant `SeqIsCovered` | fails: a body past its second discard is accepted under the highest number seen, although a frame with a newer number was applied while it was read (`saved-stream.js:16-17` calls that number "the resume floor that apply is known to cover") |
| `sync_pages`, without `page[p].repair` in what a cursor makes whole (`TakeMsg`) | `VisibleIsCurrent` fails: the worker tells a page that is behind its document to resync only while it holds no frame of it (`behind`, `sync-worker.js:123-127`), so a later frame of one kind hides that one of the other was missed; only the page's own question after a suspension or a new port repairs it |
| `save_lanes` with `Scenarios <- AgentWorks`, the invariant `AutosaveNeverUnderHold` | fails: an attempt that rides the throttle's trailing edge does not ask again whether autosave has been suspended since |
| `save_lanes` with `Scenarios <- ExitRefused`, the invariant `RestsSaved` | fails: an edit typed while an exit has closed the session is not reported to the scheduler (`autosave.js:35`, `55`, `77`); when the exit is refused, nothing saves it until the next edit |
| `save_lanes` with `Scenarios <- HeldThenExit` and `MaxAsks = 3`, the invariant `RestsSaved` | fails: a preview begun while a save is on the wire holds a `savePage` and an autosave; a session that is closed before it ends refuses the replay of the first, which parks the work without a replay (`save.js:522-528`, `631`), and drops the second; the exit is refused, and the save on the wire clears the report of parked work as it succeeds (`save.js:703`). Nothing saves the edit until the next one |
| `save_lanes` with `Scenarios <- ParkedThenSaved`, the invariant `ParkedUntilCovered` | fails: the success of a save that was on the wire before the work was parked clears the report of parked work |
| `save_lanes`, the invariant `p.dirty \/ p.text.mine <= file.text.mine` | fails: a save without a stamp that failed for the page, or timed out, is stored after a later one succeeded. The page is clean and its latest edit is not in the file: no stamp refuses the late one (hence `rewound`) |
| `save_lanes` with `Scenarios <- OfflineThenBack` and `MaxAsks = 3`, the property `OverwriteIsOneSave` | fails: a person overwrites a refusal and the host names no version, so the stamp is cleared and stays so until a save succeeds or a stamped frame is applied (`etag.js:162`). The forced save fails, the save that waited behind it goes out without a stamp too, and replaces a version made after the choice; `etag.js:44` calls an absent stamp last write wins "for that one save", and `save.js:1264` says that a second Cmd+S is not that choice |
| `save_lanes` with `Scenarios <- Overtaken`, the invariant `RefusedOnlyUnseen` | fails: the 412 names version 1, whose frame is overtaken by version 2's; the merged version 2 does not release the hold, which compares the exact stamp (`save.js:606`), and autosave stays suspended until a person acts |

## What is not modelled

- In DocStore: page admission, page-state sidecars, pruning by age and number
  (20 versions, 60 days), a failing `meta.json` write in `SetProvisional`, several
  documents with one id, `trustedWriteRevoked` (asked before the lock).
- In LiveHub: byte caps as numbers,
  the sequence file, prompts and worker leases; several documents on one stream are in SharedSync.
- In SharedSync: the data worker's keep-alive (`sharedData`), and a page once it has gone
  direct; LiveHub stands for the host's half.
- In SaveClient: capability discovery at startup and the unconditional first save, boot
  settling and the baseline's veto, a frame still on its way about a version that is
  overwritten meanwhile (void here; in the code it may yet be applied), `no-trigger-autosave`, raw saves, style adoption and paint healing,
  page-converting retries, drafts and demos, size limits, session entry and commit, pages
  without autosave, typing while a merge is awaited, undo.
- In SavedReader: the startup request of a reader without bytes that does not check at
  startup (`saved-stream.js:467-470`); the cursor a page's own stream makes up when it
  opens (`stream.js:170-181`) is one with the host's first.
- Live sync's merging, held frames and pending slots; leases and imports of the mode
  lifecycle; presence, plugins and the merge engine (DOM work).
- In Broker: letter case, the durable half of "Trust This Folder", the tray's list of
  grants, roots by trust, a file system whose links move under a dialog.
- Everything the [inventory](#inventory) lists and the [plan](#plan) has for later.
- Pure text (selectors, HTML rewriting, admission) and the shell (tray, dialogs):
  no state to interleave.

Out of TLAPS's reach, and left to TLC: liveness under fairness (`CaughtUp`, `StoppedEnds`,
`EndsAtFile` and the other liveness properties) and `ENABLED` (`RestsWhenServed`).

## Plan

In this order; each item is a module with its instance, runs and, where said,
theorems.

1. **DocStore**, **LiveHub**, **Feed**, **Broker**, **SharedSync**, **SavedReader**,
   **SaveClient**, with **DocStoreProofs**, **BrokerProofs**, **LiveHubProofs**,
   **SharedSyncProofs**, **CurrentProofs**, **SavedReaderProofs** and
   **SaveClientProofs**: done but for the properties named above as out of reach.
2. **LiveClient**: `live-sync.js` with its baselines, held frames and pending slots over
   an abstract merge; composed with SaveClient, whose `Sync` is its simplest case.
   **ModeSwitch**: leases, imports and the committed switch of the mode lifecycle.
3. **Watcher**: stat gate, candidate, confirmation, truncation gate and poll period;
   every lasting external change is told (liveness), none twice; an abstract `Notice`
   it implements.
4. **SessionRoots**: registrations, provenance, roots and their revocation with
   `trustFolder`/`untrustFolder` as steps; the race of `trustedWriteRevoked`.
5. **Identity**: `claimLocked`, `ResolveIdentity`, injection and `meta.json` for two
   documents with one id, with crashes between the steps; two documents never share a
   history (proved). **PageState** with its recovery.
6. **Wire** and **Helper**: bindings, retained envelopes, consent, start, cancel,
   detach; one terminal answer per request.
7. **UpdateApply** and **SingleInstance**: drain, swap, supervise, roll back, with a
   crash at every step; the handoff's matching. **SeqFile** under LiveHub's counter.

## Running it

    tlc -workers 2 -config DocStore_faults.cfg MCDocStore
    tlc -workers 2 -config LiveHub_replay.cfg MCLiveHub
    tlc -workers 2 -config Broker_gate.cfg MCBroker
    tlc -workers 2 -config SharedSync_pages.cfg MCSharedSync
    tlc -workers 2 -config SavedReader_follows.cfg MCSavedReader
    tlc -workers 2 -config SaveClient_lanes.cfg MCSaveClient
    tlapm DocStoreProofs.tla
    tlapm BrokerProofs.tla
    tlapm LiveHubProofs.tla
    tlapm PickingProofs.tla
    tlapm SavedReaderProofs.tla
    tlapm SharedSyncProofs.tla
    tlapm CurrentProofs.tla
    tlapm SaveClientProofs.tla
