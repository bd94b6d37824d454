# TLA+ models of livesync-bridge-go

LiveSync Bridge keeps files in step between *peers*: directories on disk
(storage peers) and CouchDB databases in the format of Obsidian LiveSync
(CouchDB peers). Peers of one *group* are kept equal; groups do not mix. There
is no version number or vector clock anywhere: what keeps a change from going
around in circles is a per-peer cache of the hash last seen for each path, and
what makes the bridge survive a restart is a small key-value store. This
directory models that machinery, checks it with TLC, and proves parts of it with
TLAPS.

## Inventory

| Component | Source | State it keeps | Operations |
|---|---|---|---|
| Storage peer | `internal/storagepeer/peer.go` | the directory; `file-stat-<path>` in the store; `pendingEvents` (debounce timers); fsnotify watcher | Start (two offline scans, then watch), handleEvent/debounceEvent/processChange, dispatchFile, dispatchDeletion, Put, Delete, Stop; directory clean-up |
| Deduplication | `internal/peer/base.go`, `internal/util/{cache,hash}.go` | an LRU cache path -> hash, 300 entries | IsRepeating, MarkProcessed, Dispatch, DispatchFrom |
| Hub | `internal/hub/hub.go` | the list of peers, a context, a wait group | RegisterPeer, Start, Stop, Dispatch |
| CouchDB peer | `internal/couchdbpeer/peer.go` | `since`, `doc-meta-<path>`, `synced-doc-<id>` in the store | Start (initial scan), watchChanges, Put, Delete, Get, chunking, encryption, compression, put/delete with retry |
| Conflict resolution | `internal/couchdbpeer/conflict.go` | none | resolveConflict, resolveDeleteConflict, four strategies |
| CouchDB client | `pkg/couchdb/client.go` | channels of a running feed or scan | Put, Get, Delete, AllDocsIterator, Changes, bulk, attachments |
| Retry | `internal/util/retry.go` | none | Retry, RetryWithJitter, CalculateBackoff |
| Store | `internal/storage/store.go` | a bbolt bucket | Set, Get, Delete, IteratePrefix, Clear |
| Paths, configuration, command line | `internal/util/path*.go`, `internal/config`, `cmd` | none after start | conversions, validation, wiring |

How they interact: a storage peer's watcher or a CouchDB peer's feed notices a
change; the peer calls `DispatchFrom`, which checks and marks its own cache and
calls `Hub.Dispatch`; the hub calls `Put` or `Delete` of the other peers of the
group, in the goroutine of the peer that noticed the change; each of those checks
its own cache, writes, and marks. What was written is noticed again by the
target's own watcher or feed: this *echo* has to be recognised by the cache.
The goroutines are: one per peer for `Start` (offline scans dispatch from it), one
per debounce timer that fires, one per changes feed. They share the caches, the
store, the directories and the database, and no lock spans more than one cache
access.

What is hard, and where it bites, is listed line by line under `hazards` in
`PROJECT.json`. In short: check and mark are apart; a write, its stat and its
mark are apart; the stat is taken after the dispatch; deletions have two different
hashes; one hash per path cannot recognise a late echo; the feed's sequence is
stored before its row is handled; "now" is stored as a sequence; MVCC is undone by
reading the current revision before every attempt; failures after the mark; reads whose errors are
taken for a missing document.

What makes the components correct:

- *Storage peers and hub*: when nothing is under way, all directories of a group
  hold the last edit; a stop at any moment leaves some directory from which the
  next start sends what is missing; no echo undoes a user's edit; the bridge comes
  to rest; a failing target harms only itself; groups are separate.
- *CouchDB peer*: the same between a file and its document, over the changes feed
  with its stored sequence, the revision check, retries and conflict resolution.
- *Chunks*: a reader sees the chunks of one version; a delete or a resolved
  conflict leaves no document without its chunks.
- *Client channels, debounce map, life cycle*: a scan that reports success saw
  everything; after Stop nothing is written.

## Modules

| Module | What it is |
|---|---|
| `BasePeer` | files, hashes, `IsRepeating`, `MarkProcessed` |
| `Hub` | the peers of a group and the order in which a dispatch reaches them |
| `StorageBridge` | any number of storage peers in groups, with the hub between them |
| `SyncGroup` | the abstract specification of the bridge: a replicated register per group |
| `CouchBridge` | one storage peer and one CouchDB peer in a group |
| `ChunkedDocument` | one document of the database when files may be cut into chunks |
| `FeedChannels` | how changes of the database travel through the client's channels into the CouchDB peer |
| `Delivery` | the abstract specification of the feed: every change is dispatched once |
| `StorageTree` | one storage peer's directory as a tree, in which files and directories replace each other |
| `StorageBridge_proofs`, `SerialBridge_proofs` | theorems about `StorageBridge`, with edits at any time or by one author, and with one edit at a time |
| `CouchBridge_proofs`, `ChunkedDocument_proofs`, `FeedChannels_proofs`, `StorageTree_proofs` | theorems about these modules |
| `TreeStats_proofs`, `TreeSync_proofs` | theorems about `StorageTree` at rest |
| `MCStorageBridge`, `MCCouchBridge`, `MCChunkedDocument`, `MCFeedChannels`, `MCStorageTree` | values for TLC |

### One path

Everything the bridge keeps about a file - cache entry, stat, timer, document,
metadata - is keyed by its path, and apart from the LRU cache's size and
directories in the way, nothing of one path touches another. So the models of the bridge
follow *one* path, and `StorageTree` a few whose directories are in the way. Traffic on other paths shows up as the eviction of the path's cache
entry (`Evict`).

A file is a content, `Empty`, or `Absent`. The same values stand for a `FileData`
in flight (`Absent` is `Deleted: true`) and, as a hash is taken to be injective, for
its hash. Two hashes of a deletion are kept apart as in the code: the one of a
`FileData` without data, which `DispatchFrom` computes, equals that of an empty
file; the one of `nil`, which `Delete` computes, is `DelMark`.

A stored stat is `none`, `current` (equal to the file's mtime and size) or `old`.
Every write of a file is taken to change its mtime or size; the code compares whole
seconds, so two writes of the same size within a second are outside the model.
`os.WriteFile` is one step.

### StorageBridge

| Model | Code |
|---|---|
| `disk[p]`, `stat[p]`, `cache[p]` | the file, `file-stat-`, the LRU entry |
| `pending[p]` | an fsnotify event not handled yet, or an armed timer in `pendingEvents` |
| `mode[p]` | how far `Start` has come |
| `thread[<<p, s>>]` | the goroutine of `Start` (`s = 0`) or a timer callback |
| `ScanChanges`, `ScanDeletions` | `scanOfflineChanges`, `scanOfflineDeletions` |
| `FireTimer`, `ReadFile` | `processChange`'s stat, `dispatchFile`'s read |
| `CheckRepeating`, `MarkAndDispatch` | the two halves of `DispatchFrom` |
| `Offer`, `Write`, `PutStat`, `PutMark` | one target in `Hub.Dispatch`'s loop: check, write, `updateFileStat`, mark |
| `WriteFails`, `DispatchReturns`, `OwnStat` | errors collected by the hub; what `dispatchFile` does with them |
| `Crash`, `Evict` | the end of the process; another path's traffic |
| `UserWrite`, `UserDelete`, `UserTouch` | the environment |

A step is one access to shared state: two goroutines can interleave between any
two of them. A stop is a crash in the model: `Stop` saves nothing.

### CouchBridge

The storage peer's part is the same, with one timer callback at a time. New are:

| Model | Code |
|---|---|
| `doc` | the document's revision number and body |
| `since`, `meta` | the stored sequence (`Unset`, `Now` or a revision) and `doc-meta-` |
| `buf`, `pos` | rows in the channel of `Client.Changes`; how far CouchDB has sent |
| `ScanDocument`, `FinishScan`, `Connect` | `scanInitialDocuments`, `Start`, `watchChanges`' outer loop |
| `SendRow`, `TakeRow`, `SeenBefore`, `DispatchDone` | the changes feed and what `watchChanges` does with a row |
| `OfferDoc`, `MarkDoc` | `CouchDBPeer.Put`/`Delete` up to the write: the mark comes *before* it, so `OfferDoc` skips the repetition of a call that failed |
| `GetRev`, `PutDoc`, `Conflict` | one attempt of `putDocumentWithRetry`/`deleteDocumentWithRetry` |
| `KeepLocal`, `ForceDoc`, `AcceptRemote`, `Unresolved` | `resolveConflict`/`resolveDeleteConflict` and what they decide |
| `PutDocFails`, `WriteDiskFails` | a write of the document or of the file that fails (fault `"fail"`) |
| `LookupFails` | a read of `Delete` that fails: like a document that is not there, without an error (fault `"lookup"`) |
| `RereadFails` | a failing read of the revision, after which the attempt goes on without it, or of the document in a resolution (fault `"reread"`) |
| `RemoteEdit` | other clients of the database |

Simplifications: the document has no chunks (`ChunkedDocument` has them); the resolution's read of the document
and a forced delete's second read are one; `Delete`'s two reads and its mark are
one; timestamps may compare either way; a document
deleted while the bridge was stopped is not found by a rescan (in the code the
lookup uses a key prefix under which nothing is stored, peer.go:326). The reads of the scan and of the feed fail in `FeedChannels`.

### SyncGroup, and the refinement

`SyncGroup` says what the bridge promises, without caches, threads or stats: every
peer holds a copy of a register; users write it one at a time; a copy only ever
steps to the register's value; and it gets there. Both bridges implement it when
edits are serial (`ImplementsSyncGroup`, with the directories, or the file and the
document, as the copies). The safety half of it, `FollowsRegister`, needs nothing but
that: it holds through every fault, so the runs with faults check it and
`SerialBridge_proofs` and `CouchBridge_proofs` prove it. With several edits at a time they do not: see "What the code does not do".

### ChunkedDocument

A main document that lists chunk documents, and the goroutines that write and read them.
Each request to CouchDB is a step; a chunk is its revision and the content whose part it holds,
so that a mix of versions shows.

| Model | Code |
|---|---|
| `doc`, `chunk[i]` | the main document, and the chunk `h:<id>:<i-1>` |
| `call[t]` | a `Put` or `Delete` called by the hub, or the feed's goroutine |
| `Offer`, `Begin`, `Repeat` | a call of the hub: one that goes on, and one whose hash is marked already and that returns without an error, also if the call that marked it has failed |
| `MarkPut`, `NextPart` | `Put` up to `putChunked`, and the latter's loop |
| `GetChunk`, `PutChunk`, `ChunkConflict` | an attempt of `putChunkWithRetry` |
| `RegetChunk`, `RedeleteChunk`, `RecreateChunk` | what it does after the last attempt |
| `Look`, `GetOld`, `DeleteOld`, `DeleteOldConflict`, `MarkDelete` | `Delete` and `deleteChunkWithRetry`; also `forceUpdateRemote`'s removal of the remote chunks |
| `GetRev`, `PutDoc`, `DocConflict`, `DeleteGone` | the main document's attempts |
| `LocalWins`, `ForceDoc`, `RemoteWins`, `GetLatest`, `Unresolved` | the resolution of a conflict |
| `TakeRow`, `ReadChunk`, `Deliver` | `watchChanges`, `reassembleChunks` and the dispatch of what they read |
| `RequestFails` | a request, read or write, that fails, and what each caller makes of it |
| `Leave` | a call that returns an error, or nothing of its own (`Delete` without a document) |

Simplifications: `Delete`'s two reads of the document are one, as are those of
`resolveConflict`; timestamps decide either way; a dispatch to
the storage peers is one step. What a failing request means differs from call to call, and `RequestFails`
follows the code: `Delete` takes it for a document that does not exist and returns no error (peer.go:738), a
revision that cannot be read is left as it is (431, 590), a chunk that cannot be removed stays (763), and the
others end the call with an error. `forceUpdateRemote` cuts its local document into chunks
if its data are large: they never are, as `putDocumentWithRetry` gets either a
small document or one whose data are in chunks, so that branch is left out, and `Forced`
says what the other one writes. The history variables `latest`, `settled` and `hole`
serve the properties.

### FeedChannels, and Delivery

The goroutine of `AllDocsIterator` or `Changes` and the loop of
`scanInitialDocuments` or `watchChanges`, with the two channels between them.

| Model | Code |
|---|---|
| `producer`, `rows`, `error` | the goroutine, the channel of rows and that of errors |
| `CloseErrors`, `CloseRows` | the deferred calls, in the order in which they run |
| `phase`, `hand` | where the consumer is, and the row it is dispatching |
| `TakeDocument`, `ScanDone`, `ScanError` | the select of `scanInitialDocuments` |
| `TakeRow`, `FeedClosed`, `FeedBroken`, `SeeStop` | the select of `watchChanges` |
| `Boot`, `Reconnect` | `Start`, and the outer loop of `watchChanges` |
| `Stop`, `StopFailed`, `Exit`, `Crash` | `Hub.Stop`, and the two ways a process ends |

A select takes any case that is ready, so its cases are actions that may be
enabled together. Every change is of a document of its own: change `i` is document `i` of
the scan. Dispatching a row is the step `Handle`, as the cache and the targets do not matter here.
What the producer of a feed that was left still does is not followed: `NoOrphan` says that it has
ended but for closing its channels. The configuration's `InitialSync: false` is not modelled.

`Delivery` says what this is for: changes are made, and each is dispatched once, in any
order. `FeedChannels` implements it (`ImplementsDelivery`, with `log` for `made`).

### StorageTree

The path `Top` is a file, or a directory with the files `Leaf`.

| Model | Code |
|---|---|
| `dir`, `file`, `watched`, `events` | the tree, the watch of the directory, fsnotify's queue |
| `entry`, `stray` | `pendingEvents`, and armed timers that are no longer in it |
| `look[g]` | a timer callback of a path, or the scan of `Start`, from `processChange` on |
| `HandleEvent`, `Debounce`, `FireTimer`, `EndLook` | `handleEvent`, `debounceEvent` and its callback |
| `ReadFile`, `Dispatch`, `RecordStat` | `dispatchFile`, `dispatchDeletion`, `DispatchFrom` |
| `Boot`, `Scan`, `NextPhase` | `Start`, `scanOfflineChanges`, `scanOfflineDeletions`, `watchDirectoryTree` |
| `Begin`, `ClearParent`, `DropStat`, `MkdirAll`, `ClearPath`, `ClearStats`, `PutWrites` | `Put`, `removeFileConflictsInParentPath`, `removeDirectoryIfExists`, `cleanupDirectoryStats` |
| `DeleteRemoves`, `DeleteFails`, `CleanupEmptyDirs` | `Delete`, `cleanupEmptyDirs` |
| `group` | what the rest of the group was told last |
| `Redo` | a call that a crash interrupted: its source has no stat and dispatches again |

Simplifications: a dispatch is one step and reaches everybody; the events of a path
that are not handled yet are one of each kind; callbacks of one path run one after the other;
`os.RemoveAll` is one step; the scan takes paths in any order and its directories are watched in
one step; depth is one directory.

## Runs

Bounds: two contents (one edit must be told from another; a third adds nothing where edits are
compared only with the last), in `chunks` three of different sizes (none, one and two
chunks: fewer chunks than before, more, and a small file in place of a large one); two to eight
edits or calls; one to three faults; four changes through a channel of two rows (so that it
fills, and rows are lost with it). `MaxOverlap` is 1, and 2 in `evict`. Every bound is a
constant named in the module. `tree` was also run with one leaf and up to four edits, and with two leaves
and three edits without a crash. Deadlock is not checked: when the users have used up their
edits, the bridge really stops.

| Run | Setting | Shows |
|---|---|---|
| `serial` | 3 peers, write/delete/touch one at a time, a crash anywhere | `SyncAtRest`, `CrashSafe`, `ImplementsSyncGroup`, `EventuallyQuiet` |
| `author` | one user writes and touches a file at any time while the bridge is up | `AuthorUndisturbed`, `SyncAtRest` |
| `failing` | 3 peers in a group and one in another, Puts and Deletes fail for good, crashes | `TypeOK`, `GroupIsolation`, `CrashSafe`, `FailureContained`, `FollowsRegister` |
| `evict` | cache entries vanish, callbacks overlap | `SyncAtRest`, `CrashSafe`, `EventuallyQuiet` |
| `couch_serial` | user and remote edit and delete, one at a time, first start, restarts at rest, broken feeds | `SyncAtRest`, `UserEditSafe`, `ImplementsSyncGroup`, `EventuallyQuiet` |
| `couch_failing` | user and remote, one at a time; crashes anywhere, failing reads and writes, broken feeds, edits while "now" is stored | `UserSaveSafe`, `FollowsRegister` |
| `couch_user` | the user saves again and again; restarts at rest, broken feeds | `EditorUndisturbed`, `SyncAtRest` |
| `couch_concurrent` | both sides at any time, a write or a read of the revision fails, two attempts per write | `TypeOK`, `EventuallyQuiet` |
| `chunks` | two goroutines put and delete small and large files; a read or a write fails, or a crash | `TypeOK`, `PutRepairs`, `ListedExist` |
| `chunk_echo` | one file is put once, the feed reads it back | violates `LastSaved` |
| `feed` | broken feeds, a failed scan, crashes, stops in the scan and in the feed | `TypeOK`, `NothingSkipped`, `NoOrphan`, `ImplementsDelivery` |
| `tree` | a user and one call at a time turn files into directories and back; a crash | `TypeOK`, `TreeInSync`, `NothingToRescan`, `StatsHaveFiles`, `WatchKept` |

Settings that a run needs to pass, and what they say about the code (the table below has
what happens without them):

- `Editing = "serial"`: the next edit is made when the last one has settled, on every
  copy and in every stat.
- `WindowsApart` (in `author`): at one peer, the time from
  `processChange`'s look at the file to its mark does not overlap the time from a
  `Put`'s write to its mark. The debounce delay (`debounceDelay`) makes it likely; nothing
  enforces it. `MaxOverlap` is 1 there: the callbacks of a path do not overlap either.
- `FeedPrompt` (in `couch_user`, `couch_concurrent`): a row of the feed is
  handled within the debounce delay of the next local event.
- `NowGap` (FALSE in all runs but `couch_failing`): while the stored sequence is the literal "now", the document
  does not change behind the feed's back and the feed does not break; in `feed`, nothing changes during the
  initial scan either.
- Fewer failing reads of the revision than attempts (`MaxFaults < MaxAttempts` in `couch_failing`, as in the code's
  four attempts): otherwise a write nobody competes with ends in the resolution of a conflict. `ReadsRetried` in the proofs.
- `"lookup"` (in `Faults` of `couch_failing` only): `Delete`'s reads fail, and deletions are lost; `UserSaveSafe`
  there speaks of saves, `UserEditSafe` of `couch_serial` of deletions as well.
- `RowsWhole` (in `feed`): the process does not end between the store of a row's sequence
  and the end of its dispatch.
- `ErrorsFirst` (in `feed`): the scan's select takes an error, or the cancelled context, before
  the closed channel of rows when both are ready. Go's select picks one at random.
- `Prompt` (in `tree`): the hub calls when the peer is at rest, and calls and dispatches end
  before a timer fires that may undo them. Again the debounce delay makes it likely.
- `UserWaits` (in `tree`): users let the scans of `Start` end, edit in a new directory once it is watched, and
  exchange a file for a directory once deletions were dispatched.
- `FreshBytes` (in `tree`): nobody gives a path that the others do not have the bytes that
  the peer has marked for it last.
- `LooksWhole` (in `tree`): the process does not end between an edit or a dispatch and the store
  of the file's stat. A crash in the middle of a call of the hub is in the run.
- No deletions in `author` and `couch_user`, no touch in `failing`, no empty files, no
  `baseDir`.

### What the code does not do

The run `chunk_echo` ends in a violation. It states `LastSaved`: with one storage peer and nobody else
writing, a file keeps what was saved last. A single save of a file that is cut into chunks breaks it: the feed
reports the bridge's own write, `reassembleChunks` reads every chunk as no bytes, because `client.Get`
decodes into a type without a field for them, and an empty file is dispatched
over the user's. The documents that say otherwise are quoted with the finding in `PROJECT.json`.

The assumptions of the passing runs are there because the code needs them. Each of these
is one change of constants away from a run, and TLC then finds the property violated:

| Change | Property | Execution |
|---|---|---|
| `author` with `"delete"` in `UserOps` | `AuthorUndisturbed` | the echo of a deletion is not recognised, as it has another hash, and deletes a file created again (base.go:109); PLAN.md:641 says "No infinite loops or echo" |
| `author` with two peers, `Editing = "up"`, two edits | `SyncAtRest` | a dispatch overwrites a later save of the other peer; or two edits cross and each directory ends with the other's, for good (hub.go:115); README.md:42 says "Automatic conflict resolution for concurrent edits" |
| the same under `FairSpec`, with `WindowsApart = FALSE` | `EventuallyQuiet` | two versions chase each other for ever (base.go:196) |
| `author` with `MaxOverlap = 2` | `AuthorUndisturbed` | two callbacks of a path dispatch two saves at once, and the older one reaches a target last and comes back (storagepeer/peer.go:384) |
| `author` with `WindowsApart = FALSE` | `AuthorUndisturbed` | an echo looks at a file that a `Put` has written and not marked yet, is not recognised, and dispatches an older save (storagepeer/peer.go:211) |
| `author` with `Faults = {"evict"}`, `MaxFaults = 2` | `AuthorUndisturbed` | the echo of an older save finds no mark, and neither does its dispatch at the author's peer (base.go:29) |
| `author` with `Faults = {"crash"}`, `MaxFaults = 1` | `AuthorUndisturbed` | a crash between a `Put`'s write and its stat: the next start dispatches the older save from there (storagepeer/peer.go:206) |
| the same | `SyncAtRest` | the stat stored after a dispatch is that of a later, undispatched edit (storagepeer/peer.go:450) |
| `serial` with `Empty` in `Writable` | `SyncAtRest` | the deletion of an empty file has the hash of the file and is skipped (base.go:113) |
| `serial` with `"evict"` in `Faults`, `MaxFaults = 2` | `CrashSafe` | a target sends the change back, the source stores the stat before its own dispatch has reached everybody (base.go:117) |
| `failing` with `"touch"` in `UserOps` | `CrashSafe` | a failed dispatch leaves its mark; saving again records the stat and sends nothing (base.go:199) |
| `couch_serial` with `NowGap = TRUE` | `SyncAtRest` | a change made while the bridge is stopped is skipped: the stored sequence is "now" (peer.go:400) |
| `couch_serial` with `BaseDirSet = TRUE` | `SyncAtRest` | a deletion's row does not pass the baseDir filter (peer.go:906) |
| `couch_serial` with only remote writes and `Faults = {"crash"}` | `SyncAtRest` | the sequence of a row is stored before the row is handled, a crash in between loses the change (peer.go:884); ARCHITECTURE.md:149 puts it last: "10. Update "since" checkpoint" |
| `couch_failing` with `UserEditSafe` | `UserEditSafe` | a read of `Delete` fails: it returns no error, the stat of the deleted file is dropped, and the document stays (peer.go:738, storagepeer/peer.go:470) |
| `couch_failing` with `MaxAttempts = 2`, `Faults = {"reread"}` | `FollowsRegister` | no attempt can read the revision: all end in conflicts with the document's own older version, and the resolution may write that over the file (peer.go:431, 446) |
| `couch_user` with `FeedPrompt = FALSE` | `EditorUndisturbed` | the feed reports the bridge's older write after a newer save (peer.go:960) |
| `couch_user` with `Editors = {"remote"}` | `EditorUndisturbed` | the echo of a written file overwrites a newer document, whose revision was just read (peer.go:432) |
| `couch_user` with both editors | `SyncAtRest` | the two edits cross; no conflict is ever reported (peer.go:432) |
| `couch_user` with `Deletes = TRUE` | `EditorUndisturbed` | the row of a deletion has another hash than its mark, and deletes a file created again (base.go:109) |
| `couch_user` with `"crash"` in `Faults` | `SyncAtRest` | the stat stored after a dispatch is that of a later save, as in `author` (storagepeer/peer.go:450) |
| `couch_user` with `Editing = "free"` | `SyncAtRest` | a file made while the scans of `Start` run is seen by neither the scan nor the watcher (storagepeer/peer.go:121) |
| `feed` with `NowGap = TRUE` | `NothingSkipped` | as above, and also between the scan and the feed, and when a feed opened at "now" breaks |
| `feed` with `RowsWhole = FALSE` | `NothingSkipped` | a crash loses the row in hand; so does a stop, as `Hub.Stop` waits for `Start` and not for `watchChanges` (hub.go:93) |
| `feed` with `ErrorsFirst = FALSE` | `NothingSkipped` | a scan that failed, or was stopped, is taken for complete, and "now" is stored (peer.go:211, client.go:222) |
| `tree` with `Prompt = FALSE` | `TreeInSync` | the echo of `RemoveAll` is looked at before the new file is written, and the deletion deletes it elsewhere; with two callers, one's `MkdirAll` meets the other's `cleanupEmptyDirs` (storagepeer/peer.go:183, 635) |
| `tree` with `UserWaits = FALSE` | `TreeInSync` | files made in a directory before its watch are not seen (360); where a file and a directory were exchanged, the old paths are never dispatched as deleted (401, 413); edits during the scans are not seen (121) |
| `tree` with `FreshBytes = FALSE` | `TreeInSync` | a file removed to resolve a path conflict keeps its cache entry, and a later `Put` of the same bytes is skipped (storagepeer/peer.go:723) |
| `tree` with `LooksWhole = FALSE` | `TreeInSync` | a crash between dispatch and stat, then a deletion while the bridge is down, which no scan finds (storagepeer/peer.go:446) |

Of the documents with chunks, these are reachable with the constants of `chunks` (and, where no
fault is needed, with `Faults = {}`), which is why `PutRepairs` speaks of calls that run
alone and write the document, and `ListedExist` excepts documents whose chunks were taken away:

- with puts only, two at once: at rest, a document whose chunks are of two versions (peer.go:1097);
- one call at a time: a `Delete` that fails once the chunks are gone leaves its mark, the next `Delete` is taken for
  its repetition and returns no error, and the document lists chunks that are gone (peer.go:726, 757);
- a `Put` beside a `Delete`: at rest, a document that lists chunks that are gone (peer.go:757);
- `Strategy = "local-wins"`, two puts: a document with neither data nor chunks, as the forced write has
  only the main document of a large file (conflict.go:218). USAGE.md:454 says of it: "Deletes all remote
  chunks and re-uploads local chunks".

## Fairness

`FairSpec` assumes that goroutines run (`ThreadStep` of each thread; in `FeedChannels` producer and
consumer), armed timers fire, scans go on, a stopped bridge is started again, and CouchDB
delivers what it has. The Go scheduler, `time.AfterFunc`, the operator or init system, and a
continuous feed with reconnection justify it. `FeedChannels` also assumes that an operator stops a
bridge whose CouchDB peer failed to start (`StopFailed`): the code logs it and
does not try again. Nothing is assumed of users, other clients, failures, crashes, evictions or
disconnects. `ChunkedDocument` and `StorageTree` have no liveness properties.

## Proofs

`StorageBridge_proofs` proves for every number of peers, any grouping, any contents and any
bound:

- `TypeCorrect`: `Spec => [](TypeOK /\ HasTarget)`. `TypeOK` alone is not inductive:
  `Write`, `PutStat` and `PutMark` index the caches and directories by `thread[t].at`,
  so a thread in the middle of a `Put` must have a target (`HasTarget`).
- `Isolation`: `Spec => []GroupIsolation`. A directory's content comes from its own users
  or from a thread, a thread's from its own peer's directory, and it is offered only to peers of
  the same group. So the inductive invariant `IsoInv` adds to the type that the data of
  every thread is at home in the thread's group, and that its targets are of that group.
  It rests on the assumption that a user writes only content of the own group
  (`HomeGroup`), which is what makes the property meaningful.
- `AuthorAlone`: `Spec => []AuthorUndisturbed`, under `OneAuthor`: one user, who writes and touches but deletes
  nothing, at any time; Puts may fail; no crash, no eviction; `WindowsApart` and `MaxOverlap = 1`. The directories then hold
  different versions, and the author's goroutine may carry one that the author has already replaced. `AuthorInv` says
  what does not get out of step: a target's cache has the hash of its file except between a `Put`'s write and
  its mark (`Told`), and its echo never overlaps that interval and so never gets beyond `IsRepeating`
  (`Hears`); hence only the author's goroutine dispatches (`Sends`).
- `AuthorSavesArrive`: `Spec => []SyncAtRest`, under `OneAuthor` if nothing fails. `ArriveInv` adds that the version in
  the author's cache is the one that every target has or will still get from the dispatch under way (`Dispatched`), and
  that the author's file is everywhere, or being dispatched, or has an event left (`Brought`).

`SerialBridge_proofs` is about one edit at a time (`Editing = "serial"`), and again for every
number of peers, groups, edits, faults and overlapping callbacks:

- `SerialRegister`: `Spec => FollowsRegister`. The inductive invariant `LastInv` says that whatever was
  noticed of a directory, or would be at the next start, is the last edit (`Noticed`), and that every
  goroutine works for a peer whose directory holds the last edit and carries that (`Carries`): nothing
  under way remembers an older version. No
  other assumption: it holds with evictions, failures, touches and empty files.
- `NothingLost`: `Spec => []CrashSafe`, under `NoGaps`: no empty files, not both failures and touches, and
  evictions only where nothing fails and groups are of at most two peers (`Pairs`; the setting of `evict`): a third
  peer's echo is what does the harm. The invariant is `SafeInv`. `Modes` says what a starting peer
  has behind it; `Known(q)` that a peer's cache holds the last edit only if its directory does, and nothing older once
  the peer has taken notice of it; and
  `OnTheWay(g)` that a group is in one of three states: in step (`Synced`), with a peer that has not
  marked the edit and would find it (`Unmarked`), or with one that has marked it, whose stat is not
  stored and whose dispatch has failed or still covers every target that lacks the edit (`Marked`). An eviction
  may take the mark away: in a pair nobody but the marked peer has the edit then, so nobody can send it an echo.
  `CrashSafe` alone says nothing of the goroutines and is far from inductive.
- `RestsInSync`: `Spec => []SyncAtRest`, if besides nothing fails: `Unmarked` and `Marked` need something
  to be under way, so at rest a group is `Synced`.
- `OneFailureOneTarget`: `Spec => []FailureContained`. `FailInv` adds that the peers which lack
  the edit, and to which no dispatch is still coming, are at most as many as there were faults.

`CouchBridge_proofs` proves for any contents, strategy and bounds:

- `TypeCorrect`: `Spec => []TypeOK`, with edits on both sides at any time and every fault.
- `SerialRegister`: `Spec => FollowsRegister`, for one edit at a time, if fewer reads of the revision fail than a write
  has attempts (`ReadsRetried`). `SerialInv`: the scan, the timer
  callback and the feed's goroutine carry the last edit (`FileGo`, `FeedGo`), so do the rows in
  the channel (`Rows`), and of what one side does not have yet the other has nothing to send back
  (`OneWay`). A write meets a conflict only after a read of the revision that failed, and has had no more conflicts
  than there were faults; hence `NoResolution`: no write ends in a resolution, so what would take over the
  document's older version never runs.
- `UserEditsKept`: `Spec => []UserEditSafe`, if besides the reads of `Delete` do not fail (`"lookup"`), which the table
  above shows to be needed. `SafeInv` adds `Known`: until
  the peer has looked at the edit, the two caches know of nothing but what the document has, so that
  its dispatch is not taken for a repetition, and no stat is stored before the document has it.
- `UserSavesKept`: `Spec => []UserSaveSafe`, where those reads fail too: from the same invariant, whose
  conjunct on stats is about edits that are `Kept`, which a deletion then is not.
- `RestsInSync`: `Spec => []SyncAtRest`, if also there is no `baseDir`, `NowGap` is FALSE, and the faults are
  restarts at rest, broken feeds and failing reads of the revision (`NoGaps`). `RestInv` adds that an edit that has not been sent
  has something that will send it (`FileComing`), and that an edit of the document
  that the file lacks is in the hands of the feed's goroutine, in the channel, still to be sent, or found by the next start
  (`DocComing`).

- `UserUndisturbed`: `Spec => []EditorUndisturbed`, under `OnlyUser`: only the user edits, at any time while the bridge is up and without
  deleting; `FeedPrompt`; requests that fail, broken feeds and restarts at rest. Row and file may be
  of different versions, so `UserInv` is about rows and the document: all rows in the channel are the
  document's last revision (`OwnRows`), the peer has marked whatever the feed still has to report (`Recognised`), so that a row
  never gets past its first look (`EchoGo`), and the file's goroutine writes the document only when the feed has nothing to
  report (`UserGo`), and so meets no conflict.
- `SavesArrive`: `Spec => []SyncAtRest`, under `OnlyUser` if no request fails. `SavedInv` adds that a file which the document
  lacks has an event or a goroutine that carries it (`SaveComing`), and that between two dispatches both caches know
  only what the document has (`CachesKnow`): a save is not taken for a repetition of one that the document does not hold.

`ChunkedDocument_proofs` proves for any number of goroutines, any contents with any numbers of chunks,
any strategy and any faults, reads that fail included:

- `TypeCorrect`: `Spec => []TypeOK`. `Shape` says that a request for a chunk is for one that the
  content has.
- `PutsRepair`: `Spec => []PutRepairs`, and `ListedChunksExist`: `Spec => []ListedExist`. The invariant
  `ChunkInv` says that the feed's goroutine only reads, a call that no other has overlapped meets no
  conflict and has written the chunks it has passed, and chunks that a call has written, like
  those the document lists, exist unless some were taken away.

`StorageTree_proofs` proves for any set of paths below `Top`, any contents, edits and faults
`TypeCorrect`: `Spec => []TypeOK`, and `DirectoriesWatched`: `Spec => []WatchKept`, by the invariant of both.
None of the settings listed under Runs is assumed.

`TreeStats_proofs` and `TreeSync_proofs` prove what holds of `StorageTree` at rest, again for any paths, contents,
callers, edits, calls and crashes:

- `StatsAreCurrent`: `Spec => []NothingToRescan`, under `Timed` (`Prompt` and `UserWaits`). `RescanInv` says who runs when
  (`Turns`: timers once `Start` has ended, one call at a time and no callback beside it), that a scan
  sees the files as they are and a callback whose file has come back will be followed by another (`Looks`), what a call has
  made of the tree so far (`CallFacts`), and that a file without a current stat is in the hands of a scan, a
  timer, a callback or a call that will store it (`Rescanned`).
- `TreesAgree`: `Spec => []TreeInSync`, and `StatsBelong`: `Spec => []StatsHaveFiles`, under `Settled`, which adds `FreshBytes` and
  `LooksWhole`. `SyncInv` adds that a file which the group does not have is covered by a scan or a timer, or
  is one that the group has replaced by calling (`Synced`); that nothing that would be dispatched is taken for a repetition
  unless the group has it (`CacheTells`, `LooksTell`); which files have stats (`StatTells`);
  that what is in the way of others has none and is not what the group has
  (`OneTree`, `TimerLooks`); and that a call carries what the group has (`CallSync`). So a start
  in the middle of a call dispatches nothing old: a file that the group has replaced still has its current
  stat, which `StatsAreCurrent` provides.

`FeedChannels_proofs` proves for any number of changes and faults, any set of fault kinds, and
channels of any capacity:

- `TypeCorrect`: `Spec => []TypeOK`, and `ProducersEnd`: `Spec => []NoOrphan`. Both follow from
  `TypeInv`, which adds `Shape` to the type: which producer runs in which phase, and that one
  whose error is in the channel has sent its last row. Without it `Query` could start a feed at
  a sequence that is not a number.
- `SkipsNothing`: `Spec => []NothingSkipped`, if `RowsWhole`, `ErrorsFirst` and not `NowGap`. The
  inductive invariant `IInv` says that the channel holds exactly the rows between the stored
  sequence and the last one sent (`FeedRows`), that while the stored sequence is "now" the
  channel follows what the scan has dispatched (`WhileNow`), that a document the scan has not
  dispatched is in the channel or still to be sent (`ScanCovers`), and that metadata and stored
  sequence are those of rows taken (`Seen`).
- `DeliveredOnce`: under the same assumptions, the initial state of `FeedChannels` is one of
  `Delivery` and every step is a step of it or a stutter: the safety part of the refinement
  `ImplementsDelivery`. For this `Once` adds that what was dispatched lies before the
  stored sequence, or is known by its metadata, and `Sent` that only changes of the database are sent.

The three assumptions are the named gaps of the code, listed above with the runs in which TLC
refutes the property when one of them is dropped.

What the theorems assume, besides what is named with them, is the constants' assumptions in the
modules. Each named assumption is one that the table in "What the code does not do" shows to be needed.

Model-checked only are:

- liveness, and with it the other half of the two refinements: it needs fairness, which is out
  of the prover's reach;
- `LastSaved`, which does not hold.

Every other property that a passing run checks, is proved under assumptions that the run's setting meets.

## Plan

Done: the modules above and the theorems listed under Proofs. Next:

1. `HubLifecycle`: `Stop` of the hub and the storage peers with their timers and the closing of the store.
2. Path conversion as operators on names, against being one-to-one.

## Not modelled

- Encryption, compression, base64 and JSON: pure functions, and a content is a value here.
- `Stop` of a storage peer: it saves nothing, so it is a crash in the models. What a timer
  callback meets that runs on while the store is closed is not modelled.
- Path conversion (`path.go`, `docPathToID`): a path is a name that is the same on all peers.
- The deletion detection of the initial scan (peer.go:326) looks up keys that are never stored under
  that prefix: as in the code, a rescan finds no deletions.
- Rows of deleted chunk documents, which have no type and are dispatched as deletions of a
  path `h/...` that no peer has.
- Configuration and command line (run once), bulk operations and attachments of the client (not
  called), bbolt, kivik and fsnotify (external; modelled by how they are used).
