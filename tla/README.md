# A verification project for cryp

cryp is an encrypted file vault behind an HTTP server: vaults of files are
encrypted on disk, browsed and streamed through sessions that hold the keys,
and worked on in the background by import and index tasks, thumbnail workers
and FFmpeg transcodes. What is hard in it is not the cryptography but the
lifecycles: every background subsystem has its own goroutines, queues and
tombstones, and the deletion of a vault, the replacement of a file, a logout
and the shutdown of the server have to stop all of them at the right moment.
This project models those lifecycles in TLA+, and with them what they work on:
the encrypted files, their index and the chunks a file is made of. TLC checks
the modules on small instances, TLAPS proves the safety results for all.

Paths below are relative to `src/`. `manager.go` is
`internal/task/manager.go`, `thumbnail.go` is `internal/thumbnail/thumbnail.go`,
`files_hls.go`, `auth.go`, `files.go`, `router.go`, `media_metadata.go` and
`tasks.go` are in `internal/api`, `store.go` is `internal/session/store.go`,
`vault.go`, `io.go` and `content.go` are in `internal/crypto`, `index.go` is
`internal/fileindex/index.go`.

## 1. The system

| Component | State | Operations | Status |
|---|---|---|---|
| Task manager (`manager.go`, `tasks.go`) | `closed`, `quiescingVaults`, `resumeVaults`, `pendingStarts`, `running`, `runningByVaultType`, `taskRunKeys`, three wait groups; one goroutine per task | `StartImportFull`/`StartRebuildIndex` (begin, reserve, admit, finish), worker settle/finish, `CancelTask`, `QuiesceVault`, `ResumeVault`, `ForgetVault`, `Shutdown`/`Wait`, recovery | `TaskManager` |
| Upload task records (`manager.go:549-649`) | rows of the task table | create, update, complete, fail, driven by requests | not modelled (section 6) |
| Thumbnail generator (`thumbnail.go`) | job channel, `queued`, `failed`, `generations`, `generationRefs`, lifecycle per vault, active run, `commitMu`; one worker | enqueue, begin/discard/finish a job, `DeleteThumbnail`, `QuiesceVault`, `ResumeVault`, `ForgetVault`, `PrepareVaultRebuild`, `Stop` | `ThumbnailGenerator` |
| HLS streaming (`files_hls.go`) | `hls`, `hlsPending`, `hlsActive`, `hlsStarts`, owner references, `hlsLifeMu`, `hlsMu`, a goroutine and an FFmpeg process per stream | start, join, profile fall-back, stop, asset, idle and retention clean-up, the barrier of replacements, logout, deletion and shutdown | `HLSStreams` |
| Sessions and login (`store.go`, `auth.go`, `router.go`) | the session map, copies of keys, `scryptSem`, a janitor | create, get, refresh, delete, delete by vault, close; login, vault creation, logout, status | `SessionStore` |
| Vault deletion (`auth.go:236-366`) | none of its own: tombstones in every subsystem | quiesce tasks, quiesce thumbnails, HLS barrier, remove files, delete the row, drop sessions, forget | in each subsystem's module; composition planned |
| Start and shutdown (`cmd/server/main.go`) | process | recover, serve, close connections, shut HLS and tasks down, wait, close the database | in each subsystem's module |
| File API (`files.go`, `files_content.go`, `media_metadata.go`) | encrypted files, index rows, thumbnails | upload, mkdir, delete, view, download, ranges | `FileStore`, `ChunkFormat`; its effect on thumbnails and streams in their modules |
| File index and metadata (`internal/fileindex`, `internal/filemeta`, `internal/storage`) | `vault_entries`, `vault_file_metadata`, `tasks`, `vaults` | upserts in a transaction, deletion, clearing; paged duplicate report | rows in `FileStore` and `TaskManager`; the report and the parsing of probes not modelled |
| Encryption (`internal/crypto`) | files on disk, directory ids | chunked format and its offsets, replacement by rename, names bound to directory ids, removal of sources | `ChunkFormat`, `FileStore`; ciphers out of reach |
| Path guards (`internal/pathguard`) | none | validation against the file system | not modelled: pure I/O |
| Process groups (`internal/procgroup`) | none | kill and collect output of a child | not modelled: system calls |
| Web front end (`web/`) | browser state | polling and calls of the API | not modelled, except that `stopHls` (`web/src/lib/api.ts`) repeats itself |

How they interact: a request passes `authMiddleware`, which takes a snapshot of
its session, and then runs in a handler that calls one of the subsystems. The
thumbnail worker, the metadata probe and HLS start FFmpeg, which reads the
plaintext through the server itself, with an internal session. Requests that
change files (uploads, deletions, mkdir) hold the write side of `hlsLifeMu` and
stop the streams of the file; imports do so through a replacement guard that
they release before they index. The deletion of a vault visits every subsystem
in turn; each one publishes a tombstone, cancels, waits with a deadline, and
takes the tombstone back when a later subsystem fails.

What is hard, and what makes each component correct:

* **Task manager.** Admission is split over two critical sections with file
  I/O between them, `QuiesceVault` takes snapshots of two changing sets, and a
  resume may be deferred to a worker that outlives the deadline. Correct: one
  task per vault and kind, slots never leak, a deletion that passed its barrier
  meets no task and no row comes back, a running row has a worker, shutdown
  drains.
* **Thumbnails.** A job is in the queue, in a local variable of the worker or
  active; generations tell an outdated job from a current one, and their
  entries are reference counted and dropped. Correct: a thumbnail shows the
  current content, the counters are exact, markers have jobs, barriers hold,
  rebuilds and `Stop` end.
* **HLS.** Starts are shared, cancelled and retried, an FFmpeg process has
  three observers, references are counted per session, and one lock serialises
  all of it with the replacement of files. Correct: the limit is exact, one
  stream per file, no reference is stranded, nothing is left of a stream that
  ended, no stream shows replaced content, no barrier is held for ever.
* **Sessions.** Keys are zeroed in place while requests use them. Correct: a
  holder's copy is never zeroed, a copy without a holder always is, expired
  sessions go, no more keys are derived at once than allowed.
* **Files and index.** A file and its row are two stores written one after the
  other, by requests under `hlsLifeMu`, by an import that holds it for the
  file and not for the row, and by a rebuild that never takes it; the process
  may end in between. Correct: outside an operation on it a file and its row
  agree, a source is removed only behind its copy, nobody loses a file that
  nobody replaced, a rebuild repairs.
* **Chunks.** A range is mapped to a chunk, a skip and a limit, and a file may
  have lost its end. Correct: a response holds exactly the bytes asked for.

`PROJECT.json` lists every hazard at its line, with the properties that cover
it or the reason why none does.

## 2. Modules

| Module | What it is |
|---|---|
| `VaultGate` | abstract: what a background subsystem promises to the deletion of a vault; with a theorem |
| `TaskManager`, `MCTaskManager` | the task manager with deletion, shutdown and restart |
| `TaskManagerProofs` | theorems about `TaskManager` for all values of its constants |
| `ThumbnailGenerator`, `MCThumbnailGenerator` | the generator with the callers that commit, withdraw, rebuild, delete and stop |
| `ThumbnailGeneratorProofs` | theorems about `ThumbnailGenerator` for all values of its constants |
| `PlaybackLease` | abstract: what streaming promises about the files it shows |
| `HLSStreams`, `MCHLSStreams` | streaming with its barriers |
| `HLSStreamsProofs` | theorems about `HLSStreams` for all values of its constants |
| `SessionStore`, `MCSessionStore` | the session store with the handlers that create, use and end sessions |
| `SessionStoreProofs` | theorems about `SessionStore` for all values of its constants |
| `VaultContents` | abstract: what a vault promises to those who read its files; with a theorem |
| `FileStore`, `MCFileStore` | files, directory ids and index rows under requests, imports and rebuilds |
| `FileStoreProofs` | theorems about `FileStore` for all values of its constants |
| `ChunkFormat` | the encrypted format: writer, reader and ranges over one file |
| `ChunkFormatProofs` | theorems about `ChunkFormat` for all sizes |

An action is one critical section (of `Manager.mu`, `Generator.mu`, `hlsMu`,
`Store.mu`) with everything that goes with it, or one call outside of the locks
(a database write, a file operation, the end of a process). Mutants, operators
whose names begin with `Bug`, are plausible mistakes in the code; none is part
of a specification.

### VaultGate and TaskManager

`VaultGate`: owners are inside vaults, a vault can be sealed; a sealed vault
admits nobody and is opened only when empty.

`TaskManager`: `start[t]` is how far the `Start*` call of a task is, `work[t]`
how far its goroutine. `Authorize` is `authMiddleware`; `BeginTaskStart`,
`ReserveExclusiveTask` (`RejectSource` for its early returns),
`AdmitBackgroundTask` (`AbandonStart` when it fails) and `FinishTaskStart` are
the calls of `manager.go` of those names; `Settle` is the worker's last status
write, `FinishRun`, `CloseDone` and `LeaveWaitGroup` its deferred calls in
order. A deletion is a process of its own: `FindVault`, `PublishTombstone`,
`CancelTargets`, `Quiesced` or `QuiesceTimeout`, `LaterStepFails` (thumbnail
and HLS barriers, removal of files), `DeleteVault`, `DropSessions`,
`ForgetVault`, or `ResumeVault` and `StayQuiesced` for its error paths.
`Shutdown`, `StartsDrained` and `WorkersDrained` are the end of `main`;
`Restart` is a crash at any point followed by recovery, which settles the rows
left running. A status write may be lost (`lost`), since the code only logs the
error. The walks of the workers are in `FileStore`. Left out: progress counts,
upload records, request parsing.

### ThumbnailGenerator

`queue` is the channel, `life` the lifecycle of a vault, `cache` the four maps
of the bookkeeping, `work` the job in the hands of the worker, `commitMu` who
holds the commit lock. `Enqueue`/`Ignore` are `tryEnqueue`, `Receive`,
`BeginJob`, `RefuseJob`, `DiscardJob`, `StartGenerate`, `FetchFrame`,
`FetchFails`, `LockCommit`, `Commit`, `FinishJob` and `EndJob` the worker.
Versions of a file are numbers; `FetchFrame` fixes the version that the frame
shows, `Commit` puts it on disk. Writers are handlers and imports that
commit a file, then `Invalidate` (`DeleteThumbnail`) and enqueue, holding
`hlsLifeMu` where the code does; the rebuild is `PrepareVaultRebuild`, the walk
over the files with its retries against a full queue, and `WaitVaultIdle`; the
deleters are `handleDeleteVault` seen from here. Left out: the search for
encoders, image formats, time-outs of FFmpeg (a frame may fail at any time).

### HLSStreams and PlaybackLease

`st[s]` is the progress of the goroutines of a stream, from `queued` over
`trying`, `warming` and `ready` (pending) to `live` and `retained`
(registered), `removing` and an end. A viewer is a player with its requests, a
writer a request that takes the barrier. `reads` collects the versions of the
file that the process has read, which is what the lease is about. Idle stops,
start-up time-outs, process exits, stalled clients and expiring sessions may
happen at any time. Left out: command lines, playlists, the codec search, the
cool-down of a failed profile (the next profile may be taken or not).

`PlaybackLease`: a listed stream shows the current version of its file, and the
file is not replaced before the stream is off the list.

### SessionStore

A copy of the keys of a vault is a token: of the store, of a request, or of a
handler that has just derived it. `unwiped` is the set of copies in memory. The
clock is read before the lock where the code does so (`Arrive`), so a session
can be refreshed or dropped between the look at it and the write lock
(`SeeExpired`, `DropExpired`). `Close` ends the janitor while handlers go on.
`Has` is `Authorised` in `HLSStreams`. Internal sessions are those of the
metadata probe and of the thumbnail worker; those of HLS are `login` in
`HLSStreams`. Left out: passwords, cookies, session ids, rows other than the
vault's.

### FileStore and VaultContents

`disk[f][i]` is what is stored under the name of `f` encrypted for directory id
`i`; `dirId` is the id a directory has now, so `Current(f)` is what
`ResolveExistingFilePath` leads to, and a file under an id that is no longer
current cannot be listed or read. Slot 0 stands for the place a file gets when
its directory is missing: the import makes one under the name of a file
(`stray`), even one that then fails, and a later rebuild lists it, cannot hash
it and fails. A content is a number that stands for bytes, hash, size and
duration together; `entry` is the index row with the metadata, each part with
the content it was taken from, so a row mixed from two contents can be seen.

`UploadOpen`, `UploadRename`, `UploadIndex` (and their failures) are
`handleUploadFile`; `Mkdir*` and `Delete*` are their handlers, a directory
being removed file by file, each with its row. `Import*` is
`encryptDirRecursive`: `ImportDirectory` gives the directory an id without the
lock, `ImportLease`/`ImportEncrypt` hold it for one file, `ImportProbe` and
`ImportStore` do not, `ImportClaim`, `ImportUnlink` and `ImportRestore` are
`RemoveSourceFile`, and `EmptyDirsGo` is `removeEmptyDirs`. `Rebuild*` is
`runRebuildIndex` with `rebuildEntryIndex`. `SourceChanges` is a downloader,
`Crash` a process that ends and starts again. The variables `suspect`,
`unlinked`, `superseded` and `quiet` only remember; `suspect` holds the files
whose row the code is known to leave wrong, each added at the step that does
it: a failed index write, an end of the process between rename and row, a
directory id written over another, an overlap with a walk that still held an
older reading. Everything else must agree.

Left out: directories in directories, a name used for a file and a directory,
long names (`.c9s`) beyond what listing and removal have in common with others,
source files that are quarantined or temporary, power loss (`fsync` of files is
in the code, of directories it is not), a barrier that turns a request away
(nothing changes), and batch deletion, a sequence of deletions. Thumbnails of
the same operations are in `ThumbnailGenerator`.

`VaultContents`: each path has a content or none; the one holder of the lock
changes it, file by file; without the lock a content can only vanish, when its
directory is created again. That last clause is finding 3 in the words of a
promise, and the weakest one that the code keeps.

### ChunkFormat

The plaintext is the numbers of its bytes. `Write` and `Close` are
`EncryptingWriter`; a chunk on disk is its place, its number and its bytes, and
`Opened` lets a read succeed only if what was read is one whole chunk under its
own number, which is what authentication gives. `First`, `Last` and
`Satisfiable` are the arithmetic of `handleRangeRequest`, `CipherOffset`,
`ChunkIndex` and `SkipBytes` place the reader, and `ReadBuffered`, `ReadChunk`,
`ReadEOF` and `ReadCorrupt` are `DecryptingReader.Read` called with any room.
`LoseEnd` truncates the file at any byte; the format has no mark of its end, so
what is left is served as if it were all. Left out: other damage, a client that
goes away, the parsing of the header text, archives of directories.

## 3. What is checked

Constants name small sets; a `CONSTRAINT` restricts a run to a union of casts
of actors, spelled out in its MC module, because the product of all actors is
too large. Where properties are about pairs (two tasks of a slot, two viewers
of a stream, a deletion and its retry), both members of the pair are there, and
a constraint never cuts the end of a started operation short except through
the cast itself.

| Run | Instance | Shows |
|---|---|---|
| `TaskManagerLifecycle` | 2 imports of a vault, a rebuild of another, 2 deleters; casts with a crash and a lost write: the two imports, an import and the rebuild, an import and a deletion of its vault; casts without: an import and two deletions of its vault, the two imports and a deletion of their vault, an import and the rebuild and a deletion of either vault (all but this last one with shutdown) | the slot is exclusive and never leaks, the barriers of deletions and of shutdown drain, deleted rows stay deleted, running rows have a worker, a deferred resume has an owner, terminal rows are final, `VaultGate` is implemented; shutdown drains, deferred resumes are honoured |
| `TaskManagerLateStart` | one import, one deletion | **violated**: a task starts in a vault that was deleted |
| `ThumbnailFiles` | 2 files, a handler, an import, a failing frame, an empty file, 2 deletions, `Stop` | counters, markers and references are exact, thumbnails are fresh, the barrier holds, `VaultGate` is implemented |
| `ThumbnailLiveness` | 3 files in 2 vaults; a rebuild and `Stop`, two rebuilds, two deletions, or a deletion beside another vault | a cache that is being removed stays empty; `Stop` returns, a rebuild ends, markers and tombstones go |
| `ThumbnailStaleFrame` | one file, 3 versions, a rebuild | **violated**: a thumbnail of replaced content is committed |
| `HLSSafety` | 4 viewers of 2 sessions and 2 files, 2 starts, a replacement, a logout, a deletion, a shutdown | one stream per file, references are not stranded, a logged-out session owns nothing, an ended stream leaves nothing, the barrier is exclusive, `PlaybackLease` is implemented |
| `HLSLiveness` | 1 slot, 2 profiles, 2 starts, 2 viewers, a replacement or a shutdown | slots are exact, starts are answered, stopped streams free slot and segments, barriers are released |
| `Sessions` | a login, a new vault, background work, 2 requests, 2 of the five at a time; 2 sessions, 1 derivation slot, 3 instants | copies of keys are wiped when nobody holds them and not before; expired sessions go; derivations are limited |
| `FileStore` | a file in the root and one in a directory; casts: 2 requests and a rebuild, 3 requests and imports, or one of these with a rebuild; a failed write or a crash; a source that is replaced | files and index agree, sources go behind their copies, `VaultContents` is implemented, a quiet rebuild repairs any index |
| `FileStoreReachable` | 2 imports of a directory with 2 files | **violated**: what was moved into the vault cannot be reached |
| `FileStoreStaleRow` | an upload over a file, a rebuild | **violated**: the row and duration of the old file replace those of the new |
| `ChunkFormat` | files of 0 to 10 bytes in chunks of 3, truncated anywhere, every range up to two bytes past the end, reads of 1 to 4 bytes | sizes, offsets and responses are exact |

Why the bounds are enough to be of interest: a lifetime of 1 and three instants
let a session expire before, between and after the steps of a request, and be
refreshed in between; a queue of one job is full with the second; two versions
let a frame be outdated, and the third is needed only for the stale frame;
two requests, or a request and an import, on one of two files are the pair that
may overlap in `FileStore`, and two imports are an import and its repetition;
chunks of three bytes have a first, an inner and a last byte, and ten bytes
give a file with three full chunks and a short one;
two starts are a start and its successor for the same or another file; two
deletion attempts are a deletion and its retry. One thing they do exclude:
more than two concurrent operations of one kind, and the combinations of actors
that no cast of a run has. For safety the proofs of section 4 close that gap;
for liveness it stays. Every property of a passing run has a mutant of the code
that breaks it within the same bounds, and every action occurs in some passing
run.

`SessionStore` does not say what keys are for: that a request whose snapshot is
cut from the store's keys would fail is said by `KeysAreExact`, which counts
the copies. Two things are known not to hold there and are set aside by name:
the copy that `authMiddleware` leaves behind (`LeftKeys`), and sessions of
vaults that are gone.

### Fairness

* Goroutines of the server that can take a step take it: walks over a finite
  tree end and stop at a cancelled context, waits have deadlines, a process
  that was killed dies. This is weak fairness of every process's steps.
* Clients, crashes, signals, the clock, failures and FFmpeg's success owe
  nothing. An idle or stalled client may stay so for ever.
* HLS handlers are strongly fair, because `sync.RWMutex` lets the readers that
  wait pass before the next writer; without it a stream of replacements could
  keep a start waiting.
* `main` closes all connections before it shuts HLS down, so a response does
  not go on for ever after that; before, it may, since an asset is sent without
  a write deadline. `StopsComplete` is conditional on that.
* `FileStore` and `ChunkFormat` state safety only and assume no fairness.
* `Janitor` is weakly fair: its ticker fires every five minutes while the store
  is open. In a closed store it never runs again, which is what makes
  `ExpiredKeysGo` a statement about `Create` as well.

## 4. What is proved

`VaultGate`, theorem `SealsHold`: for any owners, vaults and assignment, a
sealed vault only gets emptier, and its seal is broken only when it is empty.

`TaskManagerProofs`, for any tasks, vaults, deleters, numbers of attempts, lost
writes and restarts, from `TasksAssumption` and `BoundsAssumption`:
`TypeCorrect`, `SlotsAreExclusive` (from `AtMostOneTaskPerSlot` and
`NoSlotLeaks`), `BarriersAreDrained` (from `QuiesceIsABarrier` and
`ShutdownIsABarrier`), `DeletionIsFinal`, `NoOrphanedRow`, `NoForgottenResume`,
`TerminalRowsAreFinal`, and `ManagerImplementsGate`, from which
`TombstonesHold` carries the promise of the gate over to the tombstones of the
manager.

All of them rest on one inductive invariant, `IInv`. The properties speak of
what goroutines do (`start`, `work`); the code decides by what the manager has
registered. `Registered` and `Slots` say that the two agree: a task is in
`pendingStarts` or `running` exactly while its call or its worker is at certain
steps, and the two slot maps are inverse to each other and list exactly the
tasks that hold a slot. `Unadmitted` says that before admission there is neither
worker nor row. `Standing` is the heart of the barrier: as long as a deletion's
own tombstone was never lifted, whoever is left in the vault is among the
targets that this deletion waits for, since nobody new is admitted; so when they
have gone, nobody is left. The ghost variable `standing` is needed because the
code lifts tombstones that belong to somebody else (section 5);
the theorem is about the deletions that this has not happened to. `Closing`
does the same for shutdown, `Rows` for status writes. There is one lemma per
conjunct, and in it one step per action.

`SessionStoreProofs`, for any vaults, creators, requests, sessions, slots and
clock, from `SessionsAssumption` (the creators are finitely many, which the
count of slots needs): `KeysAreWiped`, that is `KeysAreExact`;
`DerivationsAreLimited`, that is `TypeOK` with its bound on `slots`; and
`ClosedStaysEmpty`. Its invariant says `KeysAreExact` copy by copy (`Copies`),
counts the slots exactly (`SlotsAreExact`, so that no `slots - 1` can fall below
zero), and adds that only an open store stores.

`ThumbnailGeneratorProofs`, for any keys, vaults, requests, imports, deletions,
queue and numbers of rebuilds, versions and failures, from `KeysAssumption`,
`CallersAssumption` (the callers are told apart), `QueueAssumption` and
`ThumbnailBoundsAssumption`: `TypeCorrect`; `JobsCounted`, that pending counts
and queue markers are exact; `QuiesceExcludes`, that is `QuiesceIsBarrier`;
`RemovedCacheStaysEmpty`, that is `CacheStaysEmpty`; and `GateIsKept`, that is
`ImplementsGate`, from which `TombstonesHold` carries the promise of the gate
over to the tombstones of the generator. The rest is true on a condition that
the code makes necessary, and says so. `BookkeepingExact` is the whole of
`BookkeepingIsExact`, references included, until a rebuild has begun: a rebuild
purges the references of its vault under jobs that are still queued.
`ThumbnailsFresh` is `FreshThumbnails` until a rebuild has begun or a commit has
lost its index entry: after a rebuild it is false (`ThumbnailStaleFrame`,
section 5). The run `ThumbnailFiles` is an instance without either, so these
two theorems cover what it checks.

The parts of its invariant: `LockOK`, who holds `commitMu`, and that the cache
is empty between its removal and the purge. `BarrierOK`: a tombstone stands as
long as nobody else lifted it, and behind a caller that has ceased to wait
nothing of its vault runs. `PendingOK` counts the jobs of a vault in the queue and
in the hands of the worker; the counting itself is a handful of lemmas about
positions in a sequence (`Places`: what appending a job and taking the first one
do to the number of jobs of a kind), since a count over a queue is what the
provers do not see by themselves. `RetireOK`: only a vault whose row is gone is
forgotten, and a rebuild that runs is counted. `RefsOK` counts references in the
same way. `FreshOK` is what freshness needs besides: no job carries a generation
beyond the current one (`GensEq`), so one that was withdrawn never becomes
current again; and the frame of a current job, like the thumbnail on disk, shows
the committed version, or whoever committed the next one has still to withdraw
it (`FrameEq`, `ThumbEq`).

`HLSStreamsProofs`, for any sessions, viewers, files, barriers of the four
kinds, streams and profiles, from `ViewersAssumption` (the viewers are finitely
many, which counting references needs), `BarriersAssumption` and
`HLSBoundsAssumption`: `TypeCorrect`, `SlotsExact`, `FilesAreShared`,
`NothingIsStranded`, `EndedIsGone`, `LogoutReleases`, `BarrierExcludes` and
`LeaseIsKept`, that is `ImplementsLease`. Four of these properties are parts of
the invariant as they stand. What it adds: `LifeOK`, what there is of a stream
(process, internal session, directory, references, file) in each state of its
goroutines; `ViewersAtStreams`, that a request waits at a stream of its own file
that has begun; `BarriersOK`, that a barrier which holds `hlsLifeMu` waits for
every known stream of the files it is about, and that past its wait all of
these have ended; `LogoutsOK`, that a logout leaves no reference and that its
session does not come back; and `ReadsOK`, that a running stream has read
nothing but the current version of its file. The argument for the barrier:
nobody who does not hold the lock starts a stream while a barrier is inside, and
what has ended stays ended, so the streams it knew are all there are. The lease
follows: a file is replaced only past such a barrier, when none of its streams is
known, so what a known stream has read stays current.

`VaultContents`, theorem `UnlockedContent`: for any paths, contents and
holders, what a reader has seen at a path stays there until somebody holds the
lock or creates the directory anew.

`FileStoreProofs`, for any paths, source directory and kinds of requests, and
any numbers of contents, ids, requests, imports, rebuilds, crashes and
failures, from `PathsAssumption` and `BoundsAssumption`: `TypeCorrect`;
`NoSourceIsLost`, that is `SourceBehindCopy`; and `FilesImplementContents`,
that is `ImplementsContents`, from which `FilesAreStable` carries the theorem
of `VaultContents` over to the files. `TypeOK` is inductive as it stands;
besides the types it says (`LockOK`) that `hlsLifeMu` is held exactly by the
request at work or by the import at its replacement. `SourceBehindCopy` needs two facts
more, both about an import that still holds the source in its hands: what it
is going to remove is already in the vault or was superseded there
(`CopyFirst`), and being there is not undone without being remembered. The
refinement needs that a directory id which is handed out was never used
(`FreshIds`): only then does creating a directory hide all of its files and show none
of others.

`IndexFollowsDisk`, that is `IndexMatchesDisk`, and `RebuildIsExact`, that is
`RebuildRepairs`, rest on a second invariant, `IndexInv`. Its heart is
`FilesRight`. Of a file whose row nothing may have spoilt, and in a rebuild that
runs undisturbed of every file, it says four things: what the rebuild has listed,
hashed or probed, what an import is about to store and what an upload is about to
index is what the file is now; and the row is right unless one of them is at work
on the file or the rebuild has still to come to it. `RowsRight` says the same of the
rows of directories, `WalkOK` gives the shape of a walk, `QuietOK` that an
undisturbed rebuild is alone, `StrayOK` where files under a lost id lie, which
a rebuild stumbles over, and `GoneOK` that a file whose row is going to be
removed is gone and stays so. So the row written last is right whichever of an
upload, an import and a rebuild writes last; where that fails, the file is in
`suspect`, and the one case in which nothing is to blame but the overlap is the
run `FileStoreStaleRow`.

`ChunkFormatProofs`, for any sizes of header, nonce, tag, chunk, file, reads
and writes, from `SizesAssumption`: `SizesRoundTrip` (the two size formulas are
inverse), `AnnouncedSizesAgree`, `TypeCorrect`, and `ContentExact`, that is
`ContentIsExact`: sizes and responses. The invariant has two halves. `Layout`
and `Written` say where the writer puts which bytes: chunk `i` lies behind
`i - 1` full ones, and the size of a whole file is the formula of its content.
Of the reader, `InOrder` says that the bytes skipped and sent are all of those
from the first one asked for up to its place, `AtChunk` that the buffer is the
chunk before its position, and `Ended` what a response that ended has sent. The
argument for the end of a file: the size formula is monotone
(`AnnouncedGrows`), so behind a reader at the end nothing is announced, and
nothing promised is missing; and a chunk that does not open is torn, so no
later one is whole.

Every safety invariant, action property and refinement that a passing run
checks is proved. Two of them, as said, on the condition that the run fulfils;
what they say beyond it does not hold of the code.

Only model-checked: liveness, all of it (`ShutdownDrains`,
`DeferredResumeHonoured`, `StopDrains`, `RebuildEnds`, `LeftoversGo`,
`StartsAnswered`, `StopsComplete`, `BarrierReleased`, `ExpiredKeysGo`). It rests
on fairness, that is on ENABLED, which the installed provers cannot handle. No
module with a theorem uses recursion.

## 5. Findings

Four runs end in a violation of something the repository says of itself; each
is quoted in `PROJECT.json`.

1. `TaskManagerLateStart` (`manager.go:269`): a request that was authorised
   before a deletion and reaches `beginTaskStart` after `ForgetVault` starts a
   task for a vault that is gone.
2. `ThumbnailStaleFrame` (`thumbnail.go:921`): a refused job gives its pending
   count up before its marker and generation; when a rebuild reopens the vault
   in between, it clears those of its successor, and a later replacement is no
   longer recognised by the generation check.
3. `FileStoreReachable` (`vault.go:467`, `manager.go:983`): an import creates
   every directory anew, and with it a new id, under which the names of the
   files that are already there do not decrypt. A moving import that is
   cancelled and repeated, or any second import into a directory, makes what
   was there unreachable, and its source is gone.
4. `FileStoreStaleRow` (`manager.go:1115`): a rebuild takes size, hash and
   duration of a file over a time in which a request may replace and index it,
   and then stores them over the new row, where they stay.

Seen while modelling, and not the subject of a run:

* `manager.go:310`: a resume that a timed-out deletion deferred is still
  recorded when the deletion is retried; the last old worker honours it and
  removes the tombstone of the retry, whose `QuiesceVault` then returns success
  for an open vault, against the comment at `manager.go:667`. (Hence the ghost
  variable `standing`.)
* `files_hls.go:433`: a start turned down after FFmpeg was ready is reported
  ended before its process is killed, so a barrier, and `Shutdown`, may be
  through while it runs.
* `auth.go:273`: after a deletion that removed files and failed, a retry that
  fails in an earlier step resumes the workers, though `auth.go:335` wants the
  vault to stay quiesced.
* `thumbnail.go:538`, `:602`, `:724`: the generator has the stale resume of
  `manager.go:310` too, also from a rebuild's own deferred `ResumeVault`; and a resume
  deferred to jobs that are then refused is not honoured, so a vault may stay
  closed to thumbnails.
* `media_metadata.go:73`: a file replaced by an empty one keeps its thumbnail;
  `manager.go:1027`: so does one whose import is cancelled between the rename
  and the index write. `FreshThumbnails` is stated without these two.
* `files_hls.go:882`: a release is not idempotent. The web client repeats a
  stop, and the second one takes the reference of another player of the same
  session, although `files_hls_test.go:323-347` wants that player's stream to
  keep running.
* `files_hls.go:1336`: a stream leaves the map before its directory is removed,
  so a barrier retried after a time-out does not wait for it.
* `router.go:272`: a request for another vault than its session's returns before
  the deferred `Zero`; the comment at `router.go:285` promises the wipe.
* `auth.go:77`: a login under way during a deletion gets a session of the
  deleted vault.
* `files.go:308`: when the index write fails, an upload removes the file that it
  has already put in the place of the previous one.
* `manager.go:1035`: an import indexes after it has released the guard under
  which it renamed; another writer of the same path may come in between, and
  the row of the earlier one stays.
* `manager.go:1085`: a rebuild marks a directory as completely indexed before it
  has indexed its first child, and a rebuild that fails leaves the mark.
* `io.go:261`: an import into a directory that was deleted meanwhile makes a
  directory under the name of a file; every later rebuild of the vault fails on
  it until somebody deletes it.
* `manager.go:652`: `CancelTask` knows tasks with a worker only, so a cancelled
  upload task keeps its row running; and of the files of one upload task the
  last to arrive sets its status (`manager.go:640`).
* `manager.go:260`: a terminal status that could not be written leaves the row
  running until the next start of the server. This is modelled (`lost`).

## 6. Not modelled, and plan

Done: the task manager, thumbnails, HLS, sessions, files with their index, the
chunked format. Not modelled, and why:

* The composition of the deletion of a vault over all subsystems. Each module
  has the deletion as a client, with all later steps as one that may fail; the
  product of the modules is beyond TLC, and what their interfaces promise is in
  `VaultGate` and `PlaybackLease`.
* Upload tasks: requests change their rows one at a time under `hlsLifeMu`, so
  there is no interleaving; what is wrong with them is in section 5.
* The duplicate report and the listing of the index: reads over one snapshot of
  the database. Archives: a walk of reads.
* Path guards, process groups, the web front end: system calls and user
  interface without a protocol of their own.

Worth doing next: the safety steps that the liveness properties rest on (that
what has to happen is enabled, and that nothing undoes it); and a module of the
deletion of a vault over two or three gates, each an instance of `VaultGate`, to
prove what the composition of the subsystems promises.

## 7. Running it

    tlc -workers 2 -config TaskManagerLifecycle.cfg MCTaskManager
    tlapm TaskManagerProofs.tla
    tlapm ThumbnailGeneratorProofs.tla

`PROJECT.json` names the module and the configuration of each run, and maps
every definition to the lines it models. `HLSSafety` is the longest run, about
two and a half minutes; `FileStoreProofs` is the longest proof, about as long.
