# A TLA+ model of ar5iv-editor

ar5iv-editor is a browser editor for LaTeX with a live HTML preview: a Rust server
(axum and tokio, `crates/ar5iv-editor-server`) that keeps one directory of files per
session and converts them with the latexml-oxide engine, and a TypeScript client
(`frontend`). This directory holds its formal model: TLA+ modules translated from the
source, the TLC configurations that check them on small instances, and theorems proved
with TLAPS for every value of the constants.

All paths below are relative to `src/`; a bare `session.rs`, `files.rs`, ... is in
`crates/ar5iv-editor-server/src/`, a bare `main.ts`, `editor.ts`, ... in `frontend/src/`.

Contents: 1 inventory, 2 modules, 3 runs, 4 fairness, 5 proofs, 6 what differs from the
documentation, 7 abstractions, 8 what is not modelled, 9 plan.

## 1. Inventory

### Server

**Session registry** (`session.rs`, started in `main.rs`). State: `RegistryInner` (`by_id`,
`by_slot`, `by_user`) under one `RwLock`; the `Session` objects (which outlive their
entry in the `Arc`s of running requests); one directory per session below
`sessions_dir`, named by a token that is unrelated to the id. Operations:
`lookup_or_create` (fast path; else sweep, mint, seed, re-lock, insert or yield),
`enforce_per_user_cap`, `get`, `touch`, `gc_once`, `sweep_orphans`, `spawn_gc`. Hard:
the directory work is done outside the lock, by lists and snapshots taken under it;
handlers can be dropped at any await; a crash leaves directories and no registry.
Correct when: the three indices agree; a user never exceeds the cap; no live session
loses its directory; orphans and idle sessions do go; a 410 is never a lie.

**Warm engine pool** (`lsp_pool.rs`). State: the `children` map under an async mutex;
per engine `alive`, `pending` (request id to reply sender), `last_used_ms`, the `stdin`
mutex, and the process. Operations: `child_for` (sweep of dead and idle engines, reuse,
eviction, spawn and handshake), `convert`, `prewarm`, `reap`, the read task. Hard: the
map's mutex is held across a spawn and a handshake; an engine is returned before it
looks busy; the caller's future may be dropped at any await; the engine crashes, hangs
or stops reading. Correct when: no engine process runs outside the pool; the pool
exceeds its capacity only by what is in use; idle engines go; every conversion ends.

**Live preview** (`ws.rs`, `convert.rs`, client side `main.ts`, `ws.ts`). State: per
socket the current request, which a newer frame cancels; the worker thread's channel
and its burst; `Session.last_html`; in the client the request ids, `latestSeenId`,
`sentAt`, the pane. Hard: two lanes answer in different orders, cancelled requests are
never answered, one worker serves all sessions, connections break. Correct when: a
preview never goes back; it catches up with the last edit; the indicator goes off.

**Session files and quotas** (`files.rs`, `quota.rs`, `archive.rs`, `session.rs`). State:
the files of a session, `bytes_used`, `file_count`, `main_entry`. Operations: the
mutating routes PUT, DELETE, upload, upload-archive, mkdir, rename, clear. Hard: no lock
at all between routes; each checks, awaits, writes, and counts later; a failed or
abandoned request leaves its steps behind. Correct when: nothing on disk is uncounted;
the quota holds but for what overlaps; the main entry exists.

**Archives** (`archive.rs`). State: the extraction plan, the staging directory, the zip
under construction. Operations: the collectors for zip, tar and gzip, `build_plan`,
`unpack_into` (the seed of an upload's session), `unpack_overlay`, `export_zip`. Hard: an
archive is foreign data with caps at three levels; unpacking and zipping run on the
blocking pool while other requests write to the same directory. Correct when: an archive
comes in whole or not at all, exactly as it is; an overlay loses nothing that was there;
an export has every file once and can be imported again.

**Archive conversion** (`POST /upload`, `convert.rs`). A one-shot job on the shared worker
that zips the conversion's output, or answers with its log. Correct when it is answered,
and with sources as new as what had been saved.

**Engine output** (`take_frame` and the read loop in `lsp_pool.rs`, `parse_diagnostics` in
`convert.rs`). Pure; correct when the frames do not depend on how the reads cut the
stream, and every record of a log is reported with its own details.

**Path rewriting** (`convert.rs`), **wire protocol** (`ar5iv-editor-protocol`), **routes,
templates, examples, errors, configuration**: no shared state; not modelled.

### Client

**Browser editor** (`main.ts`, `editor.ts`, `files.ts`, `session.ts`, `toast.ts`). State: the
session envelope; the buffer store and the CodeMirror view; `activePath` in `main.ts`
and `active` in the file panel, which say the same thing in two places; the debounce;
the fatal card. Hard: every handler is a chain of awaits and any other may run between
two of them; a session may be gone at every request. Correct when: nothing typed is
lost from the tab; path and text of the open file belong together; what is shown is
what is saved once the page has settled.

**Source synchronisation** (`frontend-core`), **presentation** (panes, resizers, toasts):
pure or without shared state; not
modelled. **VS Code extension** (`vscode-extension`): a
second client; not modelled (section 9). **Deployment**: not modelled.

### How they interact

A client opens a session (registry), works on its files (files), and sends `convert`
frames over its socket (preview), which go to a pooled engine or to the worker and read
the session's directory. The registry may take the session away at any time: the file
routes answer 410, a conversion answers `session_expired`, and the client reopens the
slot, which gets a *new* session seeded from the slot's template. The modules meet at
these points: `SessionRegistry` has abstract handlers for the file routes; `LspPool` has
callers that are dropped, as `ws.rs` drops them; `LivePreview` abstracts the pool to an
engine that answers, fails or is passed by, and its worker serves archive jobs between
conversions; `ArchiveTransfer` has the files of an archive and reduces the other routes to
`OtherPut` and `OtherDelete`, while `SessionFiles` has all the routes and reduces an archive
to a list of files; `EditBuffers` abstracts the registry to `Expire` and the server's files
to what a client can tell of them.

## 2. Modules

| Module | Models | Lines of code |
|---|---|---|
| `SlotDirectory` | the registry's contract: which session a (user, slot) names, and what an open, a collection, a crash may do to it | `session.rs` |
| `SessionRegistry` | `lookup_or_create`, `gc_once`, `sweep_orphans`, `spawn_gc`, handlers on a session, crash and restart | `session.rs`, `main.rs`, `files.rs` |
| `SessionRegistryProofs` | the theorems of section 5 about it | |
| `SessionRegistryRefinement` | the proof that it implements `SlotDirectory` | |
| `LspPool` | the pool, its callers and its engines | `lsp_pool.rs` |
| `LspPoolProofs` | the theorems of section 5 about it | |
| `EngineOutput` | the framing codec and the reader of logs, as functions | `lsp_pool.rs`, `convert.rs` |
| `LivePreview` | client bookkeeping, socket handler, both lanes, the worker with its archive jobs | `main.ts`, `ws.ts`, `ws.rs`, `convert.rs` |
| `LivePreviewProofs` | the theorems of section 5 about it | |
| `SessionFiles` | the mutating routes of one session | `files.rs`, `quota.rs`, `archive.rs`, `session.rs` |
| `SessionFilesProofs` | the theorems of section 5 about it | |
| `ArchiveTransfer` | import, overlay and export of archives | `archive.rs`, `files.rs` |
| `Sums` | lemmas: what the folds of the community modules yield when they add up | |
| `ArchiveTransferProofs` | the theorems of section 5 about it | |
| `EditBuffers` | one browser tab against the sessions of its user | `main.ts`, `editor.ts`, `files.ts`, `session.ts` |
| `EditBuffersProofs` | the theorems of section 5 about it | |
| `MC*` | the small instances, symmetry, (pool) the inputs of `EngineOutput` and what is claimed of them | |

An action is what one task does between two awaits (in the client: between two
`await`s of one handler), or while it holds a mutex. `pc`, `hpc`, `stage`, `req[r].at` and
`task[t].at` say at which await a task is. `PROJECT.json` maps every definition to its
lines.

* `SessionRegistry`. A token stands for the pair (id, disk token). `OpenExisting` /
  `OpenMissing` are the two outcomes of the fast path; then `SweepSnapshot`, `SweepScan`,
  `RemoveDir`, `RemoveDone`; `CreateDir`, `SeedOk` / `SeedFail`; and under the second lock
  `Register` or `LoseRace`. `GcTick`, `GcRetire`, `GcUnlock` are `gc_once`, which holds the
  write lock across its loop (`Locked`). The handlers show why a collected session may
  answer 410, or come back as a directory: `create_dir_all` of the parent re-creates it.
  `Directory` is `SlotDirectory` with `bySlot` for the slots and `Fresh` for the sessions that
  no slot has named yet: tokens not minted, and those of creates in progress.
* `LspPool`. `Call`, then `child_for` as `Reuse` / `Evict` (one step under the map's lock, which
  also sweeps), `Spawn`, `HandshakeOk` / `HandshakeFail`; `Post`, `LockStdin`, `WriteOk` /
  `WriteFail`, `Receive` / `GiveUp`, `Reap`. `Drop` is the `select!` in `ws.rs`. `Crash`, `Clog`,
  `Answer`, `Die`, `ReaderEof` are the process and the read task. An engine is `clogged` once
  its pipe has run full under a writer and it does not read; a frame cut short by a drop
  leaves the stream `torn`, and what is written behind it may be lost.
* `EngineOutput`. `Turn` is one turn of `take_frame`'s loop, `TakeFrames` the loop, `Reads` the
  read task; `ReadLine` is the body of `parse_diagnostics`' loop.
* `LivePreview`. `Save` / `SaveInline` / `PutDone` / `Send` / `Clear` are the client's; `Send`
  includes what `handle_socket` does with the frame (cancel what is current, start a
  task); `GoWarm` / `GoCold` / `EngineReply` / `Stash` / `Cancel` are the request's task; `Drain` /
  `Skip` / `Read` / `Render` the worker; `Deliver` the client's `onWsMessage`. The task's `select!`
  is polled in either order: a signalled task is dropped (`Cancel`), but its last poll may first
  take the conversion to its next await (`GoesOn`), to the engine or into the channel, where
  it is "late": it preempts and supersedes like any other, and its reply goes nowhere. `Ask` is `POST
  /upload` and `Pack` the worker's answer; like `Drain` it follows the order of the channel.
* `SessionFiles`. Each route is a chain of steps (`PutBegin`, `PutStat`, `PutWrite`,
  `PutCount`, ...) that ends in `RefreshPick`, `RefreshStore` (`refresh_main_entry`, where the
  route calls it). `Abandon` drops a request at any await: its blocking work goes on.
* `ArchiveTransfer`. `Open` is the collector; `PlanDir`, `PlanDrop`, `PlanTake`, `PlanRefuse`,
  `PlanDone` are `build_plan`, an entry at a time. Then `WriteEntry` / `WriteFail` (import), or
  `StageSkip` / `StageEntry` and `Promote` / `OverlayFail` (overlay, whose caller counts in
  `OverlayDone`). `ExportWalk` collects the names, `ExportAdd` / `ExportFail` read them one by
  one, and `Reimport` sends the bundle in again.
* `EditBuffers`. User actions (`Type`, `ClickFile`, `ClickPreview`, `ClickDelete`, `ClickClear`,
  `NewFile`, `Upload`, `ChooseExample`) start tasks; `ServeFile`, `ServeGone`, `ServeSession`,
  `Fail` answer requests in any order; the rest are the stretches of the handlers after
  an answer. `Expire` takes a session away; `Reload` is the fatal card's countdown.

## 3. Runs

| Run | Instance | Shows |
|---|---|---|
| `registry_safety` | 2 requests, 2 users, 2 slots, 2 tokens, cap 1, timeout 0, 1 crash | `TypeOK`, `IndicesAgree`, `PerUserCap`, `LiveDirsExist`, and refinement of `SlotDirectory` |
| `registry_inflight` | 1 creator, 1 handler, 2 tokens, timeout 1, clock to 3, 1 crash | `GoneMeansExpired`, `LiveDirsExist`; liveness `OrphansRemoved`, `IdleCollected` |
| `pool_patient` | 2 callers never dropped, 3 directories, 3 engines, capacity 2, engines that clog | `TypeOK`, `EnginesAccounted`, `PoolBounded`, `IdleReaped` |
| `pool_dropped` | 2 callers, one of them dropped at any await, engines that clog | liveness `ConvertSettles` |
| `pool_leak` | 1 caller that may be dropped | *violated*: `EnginesAccounted` |
| `preview_worker` | no pool: 2 tabs of one or two sessions, 2 frames each, 1 edit per session, failures, a cut, clear | `TypeOK`, `NeverBackwards` |
| `preview_alone` | 1 tab, 3 frames, 2 edits (the boot conversion is a frame), both lanes or the pool alone, 1 archive job | `DownloadCurrent`, `NeverBackwards`; liveness `CatchesUp`, `IndicatorSettles` (late requests excepted, section 6), `DownloadAnswered` |
| `preview_crossed` | 2 tabs, 1 frame each, worker lane | *violated*: `CatchesUp` |
| `files_mixes` | 2 requests, 3 names in a tree, sizes 0..2, quota 2 bytes and 3 files | `TypeOK`, `NothingUncounted`, `QuotaHolds`, `EntryExists`, `CountNeverWraps` |
| `archive_transfer` | archives of up to 3 entries in 4 formats, 15 names, caps of 3 entries and 2 levels, quotas 2 / 4 / 5, 3 seeded directories, 1 other request | `TypeOK`, `ImportedIffSound`, `ImportExact`, `OverlayMerges`, `OverlayCounted`, `ExportComplete`, `RoundTrip`, `EntryOpens` |
| `editor_users` | 2 tasks, 2 files, 2 slots, 2 edits, 2 sessions per slot, 8 kinds of user | `TypeOK`, `NothingTypedIsLost`, `OpenFileIsShown`, `SettledIsSaved` |
| `editor_crossed` | a user who opens a file while typing | *violated*: `TextUnderItsName` |

`MCLspPool` also states three facts about `EngineOutput` as assumptions, which TLC evaluates
when a pool run begins, over the inputs its constants bound (in `pool_patient`: streams of
3 frames or malformed headers with bodies of 2 marks, arbitrary streams of 6 marks, each
cut in two reads at any place; logs of 4 lines): `FramesRecovered` (what was framed is read,
whatever is in the bodies), `CutsIrrelevant` (the reads do not matter, not even to garbage)
and `RecordsReported` (a reference reading of a log, block by block, agrees).

Why the bounds are enough. The races of the registry are between a sweep or a collection, a
create and an eviction: two creators and the GC task have every pair of them, two tokens let
one session be evicted for the other, and a cap of one makes every second open an eviction.
With the timeout at 0 every tick expires everything, the hardest case for the sweep's age
check. In the pool an eviction needs capacity + 1 directories, and an overshoot two callers.
On one lane a preview can go back only through two requests of a tab, the burst needs
two tabs, and a late request needs one newer than itself; between two lanes it takes three (section 6). In
the files run the quota is as large as one file, so the boundary is met at once; `MaxBytes`,
`MaxCount` and `MaxStray` only cut off growth the code does not bound itself. The archives
hold every pair of a usual entry and an odd one (a wrong name, a link, a bomb, a name twice,
a file where a directory must be, one too large, too deep or left out), with the quotas just
above and just below what they bring; one other request is enough to come between a check
and a rename. In the editor two tasks give every pair of overlapping handlers, two edits a
text older than another, two sessions per slot one expiry. Users are split into setups
(which kinds of action occur together) so that each is checked with every interleaving; the
setups together contain every action.

`SYMMETRY` is used only for runs without liveness properties. `CHECK_DEADLOCK FALSE` is
set for the preview and editor runs, which end when the bounds on frames and edits
are used up and everything has been answered, and for `archive_transfer`, which ends with
the second import.

`files_mixes` checks all routes one at a time, in every order and with clients that go away;
and, two at a time, those that remove and move nothing (`Growing`): PUT with PUT, upload or
archive, and two uploads. `NothingUncounted` is claimed of both. `EntryExists` is claimed of
overlapping requests that are `Growing`, and of requests one at a time if their clients stay and
no upload can meet a session that was emptied (`Steady`); so the run has two setups more, all
kinds but delete and clear, and all kinds but upload, with patient clients. What these
conditions leave out does break the properties; section 6 lists it. One such pair, a clear that
meets an archive being unpacked, is in the run for its own sake (the clear removes the staging
directory).

`editor_users` has hurried users, for whom `NothingTypedIsLost` and `OpenFileIsShown` are
claimed, and patient ones, who act when the page has settled (`calm`), for whom
`SettledIsSaved` is claimed too. Section 6 says which combinations are left out and why.

## 4. Fairness

Users are never obliged to act, clients never to send, the engine never to answer, and
nothing is obliged to crash or to be dropped.

* Registry: weak fairness of the GC task (the interval of `spawn_gc` fires again and
  tokio polls a woken task) and of a handler that has started. A creator has none; it
  may be dropped anywhere, and the orphan it leaves must still go.
* Pool: weak fairness of what a caller does by itself, timers included (`GiveUp`), and of
  a killed process's exit; strong fairness of taking a mutex, since tokio's `Mutex` is a
  FIFO queue while the mutex is free only now and then. Nothing makes an engine read:
  `ConvertSettles` therefore excepts the callers at a clogged pipe (`AtBlockedPipe`). They
  hold that engine's `stdin` and never the map's lock, so no other session waits for them.
* Preview: weak fairness of sending what has been scheduled (a debounce timer), of a
  PUT's acknowledgement, of each request's task and of the worker. A conversion ends
  because the engine's deadline and the in-process engine's time limit end it, and an
  archive job is one more message for the worker.
* Archives and files have no liveness property: their routes are straight-line code.

## 5. Proofs

`SessionRegistryProofs.tla` proves, for any sets of users, slots, tokens, creators and
handlers and any cap and timeout (assumptions: `None` is no token and no key, `Gc` is no
creator, the numbers are naturals):

| Theorem | Says |
|---|---|
| `IndexInvariant` | `Spec => []IndexInv` |
| `TypeCorrect`, `MapsAgree`, `CapHolds` | `[]TypeOK`, `[]IndicesAgree`, `[]PerUserCap` |
| `DiskInvariant` | `Spec => []DiskInv` |
| `LiveDirsSafe`, `GoneSafe` | `[]LiveDirsExist`, `[]GoneMeansExpired` |

*The indices.* `IndicesAgree` is not inductive: `Register` inserts `tok[c]` under `want[c]`, so
one must know that the token is in nobody else's hands and was minted for that slot
(`PendingOwned`), and `GcRetire` removes an id of a list taken earlier, so one must know it
is still registered, which the lock guarantees (`StaleLive`). `IndexInv` is their
conjunction. The queue facts (`WithoutFacts`, `AppendFacts`, `KeptFacts`) say what `retain`,
`push_back` and the cap loop do to a queue without duplicates.

*The directories.* `LiveDirsExist` needs an argument about time: a session registered
after a sweep's snapshot is not in the snapshot, and is spared only because its
directory is too young. `YoungDirs` states it: whatever is being seeded is younger than
the timeout, and so is, relative to the sweep's cutoff, every session registered behind
its back. This is where `Tick` is used: **a seed and its insert end within the idle
timeout**. That is an assumption (ten minutes by default, against a template or a capped
archive), and the code does not enforce it. `TodoDead` says that no list for
`remove_dir_all` names a live or half-made session, `Minted` that a new token is on no
list. Each invariant has one lemma per group of actions, and `IndexNext` / `DiskNext`
put them together.

`SessionRegistryRefinement.tla` proves `RegistryRefinesDirectory`, `Spec =>
ImplementsSlotDirectory`, from `IndexInv`, one lemma per group of actions. `Register` is a
`Bind` that costs the same user the slots of `Evicted` (`KeptFacts` says what the cap loop keeps,
`SlotExact` that what it drops was that user's); `GcRetire` is an `Expire`, and it needs
`StaleLive` and `SlotExact` to forget the slot it means and no other. A create that fails, loses
its race or is abandoned is a `Waste`: its token stays fresh as long as it is being seeded, and
nobody else has it (`PendingOwned`). Restart is a `Crash`, and everything else, sweeps and handlers
included, shows nothing.

`LspPoolProofs.tla` proves, for any finite sets of callers and directories, any set of
engines and any capacity (assumptions: `None` is none of them, ids start at 1):

| Theorem | Says |
|---|---|
| `PoolTypeCorrect` | `Spec => []TypeOK` |
| `NoEngineIsLost` | `Impatient = {}` implies `Spec => []EnginesAccounted` |
| `PoolStaysBounded` | `Impatient = {}` implies `Spec => []PoolBounded` |
| `IdleEnginesGo` | `Impatient = {}` implies `Spec => IdleReaped` |

*The mutexes.* `TypeOK` says who holds what: the map's lock is held exactly by the caller in
`spawn` or `handshake`, a `stdin` by the caller that writes to that engine. It is inductive,
also when futures are dropped.

*No engine is lost.* `Kept` adds that a caller about to insert an engine finds its slot
empty (the eviction emptied it, and the lock is held since), so that no running engine is
overwritten, and that what a caller takes off the map in `Reap` is no longer running. The
hypothesis `Impatient = {}` cannot be dropped: `pool_leak` is the counterexample.

*The bound.* `Owed` says that every entry of `pending` has a caller that still waits for it; so
each engine an eviction had to leave in the map, being busy, has a caller of its own, who
is not the one that evicts. Counting them (`EvictionMakesRoom`) leaves room for one more,
and `InRoom` carries that room from the eviction to the insert, under the lock. A dropped
caller leaves its entry in `pending`, which breaks `Owed`; hence the hypothesis.

*The idle engines.* An engine counts as idle for the sweep of `child_for` only when nothing is
`pending` on it. By `Owed` an engine that no conversion uses has nothing pending, unless it is
in its handshake, whose caller holds the map's lock (`IdleIsStale`): so the sweep that begins a
lookup takes it (`EntersAlone` says that only that step lets a caller pass).

`SessionFilesProofs.tla` proves, for any finite set of requests, any mix of routes, dropped
requests included, any tree of names and any quotas (assumptions: names have at most two
segments, `None` and `Dir` are no names or numbers, the file quota is less than `CountMod`,
since both are `u32`, and `FilesBoundsAssumption`: the bounds on `file_count` times the number of
requests at once stay below `CountMod`; the default quota is 200 files, against 2^32):

| Theorem | Says |
|---|---|
| `FilesInvariant` | `Spec => []FilesInv` |
| `FilesTypeCorrect` | `Spec => []TypeOK` |
| `QuotaNeverExceeded` | `Spec => []QuotaHolds` |
| `FileCountNeverWraps` | `Spec => []CountNeverWraps` |
| `EveryByteCounted` | `Spec => []NothingUncounted` |
| `EntryIsAFile` | `Spec => []EntryExists` |

*The types.* A name exists only inside a directory (`Tree`), which every write, `mkdir`, rename,
unwrap, promotion and removal keeps, although each acts on a path it resolved before its last
await; and a request has the locals its next step reads (`Good`).

*The quota.* `bytes_used` alone is not bounded inductively: between its check and its count a
request owes what it has written (`Owed`). `BytesBounded` bounds what is counted and owed
together. A check reads the counter only, so it may pass while all the others owe; but they owe
at most a file each, and the checker owes nothing before, hence the quota plus one file for
every writer but one (`OthersOwe`, `Step`). Archives are excluded, as in the property: the
overlay checks no quota. What is owed is a set of pairs of a request and a byte, whose size takes
the place of a sum over requests, which would need an induction.

*The file count.* `CountInv` has two parts. What is counted and what requests have yet to count
(`FilesOwed`) fit below `CountMod` together (`CountFits`): a request that passes the check adds
at most one round of the bound, and owed nothing before. And a delete that has read the count
in `DeleteUncount` finds no less when it subtracts in `DeleteLess`, since everyone else only adds,
unless another request deletes or clears (`OneDeleter`, the condition of the property).

*Every byte.* A PUT adds the difference to a size that it read before it wrote, and a delete gives
back a size that it read before it removed. So the disk alone is not enough: `Known` has the
bytes on disk *and* those that a request saw when it looked, as pairs of a name and a position,
where two requests that saw the same file count once. `Counted` says that they are no more than
what is counted, left behind and owed (`Due`). A write then adds to `Known` at most what it
owes; a step that counts moves a weight from the requests to the counter (`WeightMoves`). When
something is removed or moved the argument needs that nobody else has seen it: then there is one
request only (`Alone`), and what it saw is as it was (`Undisturbed`). At rest nothing is owed, and
`Total`, a fold, is the weight of the files (`FoldOfFunction`).

*The main entry.* `EntryKept`: the main entry is a file or none, and so is a pick that is about to be
stored, unless a lone request has removed something and will still look again (`Mending`). No
upload may unwrap meanwhile; where nothing takes files off the count (`NothingTaken`) it is at
least one from the beginning, because a slot is seeded, so no upload finds the session empty.
The three facts are one invariant, `DiskInv`, with `IsFiniteSet(Files(node))`.

`ArchiveTransferProofs.tla` proves every property of `archive_transfer`, for every archive,
directory, policy, cap and interleaving with other requests:

| Theorem | Says |
|---|---|
| `OverlaySafe` | `Spec => []OverlayMerges` |
| `ArchiveInvariant` | `Spec => []ArchiveInv` |
| `ArchiveTypeCorrect` | `Spec => []TypeOK` |
| `ImportsAreWhole`, `ImportsAreExact` | `[]ImportedIffSound`, `[]ImportExact` |
| `OverlaysAreCounted` | `[]OverlayCounted` |
| `ExportsAreComplete`, `ExportsComeBack` | `[]ExportComplete`, `[]RoundTrip` |
| `EntryIsThere` | `[]EntryOpens` |

The assumptions say what names, directories and archives are, and bound none of them in size.
Names are normal, as `resolve_in_session` and `normalize_archive_path` leave them, with the
names above them, and the byte order of `sort` tells them apart (`TransferPathsAssumption`);
the generated files have extensions that archives may not bring; a template's directory holds
finitely many names, each below directories (`TransferSeedsAssumption`); an archive is a list
of entries, one if it is a gzipped file, and what it may bring are names
(`TransferInputsAssumption`). The caps are any naturals.

*Overlays.* `KeptInv` says that under Skip nothing that was there and that nobody else has
touched is staged or replaced: the check against the disk in `StageSkip` is later than
`before`, and only other requests, who leave a mark in `touched`, make the disk differ from it.
`OverlayInv` adds where each name comes from that nobody else has touched (`Origins`) and what
has become of each planned file (`PlanStaged`: not yet looked at, settled, staged, or
promoted); when everything is promoted it gives `OverlayMerges`.

*Everything else* is one invariant, `ArchiveInv`, in four parts. `Typed` has what each variable
holds; that a write keeps the directory one rests on `CanHold`, which the code gets from
`create_dir_all` failing (`StoreDirectory`). `ImportInv` has what the plan is of the archive's
first entries: the files among them that may be brought, in order, each once, within the caps,
with `total` their size (`PlanOf`); and that the directory is what the plan's first items make
of an empty one (`Written`). So a refusal has a reason: `PlanRefuses` reads it off the archive,
with `ReadableCaps` for what the collectors refuse, and `WriteRefuses` finds, for a file that cannot be written, an earlier one whose name is above
or below its own. `CountInv` says that the counters and the sizes of what has been promoted so
far cover the directory, exactly so under Skip (`Covers`): the code counts once at the end,
and what is promoted over a file makes the counters too large, never too small.
`ExportInv` says that each file that nobody has touched since the walk is in the bundle or
still to be read, and that the archive of a second import has the bundle's files. `RoundTrip`
takes both ends: `ImportInv` for what comes in, `ExportInv` for what went out.

*Sums.* `total`, `bytes_used` and what a plan weighs are folds, and a fold would need an
induction over data for each use. `Sums` has one instead: the weight of a set is the number of
pairs of an element and a number below its size (`Weight`), a fold over a set or a sequence
yields its weight (`FoldOfSet`, `FoldOfSizes`), and weights of disjoint, equal and smaller
sets are facts about finite sets. For the sum over a function (`FoldOfFunction`) the recursive
function of the library exists and is unique (`AddsUpExists`, `AddsUpUnique`). Where an induction is left it is by a least
counterexample, which needs only that the naturals are well-ordered (`LeastNumber`).

`LivePreviewProofs.tla` proves, for any sets of tabs, sessions and archive jobs and any bounds
(assumptions: `None` is no number, request or status, a tab has at least the boot frame,
archive jobs are not requests):

| Theorem | Says |
|---|---|
| `PreviewTypeCorrect` | `Spec => []TypeOK` |
| `DownloadsAreCurrent` | `Spec => []DownloadCurrent` |
| `PreviewNeverGoesBack` | `Spec => NeverBackwards` |

*The types.* That a stamp is an edit and an id a frame needs two facts besides: what a tab has
in flight is its session's last edit (`PutsCurrent`), and frames sent, due and about to be due
stay within the bound together (`Budget`).

*The archives.* What a job was asked for with is not newer than the disk while it waits,
and the disk never goes back to something older, because a PUT in flight is current
(`DownloadPast`).

*The preview.* Results may be shown in any order that respects the ids, so it is enough that
of two results of a tab the later id shows the later edit (`ResultsInOrder`), and that the
pane is one of them, not behind `latestSeen` (`ViewIsResult`). The first takes the whole of the
server: the channel and the burst keep the requests of a tab in order (`QueueOrder`), but for
those that came late, whose results nobody sees (`Ahead` and `Known` leave them out; `LateStays`); a
request that waits has no result and is not known to any other lane (`Placed`), what the
worker has read is behind whatever still waits (`WorkerInOrder`), what has been read is not newer
than the disk (`ReadPast`), and on the pool alone only the boot frame of a single document
reads the disk at all (`PoolOnly`, `BootFirst`). The proof of `ReadPast` fails between the two
lanes, and for a good reason; see section 6.

`EditBuffersProofs.tla` proves, for any sets of files, slots, templates, handlers and users and any
number of edits and sessions:

| Theorem | Says |
|---|---|
| `BuffersInvariant` | `Spec => []BufInv` |
| `BuffersTypeCorrect` | `Spec => []TypeOK` |
| `TypedTextStays` | `Spec => []NothingTypedIsLost` |
| `ActivePathIsShown` | `Spec => []OpenFileIsShown` |
| `QuietPageIsSaved` | `Spec => []SettledIsSaved` |

*The types.* A handler that resumes after an answer uses what it captured before: the session,
the path and text of a PUT, the file to open, the text it was answered with (`Good`). Since any
other handler may have run meanwhile, each stretch is shown to leave its handler good and the
others alone. A session that is gone has a successor (`SessionsTyped`), so that reopening a
slot always has an answer.

*The text.* What is typed goes into the view, and is kept when the file is left because the
file that is shown has a buffer (`ShownIsKept`): `openBuffer` would keep nothing for a file
without one. Buffers go only all at once, together with the view.

*The open file.* `main.ts` and `editor.ts` each keep the open file; they agree because each
stretch that changes the view sets `activePath` too, to the same file or to none.
A swap is the exception (section 6), and `SwapsAsked` says that only users who choose examples
have one under way, which is what the property excludes.

*The server's copy.* For patient users `CalmInv` says that at most one handler waits, and that
whatever the tab keeps of a file, shown or not, is what the server has of it (`Synced`), except for
the file that is shown while its text is on its way (`Saving`) and for files that a delete or a
clear has taken and the tab still lists (`Dropping`). It has to speak of the buffers that are
*not* shown too, since showing one again saves nothing. `TaskCalm` says what a waiting handler
carries: a PUT carries the text that is shown, for the file that is shown; the answer to a GET is
what the server has; and only a save meets a session that is gone, for which it reopens the slot
and saves once more. Where sessions expire the other buffers would differ from the
template of the new session; there the user only ever has the main file open (`MainOnly`).

TLC checks only: liveness (`OrphansRemoved`, `IdleCollected`, `ConvertSettles`, `CatchesUp`,
`IndicatorSettles`, `DownloadAnswered`), which is beyond the prover; and what `EngineOutput`
computes, since `TakeFrames` is recursive. Every invariant and every action property of a passing
run is proved.

## 6. Where the code and its documentation differ

Shown by a run (`findings` in `PROJECT.json`):

* `pool_leak`: a conversion dropped during the handshake leaves an engine process in no
  map: the read task holds the last `Arc`, so `kill_on_drop` does not apply until the
  engine exits by itself (`lsp_pool.rs:52`, "Maximum number of warm children kept alive").
* `preview_crossed`: the burst keeps the last conversion *of all sessions*
  (`convert.rs:259`), so one user's request supersedes another's, which nobody repeats.
* `editor_crossed`: the debounce has captured the edited path but reads whatever buffer is
  active when it fires (`main.ts:830`): the text of one file is saved as the other. The edit
  reaches no file, or, where the switch saved it first, is overwritten there.

Noticed while modelling; the model has the behaviour, no run is spent on it:

* Registry: `put_file` on a collected session re-creates its directory and answers 200
  instead of the 410 of `docs/FileUI.md:200`; the sweep removes it later. Eviction goes by
  order of *opening*, since only the fast path bumps the queue, not by use
  (`docs/FileUI.md:156`).
* Pool: an engine that has been returned but has nothing in `pending` yet looks idle and
  may be evicted for another session (against `tests/lsp_pool_e2e.rs:117`, whose test
  waits). A reply sender of a dropped request stays in `pending` while its engine
  lives silent, which exempts the engine from idle reaping. The write to `stdin` is
  outside the deadline, so an engine that stops reading blocks every later request of
  its session for as long as it lives (`AtBlockedPipe`, the exception of `ConvertSettles`).
* Codec: a header without a length is dropped up to its blank line, so garbage that has
  no blank line of its own takes the next good header with it, and that frame's body is
  then searched for a header (`lsp_pool.rs` promises to "resync on the next header boundary").
* Preview, late requests: a cancelled request may go on for one more step, because the `select!`
  of `ws.rs:129` polls its branches in either order. When both tasks are woken together (by two
  file reads that end at once, or by the engine's mutex) the older one may enter the engine
  (`lsp_pool.rs:291`-317) or the worker's channel (`convert.rs:88`) behind the newer one and
  preempt or supersede it, before it is dropped itself. The newest request is answered "superseded",
  which `README.md:317` keeps for "any request overtaken by a newer one"; the last edit is not
  rendered until the next one, and the id of the cancelled request keeps the indicator on until
  then. `CatchesUp` and `IndicatorSettles` except exactly this (`Preempted`: the newest was
  superseded, and an older request of the tab was late); without the exception TLC finds both
  violated.
* Preview: a "fatal" answer takes only its own id off the indicator; what a broken
  connection lost is not sent again; `Stash` may store an HTML whose sources were
  cleared meanwhile; the worker may read the disk before a PUT in flight lands.
* Preview, two lanes: "the frontend filters by id *and* by the echoed `version` so stale
  convert results can't overwrite a freshest preview" (`README.md:318`, also
  `session.rs:186`), but `onWsMessage` compares ids only. A request that goes to the worker,
  is cancelled by the next frame and yet answered (the cancel signal and the reply race in
  `select!`) may have read a newer edit there than the next request had read for the pool:
  its result is shown, then the older one of the newer id, and the preview goes back until
  the following edit's result. It takes a pool that is passed by for some documents (`fallBack`,
  or a clear) and three frames; `NeverBackwards` is claimed, and proved, where one lane
  serves every conversion (`OneLane`).
* Files: uploads write in place and a refused batch keeps what it wrote
  (`docs/FileUI.md:620`); `unpack_overlay` promotes file by file (`archive.rs:115`), so a
  failure in between leaves some files promoted and uncounted; the 10 s cache that
  `quota.rs:62` describes does not exist. `EntryExists` breaks when a delete, a rename or
  a clear overlaps another request's refresh (the pick is stored late), and when a delete is
  abandoned after its removal. It breaks for one request at a time, too (`Steady` leaves this out):
  after a clear, an upload that is refused half way leaves `d/main.tex` on disk and not in
  `file_count`, and a mkdir makes it the main entry; the next upload finds a session of no files
  and moves its batch up one level; when a name comes twice, the second rename fails, and the
  `?` of `files.rs:477` ends the request before `refresh_main_entry` (`session.rs:204`: "on
  session creation and after every file-set mutation"). The main entry names a file that has moved.
  `NothingUncounted` breaks for PUT with delete or rename, delete with upload, and clear
  with PUT, upload, archive or rename: a PUT that overwrites has read the old size before
  the delete, and adds only the difference; and a delete gives back the size it read of a
  file that a rename has since moved away and another replaced. A delete dropped while its file is being
  removed leaves the counters, and perhaps the main entry, on a file that is gone. Two
  deletes of files no counter knows of may wrap `file_count` (`CountNeverWraps` excepts
  deletes that overlap each other or a clear).
* Archives: the policy is applied when a file is staged and the rename comes later, so a
  file created in between is replaced although Skip promises that existing files are
  kept; a failed promotion leaves what was promoted (`archive.rs:115` says "untouched").
  Overwrite adds a replaced file to the counters again. An import checks the number of
  entries against 500 and never against the session's file quota. `.def` and `.ldf` may be
  uploaded, and are dropped from archives, so an exported project may not come back
  whole; nor may one that compresses beyond the bomb ratio, which is refused. "A stray `.mp4`
  shouldn't sink a project full of `.tex`" (`archive.rs:327`), but in a tarball one above the
  per-file cap does: `collect_tar` applies the cap to every file (`archive.rs:547`), before the
  extensions are looked at, while `collect_zip` leaves it to `build_plan`, which comes to it only
  for accepted files. `Measured` states the difference in `ImportedIffSound`. A file
  deleted during an export fails it. `pick_default_entry` may answer a directory, for a
  project without `.tex` files or with a directory called `main.tex` (both excepted by
  `EntryOpens`); and reopening an upload's slot answers `main.tex` whatever the import chose.
* Editor: when a single document's session expires, the PUT's 410 is ignored in the belief
  that the conversion's answer repairs it (`main.ts:895`); that path reopens and converts
  from the template, and the edit is never saved. So `SettledIsSaved` is not claimed of
  sessions of single documents that expire, nor when one expires with edits in several files,
  or is reopened by a preview click or by a conversion's answer (nothing is PUT
  again: the other buffers differ from the template the server now has); when a file is
  created or uploaded over one that has a buffer (`closeBuffer` is never called, so the
  stale buffer shows and overwrites it; the dirty flag of `docs/FileUI.md:526` does not
  exist). A debounce that fires after a delete re-creates the file. A swap sets
  `activePath` before its text has come (`main.ts:1073`), which is why `OpenFileIsShown`
  leaves out behaviours with swaps. Two PUTs of one file may be served in either order.

## 7. Abstractions

Registry: a snapshot and its cutoff are one step, and so is a directory walk; the clock
waits for seeding (section 5); `AbandonOpen` is axum dropping the handler's future.

Pool: an `Engines` value no one refers to any more stands for a new object, so that
finitely many suffice; ids left in `pending` by dropped callers are bounded by `MaxId`.

Preview: a frame is handled in the step that sends it; a poll of a request's task is one
step, so that a signal in the midst of it counts as before or after it, and no reply comes
between its beginning and its end; a document is the number of its
last edit; a PUT is acknowledged before the next debounce fires or not at all as far as
the order of PUTs goes.

Files: names have at most two segments; opening, truncating and writing a file is one
step, as are a `mkdir` and a `rename` with their checks; an upload writes to the name it opened
as long as there is a file of that name, not to the handle; `read_dir` is a snapshot; a file is
its size; directory renames and the `version` counter are left out.

Archives: a name is a sequence of segments, a file its size and its writer; how well it
compresses is a number in an archive and a choice in an export; an archive's bytes are its
list of entries; a `\` in a name stands for a segment that `normalize_archive_path` refuses; and
an archive that cannot be read is one that breaks a cap or has no known
format. The page and styles of an offline export are one generated set.

Engine output: a stream is a sequence of line ends, lengths and other characters, and a
log line is one of the five kinds the parser tells apart.

Editor: a text is the slot and file it was opened from and its last edit; "contains
`\documentclass`" is "was opened from `main.tex`"; two handlers wait at a time; a reload
is one step, and abandons what the old page had not been served; for patient users a
session expires only when nothing is in flight (ten minutes have to pass).
Conversions appear only as "an answer is outstanding".

## 8. What is not modelled

Text processing (path rewriting, the search for `\documentclass`, `\input` paths, source
positions), HTML and DOM work, serialisation, static routes, the engine, deployment: pure
functions or output, for which unit tests are the right tool. `quota.rs`'s check of the
whole root's capacity at session creation: a directory walk whose result may be stale by the
next statement; it bounds nothing a property here speaks of. Binary files and directories in
the panel.

Hazards that are listed in `PROJECT.json` without a property, because the code does go
wrong there or nothing observable depends on it, say so in their notes: the HTML stored after
a clear (`ws.rs:145`), PUTs served in the opposite order (`main.ts:889`) and the swap that sets
its path before its text (`main.ts:1073`).

## 9. Plan

Done: `SessionRegistry` with its proofs and the refinement of `SlotDirectory`; `LspPool` with
its proofs; `EngineOutput`; `LivePreview` with the archive jobs and its proofs; `SessionFiles`,
`ArchiveTransfer` and `EditBuffers` with proofs of all their properties.

Left, most important first:

1. `ProviderClient`: the VS Code extension's providers, their life cycle and request
   generations; `ConvertClient`'s reconnect with back-off.
2. Directory renames and the `version` counter in `SessionFiles`; binary files and the
   errors of the boot in `EditBuffers`.
