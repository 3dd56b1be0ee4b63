# TLA+ models of putioarr

putioarr polls Put.io for transfers of one label, downloads the finished ones to a local directory, waits for
Sonarr or Radarr to import them and removes what was imported. It answers the Transmission RPC through which *arr
adds, lists and removes torrents, and it has a web UI whose commands reach into the same pipeline.

This directory holds TLA+ modules of its core, TLC configurations that check them on small instances, and proofs
that TLAPS checks for every instance. File and line references are to the repository (`src/` is its root).

## Inventory

| Component | State it keeps | Operations | What is hard | What makes it correct |
|---|---|---|---|---|
| Transfer orchestrator (`internal/transfer/transfer.go`) | the poll in progress; an unbuffered queue `OnDownloadQueued` | `watchTransfers`, `Requeue` | the poll blocks on a busy downloader; requeues come from HTTP requests; claim and send are two steps | a claimed transfer is queued once and not forgotten; an available one is downloaded in the end |
| Downloader (`internal/downloader/downloader.go`) | the current download, `activeDownloads`, workers and their semaphore, five unbuffered channels | `WatchDownloads`, `DownloadTransfer`, `DownloadFile`, `CancelDownload` | workers fail in any order while siblings write; cancellation; a channel without a receiver | a success has every file on disk; every download is reported; a failure removes nothing but its own release |
| Import watchers (same file) | one goroutine per downloaded transfer | `WatchForImported`, `cleanupAfterImport`, `removeReleaseRoot` | they live in memory only; the history knows paths, not transfers | nothing is removed before it was imported; what was imported is removed |
| Notification loop (`cmd/seedbox_downloader/main.go`) | the event in hand | `handleDownloadError/Finished/Missing/Imported` | unconditional updates that come late; statements that fail | the row says what became of the transfer |
| Downloads table (`internal/storage/sqlite/download_repository.go`) | status, `locked_by`, name per transfer; torrent hashes and seed criteria | claim, update, delete, reset; associate, resolve | several goroutines and processes; SELECT and upsert are two statements | one claim at a time; lock and status agree |
| Web UI commands (`internal/svc/transfers`, `internal/http/rest/ui.go`) | none between requests | retry, cancel, delete, reset, purge | each is several steps that interleave with the pipeline | no command leaves a row that nobody works on |
| Put.io client (`internal/dc/putio/client.go`) | none | list, list files, grab, add, remove | partial listings, errors taken for absence, cancel-then-delete | what it lists is what there is |
| *arr client (`internal/svc/arr/arr.go`) | none | `CheckImported` | paging through a history that grows; two apps, one of which is down | an import is recognised, and only an import |
| Transmission RPC (`internal/http/rest/transmission.go`) | none (hash and seed tables) | torrent-add, -get, -set, -start, -stop, -remove | two names of one torrent; seed goals; the gate on local files | *arr sees a torrent complete only when its files are on disk, and removable only when its goal is met |
| Composite status and views (`internal/transfer/status.go`, `internal/svc/transfers/service.go`, `timeline.go`) | none | `ComputeStatus`, `List`, `Get`, `buildTimeline` | Put.io, table and disk are read at three moments | one stage for every combination, true when it is shown, and no stage taken back |
| Empty-directory sweep (`internal/downloader/sweep.go`) | none | periodic removal | races with workers that make directories and with the pruning of parents | removes only what is empty and old, and all of that in the end |
| Process start and shutdown (`main.go`) | everything in memory | start, `services.Close`, exit | channels close under their senders; what a restart loses | the process ends, and does a transfer no more harm than a crash |

The goroutines of a process meet on unbuffered channels (poll or requeue to downloader, downloader and watchers to
the notification loop), share the downloads table and the download directory, and the web UI's requests touch both.
Several processes may share one table ("safe for multiple instances", README.md:68).

## Modules

| Module | What it models |
|---|---|
| `TransferPipeline` | The core: orchestrator, downloader, notification loop, import watchers and UI commands of one or more processes over one downloads table, one download directory, Put.io and *arr's import history |
| `TransferLifecycle` | The abstract life of one transfer: its phase and its local copy. `TransferPipeline` implements it (`LifecycleSpec`) |
| `FileDownload` | One `DownloadTransfer` in detail: the loop, the semaphore, every worker call by call. It implements the download phases of `TransferPipeline` (`DownloadsAsPipeline`) |
| `TransferReports` | What torrent-get and the web UI compute from a state of `TransferPipeline` |
| `TransmissionRPC` | torrent-add, -set, -start, -stop, -remove and the UI's removal from Put.io, call by call, over the table that ties hashes to transfers |
| `ImportCheck` | One import watcher and the *arr apps it asks: the loop over the apps, the walk through a history that grows, the match of paths, the removal and the announcement |
| `Sweep` | The directories of DOWNLOAD_DIR, call by call: downloads that make them, wipes, imports, users and prunings that take them away, the sweep |
| `SeedGoals` | When torrent-get calls a torrent stopped: the goals torrent-set stores, defaults, arithmetic |
| `TransferViews` | `List` and `Get` of the web UI, read by read, beside the pipeline; EXTENDS `TransferReports` |
| `Shutdown` | The end of a process: `services.Close`, panics, restarted loops, exit; EXTENDS `TransferPipeline` |
| `MC...` | Constants and symmetry of the model-checking runs |
| `TransferPipelineProofs` | The theorems about `TransferPipeline`: types and custody first, then what is on disk, then the refinement |
| `TransferViewsProofs` | The theorems about `TransferReports` and `TransferViews`, from those about the pipeline |
| `FileDownloadProofs`, `ImportCheckProofs`, `SeedGoalsProofs`, `ShutdownProofs`, `SweepProofs`, `TransmissionRPCProofs` | The theorems about the module they are named after |

### TransferPipeline

Variables and what they stand for:

- `status`, `locked`: the row of each transfer (`downloads.status`, `locked_by`); `"none"` is no row.
- `disk`: what DOWNLOAD_DIR holds of each release. `"complete"` means that a download which reported success wrote it;
  `spoiled` holds the processes whose open file was removed or truncated by someone else.
- `remote`, `history`: Put.io and *arr, which act by themselves (`RemoteCompletes`, `RemoteRemoved`, `ArrImports`).
- `orch`, `dl`, `note`: the three loops of a process, each with the point it has reached and what it has in hand.
- `waiting`, `removing`, `announcing`: its import watchers per transfer, counted, by the point they have reached.
- `req`: the UI's requests.

An action is what one goroutine does between two points at which another can see or change what it uses: a call to
Put.io, a SQL statement, a file operation, a channel operation. All channels are unbuffered, so a send and its receive
are one action of two goroutines (`DlReceivesPolled`, `NoteReceives`). `ClaimTransfer` is two actions, its SELECT and
its upsert. A failing statement or call is an action of its own, enabled by an element of `Faults`.

Abstractions, each one that the properties do not see through:

- The phases `grab`, `open` and `copy` of `dl` stand for all workers of a download; `FileDownload` shows that every
  interleaving of them is a sequence of these phases. Making a directory and the file in it is one step here and two there.
- `os.RemoveAll` is one step and does not fail; errors of the local disk occur only where a file is made.
- A poll takes its transfers in any order, and a poll whose listing fails is a poll not taken.
- `ArrImports` may happen as soon as the copy is complete, which is earlier than torrent-get offers it; that it is not
  offered before, but for two ways past the gate, is `OfferedIsWhole`.
- The process dies at any point (`Crash`); its orderly end is in `Shutdown`. A SQL statement is atomic.
- An import check is one step that finds the name in `history` or does not; its requests are in `ImportCheck`.

### TransferReports

Pure operators over the state of `TransferPipeline`: `TorrentGet` is the set of answers torrent-get may give for a
transfer at this moment, over the statuses, sizes and progress Put.io may give it, a table that may not be readable, the
bytes `os.Stat` may find (none, when Put.io fails to list the files) and the seed goals met or not. Progress is not tied to
the status: a transfer that still downloads may have all of its bytes, a finished one may lack some, and a size of 0 is one
Put.io does not know. torrent-get reads the three one after the other. That changes nothing here: Put.io's status only
advances, a row becomes `downloaded` after its files are whole, and bytes on disk matter only while it is not.

Two kinds of transfer pass the gate of torrent-get whatever is on disk (`PassesGate`): those of size 0, and those that still
download while they are stopped. `OfferedIsWhole` excepts them by name and holds of all others. The message of a transfer
that failed on Put.io is reported where there is one, though the client of this repository never fills it in.

### TransmissionRPC

`rows` is the table `torrent_seed_criteria` in the order of its rowids, which decides what torrent-get finds first. A
torrent stands for its infohash, an identifier also for the hash made of it. A call walks through the handler's steps:
list Put.io, resolve the hash, associate it, update its row; a removal lists and resolves once more, lists inside
`RemoveTransfers`, cancels, deletes the files, deletes the row. What a request carries is chosen at the step that looks at
it first. A request names one hash; the handlers go through several one after another. `answered` and `wanted` are
histories of what *arr was told and has set. Assumed of *arr: it sends metainfo or magnet links, which tell the hash, and
does not add a torrent while it awaits an answer about it,
and drops its identifier once a torrent-remove has succeeded.

### ImportCheck

`history` is what each app has recorded, newest first; `check` is where the watcher stands: the app, the page and how
many records it has looked at. A step of the watcher is one request with all it does with the answer, so the histories may
grow between two pages. A path is a sequence of name parts and separators, which is what `pathWithinRelease` tells apart:
equal, below with a separator, or merely beginning alike. `knew` remembers the apps that had a record of the release
when a check began and have dropped none since: dropping one shifts records forwards, past the walk. `imported` and `disk` are the media files of one release. How
*arr numbers its pages is not in the repository: the model takes the numbering the code uses, from 0. `reliable` is any set
of apps, chosen at the start and never changed: those that answer in the end. Of the others nothing is known.

### Sweep

A path is the sequence of its names below DOWNLOAD_DIR. `dirs` and `files` are what exists, `old` the directories whose
mtime lies further back than CLEANUP_SWEEP_MIN_AGE. `os.MkdirAll` makes one directory per step, from the deepest that it
found; the sweep looks, asks the age and removes in three steps, the removal of empty parents looks and removes in two.
`layout` says how the downloads lie to each other, one of `Layouts`, where no file has the name of a directory that another
download needs. Making or removing an entry makes its parent young. A worker whose file Put.io has lost removes the whole
release, while its siblings make theirs (`Wipes`); a user's retry, deletion or purge removes files, releases and whatever
lies in DOWNLOAD_DIR at any moment (`UserRetries`, `UserRemoves`), at most `MaxRemovals` times.

Two assumptions are in the guard of `Ages`: the sweep's cutoff is taken once per walk, and no attempt needs the minimum age
(24 h by default) from its `MkdirAll` to its `Create`, so that a directory made since the attempt began does not age under
it. One that `MkdirAll` found in place (`found`) keeps its mtime and may age at any moment. `exposed` records the downloads
whose attempt met something the age limit does not protect it from: an old directory on its path, or one that grew old, or
that the sweep had already judged, or a removal of its own directories by a user or a sibling.

### SeedGoals

A row has a ratio limit, a time limit, their modes and the stop mark, each possibly NULL. Ratios count tenths. A ratio limit
of a row becomes the `float32` next to it, above or below (`Nearest`), or an infinity; the code compares it with a `float64`,
which is taken as exact, and so are the default and the ratio 1.0 of mode 0. The `float32`s of the model lie `Float32Step`
apart everywhere and ties go up, where the code's lie closer together near 0: what the property uses is that the rounded
limit is at most half a step away. A time limit is multiplied as an `int64` (`Wrap`). Put.io's status, upload total and
seconds of seeding advance by themselves.

### TransferViews

A viewer is a browser that asks again and again; `reading` is its request, between its call to Put.io, its SELECT and its
look at the disk, and `shown` what is on its screen. `BuildView` and `BuildOrphanView` compute the stage from the three.
With `"api"` among the faults, a list leaves out a transfer whose folder or file Put.io did not tell of, and a file list may
be empty. *arr imports only what torrent-get offers (`ImportsWhatIsOffered`), which `OfferedIsWhole` is about. Filters and
the order of a list choose among the views and change none.

### Shutdown

`runMainLoop` returns only when a listener has failed: `main` installs no signal handler, and the context it would look
at is cancelled after `run` has returned (main.go:102-103), so a SIGTERM is a `Crash` and the `ctx.Done` branches of the
loops are not taken. `closed` counts the channels in the order in which `services.Close` closes them. What a goroutine
does with a closed channel is an action of its own: a send panics, and the panic is recovered where the code recovers it
(`OrchSendPanics`, `ReqSendPanics`, `WatcherSendPanics`) or ends the process (`DlSendPanics`, `DlReceivesNil`); a receive
hands nil to a handler (`NoteReceivesNil`). `resting` are the loops that sleep a second before they start again; how often
they do is not counted. All other steps are those of `TransferPipeline`, as long as the channels they need are open. A
process that is over is started again at once, as after a `Crash`. The module states no property of its own but its
types: what it is for is that those of the pipeline survive an orderly end.

## Runs

| Run | Instance | What it shows |
|---|---|---|
| `MCPolling` | 2 processes, 2 transfers of several files; copies break, statements fail, processes crash | `SingleCustody`, `DownloadedIsLocal`, `OfferedIsWhole`, `OnlyImportedIsDeleted`; the pipeline implements `TransferLifecycle` |
| `MCUserCommands` | 1 process, 1 transfer, 2 UI requests of any kind; API calls, files and copies fail | `ClaimHasHolder`, `WaitingHasWatcher`, `ViewsAgree` |
| `MCAllFaults` | `Shutdown`: 1 process, 1 transfer, 1 UI request of any kind, every fault, crashes and the orderly end | `TypeOK`, `LockMatchesStatus`, `RowsAppearByClaim` |
| `MCLiveness` | 1 process, 2 transfers, GETs fail, fair scheduling | `ClaimIsResolved`, `AvailableIsDownloaded`, `ImportedIsCleaned` |
| `MCFileDownload` | 3 files, 2 workers, every failure of a download, fair scheduling | `TypeOK`, `FinishedIsWhole`, `ReturnsUnlessStuck`, `DownloadsAsPipeline` |
| `MCTransmission` | 2 calls of *arr, 1 deletion of the UI, 2 transfers of one torrent; API, table, lost answers | `TypeOK`, `AddedKeepsItsHash`, `GoalsAreFollowed`, `RemovesOnlyWhatWasMeant` |
| `MCImportCheck` | 2 apps, any of them reliable, pages of 1 and 2 records each, records dropped, failing requests and removals, fair scheduling | `NoImportOverlooked`, `ConfirmedIsImported`, `AnnouncedIsRemoved`, `ImportIsNoticed` |
| `MCSweep` | 2 files of one release, one in a folder of it, or 2 releases below one directory; any directories left behind, wipes, 1 removal by a user, 1 crash, fair scheduling | `TypeOK`, `FailsOnlyIfExposed`, `DownloadSucceeds`, `OrphansCollapse` |
| `MCSeedGoals` | 1 torrent, every row torrent-set can leave, readable or not; ratios and times at their boundaries, a limit that is rounded up, fair scheduling | `StopsAtItsGoal`, `StaysStopped`, `SeedingEnds` |
| `MCTransferViews` | 1 process, 1 transfer of several files, 1 viewer; copies break, processes crash | `ViewTypeOK`, `CompleteIsLocal`, `StagesAdvance` |
| `MCShutdown` | 1 process, 2 transfers; copies break, listeners fail, crashes | `SingleCustody`, and it implements `TransferLifecycle` |
| `VCancel` | 1 process, 1 transfer, a cancel of the UI, fair scheduling | violated: `CancelIsReported` |

Why these bounds are enough to show what can go wrong: custody is disputed between two claimants, so two processes or two
requests; starvation and head-of-line blocking need two transfers; a worker needs a sibling that fails and one that waits
for a slot, so three files on two slots; a stale row needs a second transfer of its torrent; a record moves over the
border of a page as soon as there are two pages; nested directories need a second level; integers of 10 bits have the
boundaries of those of 64, and the limits of `MCSeedGoals` fit in them; one removal by a user and one crash each fall
between any two calls of two downloads. Transfers, processes,
requests and calls are interchangeable, hence the symmetry sets; they are not used where liveness is checked.
The types of `ImportCheck`, `SeedGoals` and `Shutdown` are proved and not run.
`CHECK_DEADLOCK FALSE` is set because everything may come to rest: no transfer left, no request under way. Watchers are
counted in `Nat` without a bound: a watcher exists per finished download, and downloads end with the transfers there are.

### Where the code departs from what the repository says

One run states a promise the code breaks: `VCancel`, whose finding in `PROJECT.json` quotes it. A download cancelled while
it copies is never reported ("the transfer is then reported as a download error", downloader.go:99-100): its worker blocks
on `OnFileDownloadError`, which has no receiver, and the downloader with it.

The others are outside what the runs above assume or claim. Where a run is named, changing its configuration as described makes
TLC find the violation; the rest is read from the lines given.

| Where | What the code does | What is said of it |
|---|---|---|
| transfer.go:128 | A browser that goes away while the downloader is busy: the row its retry has claimed stays claimed, with nobody to download it (`MCUserCommands` with `"client"` in `Faults`: `ClaimHasHolder`) | status.go:17: "putioarr is copying the files" |
| main.go:538 | An update that fails drops the event, and the row stays `downloading` for good (with `"db"`: `ClaimHasHolder`) | status.go:17 |
| actions.go:34 | A retry of a download that has just ended: the late event writes `downloaded` over the row while the files are gone (`DownloadedIsLocal` under the UI command `"retry"`) | status.go:21: "the local copy finished" |
| download_repository.go:214 | A process that dies while it downloads leaves the row `downloading` and locked; no poll claims it again, also after the restart (`MCUserCommands` with `"crash"`: `ClaimHasHolder`) | status.go:17: "putioarr is copying the files" |
| downloader.go:269 | A transfer claimed or queued behind a worker that blocks for ever is not reported either (`ClaimHasHolder` without `BehindStuck`) | status.go:17 |
| main.go:544 | After a restart nobody watches for the import of a downloaded release (`MCUserCommands` with `"crash"`: `WaitingHasWatcher`) | status.go:21: "putioarr is waiting for *arr to import it" |
| downloader.go:461 | Two transfers of one name: the record of the first import confirms the import of the second (`MCPolling` with one name, `NameOf <- OneName`: `OnlyImportedIsDeleted`) | downloader.go:447: "Nothing is deleted until an import is confirmed." |
| transmission.go:761 | A transfer of size 0 that Put.io does not list as finished (a magnet link without metadata, an error) is not gated: nothing is left of it and it is stopped, so it is offered with nothing on disk (`OfferedIsWhole` without `PassesGate`) | transmission.go:832-834: "Gate *arr import on local disk progress whenever Put.io reports complete" |
| transmission.go:756 | A transfer that still downloads is not gated, also when all of its bytes are there; a torrent-stop then makes it one that has ended (`OfferedIsWhole` without `PassesGate`) | transmission.go:832-834 |
| client.go:71, :109, :122 | A transfer whose folder or file cannot be looked up is left out of the list, one whose files cannot be listed has none: the UI shows a downloaded row as cleaned up and then as waiting for its import again, or a complete copy and then one that downloads (`MCTransferViews` with `"api"` in `Faults`: `StagesAdvance`) | client.go:116-117: "transfer stays visible in Activity tab" |
| client.go:439 | A folder that could not be listed is left out, and the transfer is reported downloaded without it (`MCPolling` with `"listing"`: `DownloadedIsLocal`) | client.go:116-117: "download pipeline skips via IsDownloadable()" |
| actions.go:98 | A transfer that finishes between the list and the cancellation, or whose files cannot be deleted: they stay, and the next deletion answers success | actions.go:90-91: "the desired end state is already met" |
| downloader.go:462 | While the first app is down, an import the second has on record is never noticed (`MCImportCheck` where `ImportIsNoticed` assumes `a \in reliable` in the place of `1 .. a \subseteq reliable`) | README.md:204: "Once any configured *Arr app confirms" |
| arr.go:109 | The first episode imported of a season pack has the whole pack removed | downloader.go:447 |
| sweep.go:112 | The sweep removes an old empty directory that a download has just found in place; a later poll makes the download again | README.md:212: "in-progress downloads are never touched" |
| transmission.go:906 | A time limit of more minutes than an `int64` has seconds wraps around and stops the torrent at once (`MCSeedGoals` with a limit of 9 minutes: `StopsAtItsGoal`) | README.md:210: "once either configured goal is met" |
| transmission.go:994 | While a row cannot be read, the default goals stand for those *arr has set | README.md:210 |
| transmission.go:914 | A ratio limit that is finite as a `float64` becomes an infinity, and torrent-get cannot be encoded | transmission.go:548: "a finite non-negative number" |
| status.go:69 | A downloaded transfer removed from Put.io before its import is shown as cleaned up | status.go:27: "imported and removed from Put.io" |
| main.go:557 | No code writes the stage `imported`: after the import was announced the row is shown as waiting for it | status.go:23: "*arr reported the content as imported" |
| service.go:176 | A row inserted between the two reads of `Get` is answered with the detail of no row | service.go:175: "tracked in SQLite -> orphaned detail" |
| downloader.go:139 | `WatchDownloads` receives nil from the closed queue and panics without a recover | .planning/PROJECT.md:97: "Panic recovery [...] on all long-running goroutines" |
| main.go:476 | The notification loop receives from closed channels, panics and starts again until the process exits | .planning/PROJECT.md:132: "prevents restart loops during shutdown" |

## Fairness

`FairSpec` asks only what the Go runtime gives: a goroutine that can go on does so (weak fairness of its steps). Strong
fairness is asked where a goroutine may be passed over: a `select` with several ready senders chooses among them at
random, a channel queues its senders, and an attempt that fails now and then (a GET) succeeds in the end if it is made again and
again. A copy ends, one way or another. Nothing is asked of users, of *arr or of Put.io: no transfer need complete, no
release need be imported, and liveness properties are conditional on these.

`ImportCheck`: the ticker fires for ever; a request ends, with an answer or by the client's timeout of 30 s; an app
in `reliable` answers in the end a request that is made again and again (strong fairness), and so does a removal that is
repeated succeed. `ImportIsNoticed` is conditional on an import that stays on record with an app that is reliable, as are
those asked before it, and on histories that are in the end only added to. `Sweep`: every goroutine goes on, the polls make a failed download again, the sweep's ticker fires, and a
directory that nobody touches grows old; no release need be downloaded or imported. `SeedGoals`: a transfer is fetched,
downloaded and seeds on. `Shutdown` and `TransferViews` have safety properties only.

## Proofs

Every safety property that a run checks is also proved by TLAPS, for any number of processes, transfers, names, requests,
files, workers, viewers, directories and calls:

| Theorem | Assumptions beyond those on constants |
|---|---|
| `TypeCorrect` (`TypeOK`) | none |
| `LockFollowsStatus` (`LockMatchesStatus`), `RowsComeByClaim` (`RowsAppearByClaim`) | none |
| `ClaimsAreHeld` (`ClaimHasHolder`) | no fault that loses a claim: `db`, `client`, `crash` |
| `ClaimsAreReported` (no claim waits behind a blocked worker) | the same, and nothing breaks or cancels a copy: no `copy`, no command `cancel`, no release of several files |
| `WaitingIsWatched` (`WaitingHasWatcher`) | no `crash` |
| `CustodyIsSingle` (`SingleCustody`) | no UI commands |
| `DownloadedStaysLocal`, `WholeIsKeptUntilImported`, `PipelineImplementsLifecycle` | no UI commands, whole listings, names that differ |
| `OfferedStaysWhole` (`OfferedIsWhole`), `CompleteStaysLocal` (`CompleteIsLocal`) | no UI commands, whole listings, names that differ |
| `StagesOnlyAdvance` (`StagesAdvance`) | the same, and neither statements nor Put.io's requests fail (`db`, `api`) |
| `ViewsAlwaysAgree` (`ViewsAgree`), `ViewTypeCorrect` (`ViewTypeOK`) | none |
| `FileTypeCorrect`, `FinishedStaysWhole` (`FinishedIsWhole`), `DownloadImplementsPipeline` (`DownloadsAsPipeline`) | none |
| `RPCTypeCorrect`, `AnsweredHashHolds` (`AddedKeepsItsHash`), `GoalsHold` (`GoalsAreFollowed`), `RemovalsAreMeant` (`RemovesOnlyWhatWasMeant`) | none |
| `SweepTypeCorrect`, `AgeLimitProtects` (`FailsOnlyIfExposed`) | none |
| `NothingOverlooked` (`NoImportOverlooked`) | none; the property excuses an app that drops records meanwhile |
| `ConfirmationsAreTrue` (`ConfirmedIsImported`) | no other release lies below this one's root |
| `AnnouncedOnlyRemoved` (`AnnouncedIsRemoved`), and `TypeOK` of `ImportCheck` | none |
| `StopsWhereGoalsFit` (`StopsAtItsGoal`) | the seconds of a limit fit an `int64`, the `float32` nearest to it is finite (`LimitsFit`) |
| `StoppedStays` (`StaysStopped`), and `TypeOK` of `SeedGoals` | none |
| `ShutdownTypes` (`STypeOK`) | none |
| `ShutdownKeepsCustody`, `ShutdownKeepsDownloaded`, `ShutdownImplementsLifecycle` | no UI commands, whole listings, names that differ |

TLC finds the property violated where its assumption is dropped. Most of the assumptions stand for a departure in the table
above. Two do not: a retry rewrites a claimed row by design (`CustodyIsSingle`), and `ConfirmationsAreTrue` assumes that no
other release is kept inside this one's directory, which no prefix test could tell apart.

Three properties have their exceptions in their statement, where the code departs from what it is meant to do:
`OfferedIsWhole` names two ways past the gate, `ClaimHasHolder` the transfers behind a worker that blocks for ever, and
`FailsOnlyIfExposed` the downloads that met what the age limit does not cover. The first two are rows of the table above, and
`ClaimsAreReported` proves the stronger statement where no worker can block.

The argument. Custody of a transfer moves between hands, a poll that has claimed it, a request that has, the downloader,
the notification loop, and at every moment at most one has it, with its row claimed (`CustodyInv`). That alone does not
say what a late event writes is true: `OutcomeKnown` says that a reported outcome is one the download had, and `CopyInv`
ties every phase of a download, and the event it ends in, to what is on disk: a download that finished, and its event
not yet handled, has a whole or imported release, and so has a row `downloaded`; a watcher exists only for such a row. The
disk is only known because nobody else writes or removes the same files (`Unspoiled`), which follows from single custody
and from names that differ. Their conjunction with the types, `IInv`, is inductive; the action properties and the step
simulation of `TransferLifecycle` follow from it.

`ImportCheck`: an app that had a record of the release when the check began, and has not been passed yet, has one beyond the
positions the walk has looked at (`WalkInv`): a history grows at its front, so that record only moves to later positions,
and a walk cannot end before it. `Shutdown`: every step is one of the pipeline,
a `Crash`, or one of the recovered panics, and each of those leaves hands and disk as `IInv` wants them (a panicking poll
or watcher forgets what it has, as a crash would), so that `IInv` stays inductive and the refinement carries over.

`TransferReports` and `TransferViews`: what torrent-get offers follows from `IInv` in one state. A screen does not: it is
put together from readings of different moments, so the invariant has to say what an old reading is still worth. `KeptInv`
does it: a row once read as downloaded, and a screen that says complete, stand for a release that is kept now, because
nothing but an import lets go of one. `AdvanceInv` adds, for every viewer and transfer, how far the state must have
come given what was read and what is shown, and that the screen being built is not behind the last one; a transfer without a
row has nothing on disk (`RowlessIsBare`). `ViewsAgree` needs none of this, but that a transfer which Put.io still
fetches has no row and nobody about to claim it (`FetchingUntouched`).

`FileDownload`: `DInv` adds to the types that the outcome so far is that of the workers joined (`JoinedFits`), that a
worker which has copied its file has it whole on disk, unless one has removed the release (`FilesFit`), and that every
failure has a cause the pipeline knows of (`CausesFit`). Each step of a worker is then a step of the pipeline's phases
or a stutter.

`TransmissionRPC`: the table is seen as a function from hashes to rows (`RowOf`), of which every statement changes one row
(`UpsertsOne`, `DeletesOne`). `HashInv` says of a call that what it has found is still right when it uses it
(`CallStands`): the transfer is one its hash names, a call about to associate a hash of its own accord found no answer to
it, and a call about to remove has the transfer torrent-add answered with. It holds because an addition has its hash to itself
(`AddsAlone`), an identifier never changes its torrent (`UsedStays`), and a row that an answer depends on is rewritten only
to the same transfer.

`Sweep`: `DirsInv` says where downloads, prunings and the sweep stand: a pruning below a release whose downloads are all
cleaned up, the sweep below the root, which stays. `AgeInv` is what a download may rely on as long as it is not exposed:
nothing on its path is old (`PathIsYoung`), so that the sweep, which removes only what it has seen old, is not about to
remove any of it (`SweepIsAway`), and what the attempt has made or found of the path is there (`PathIsMade`), which no
pruning of another release can change where the two share no directory (`Apart`). `SweepIsAway` is needed beside
`PathIsYoung` because the sweep acts on an age it saw a step earlier.

`SeedGoals`: a limit lies within half a step of its `float32` (`Nearest`), so that a ratio past the one is past what the
property asks of the other; an `int64` product that fits does not wrap.

Only model-checked: liveness under fairness, which is out of TLAPS's reach, as is ENABLED (`ClaimIsResolved`,
`AvailableIsDownloaded`, `ImportedIsCleaned`, `ReturnsUnlessStuck`, `ImportIsNoticed`, `DownloadSucceeds`,
`OrphansCollapse`, `SeedingEnds`), and everything under UI commands except the theorems above that allow them. What a
recursive definition computes for every input is out of the prover's reach, and the modules have none.

## Not modelled

- `WatchForSeeding` and `CleanupTransfer` (downloader.go) with `GetTransferInfo` (client.go), which `main` starts nowhere.
- The `ctx.Done` branches: nothing cancels the context while a goroutine runs. `Authenticate`, once before anything else.
- Filters, sorting and progress bars of the UI's views: presentation of the stage and the bytes that are modelled.
- Confirmation tokens and the other access control of the two servers; they keep no state of the transfers.
- The schema and its migrations, configuration, telemetry, logging, Discord, the browser front end. The instrumented
  client and repository pass every call through. `KEEP_DOWNLOADED_FOR` and `CLEANUP_INTERVAL` are read and logged, and
  used nowhere.
- The bytes of a file: an error page that `GrabFile` takes for a file is not told apart from one. Servers that are silent
  for ever (the hazard at client.go:174, and a Discord webhook): the liveness properties take it that a call returns.

## Plan

Done: every module above with its runs, and the proofs of every safety property they check.

Next, in this order:

1. The watcher of one transfer in `ImportCheck` as a refinement of the import watcher of `TransferPipeline`
   (`WatcherSeesImport`, `WatcherRemoves`), to tie the two descriptions of an import together.
2. `TransmissionRPC` with an *arr that adds a torrent while its removal is under way, and what is left of
   `AddedKeepsItsHash` then.
