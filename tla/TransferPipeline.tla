-------------------------- MODULE TransferPipeline --------------------------
(***************************************************************************)
(* The pipeline that moves a transfer from Put.io to the local disk and    *)
(* hands it to *arr: the polling orchestrator (internal/transfer), the     *)
(* downloader loop and its import watchers (internal/downloader), the      *)
(* notification loop (cmd/seedbox_downloader), the downloads table         *)
(* (internal/storage/sqlite) and the web UI's commands                     *)
(* (internal/svc/transfers), running concurrently in one or more processes *)
(* over one database and one download directory.                           *)
(*                                                                         *)
(* Every channel between them is unbuffered, so a send and its receive are *)
(* one step of both goroutines.                                            *)
(***************************************************************************)
EXTENDS Naturals, FiniteSets

CONSTANTS
    Instances,    \* processes running putioarr over the same database
    Transfers,    \* Put.io transfer identifiers
    Names,        \* release names, each a path under DOWNLOAD_DIR
    NameOf,       \* the name Put.io gives each transfer
    MultiFile,    \* the transfers of more than one file
    Requests,     \* HTTP requests of the web UI, one command each
    UICommands,   \* the commands those requests may carry
    Faults,       \* what may go wrong around the program
    CleanupAfterImport,  \* CLEANUP_AFTER_IMPORT
    NoTransfer,   \* no transfer at all
    NoInstance    \* no process at all

Commands == {"retry", "cancel", "delete", "reset", "purge"}
Scopes == {"putio", "local", "db"}

(***************************************************************************)
(* "api"    a call of the Put.io API fails                                 *)
(* "listing" the call that lists a folder within a release fails           *)
(* "io"     the HTTP GET of a file, or making its directory or file, fails *)
(* "copy"   the byte stream of a file breaks while it is copied            *)
(* "db"     a SQLite statement fails                                       *)
(* "client" the HTTP client of a UI request goes away                      *)
(* "crash"  a process dies and is started again                            *)
(***************************************************************************)
FaultKinds == {"api", "listing", "io", "copy", "db", "client", "crash"}

ASSUME NameAssumption == NameOf \in [Transfers -> Names]
ASSUME MultiFileAssumption == MultiFile \subseteq Transfers
ASSUME CommandAssumption == UICommands \subseteq Commands
ASSUME FaultAssumption == Faults \subseteq FaultKinds
ASSUME NoneAssumption == NoTransfer \notin Transfers /\ NoInstance \notin Instances
ASSUME CleanupAssumption == CleanupAfterImport \in BOOLEAN

VARIABLES
    remote,       \* what Put.io has of each transfer
    status,       \* downloads.status, "none" when there is no row
    locked,       \* whether downloads.locked_by is set
    disk,         \* what is under DOWNLOAD_DIR for each name
    spoiled,      \* processes whose open file was removed or truncated meanwhile
    history,      \* the names *arr's import history holds a record of
    orch,         \* the polling goroutine of each process
    dl,           \* the downloader goroutine of each process
    note,         \* the notification goroutine of each process
    waiting,      \* import watchers between two ticks
    removing,     \* import watchers that saw the import and remove the files
    announcing,   \* import watchers sending on OnTransferImported
    req           \* the UI requests

table == <<status, locked>>
files == <<disk, spoiled>>
watchers == <<waiting, removing, announcing>>
vars == <<remote, status, locked, disk, spoiled, history, orch, dl, note,
          waiting, removing, announcing, req>>

-----------------------------------------------------------------------------
(* Type definitions *)

RemoteStates == {"fetching", "available", "gone"}
RowStates == {"none", "pending", "downloading", "downloaded", "failed", "missing"}
DiskStates == {"none", "partial", "complete", "imported"}
\* What a finished DownloadTransfer makes WatchDownloads send.
Outcomes == {"error", "finished", "missing"}

MaybeTransfer == Transfers \cup {NoTransfer}

OrchPCs == {"idle", "scan", "upsert", "send"}
DlPCs == {"idle", "grab", "open", "copy", "stuck", "return", "report"}
ReqPCs == {"new", "retry_mark", "retry_find", "retry_wipe", "requeue_list",
           "requeue_select", "requeue_upsert", "requeue_send",
           "cancel_signal", "cancel_mark", "delete_next", "delete_wipe",
           "reset", "purge", "done"}

OrchStates == [pc : OrchPCs, cur : MaybeTransfer, todo : SUBSET Transfers]
DlStates == [pc : DlPCs, cur : MaybeTransfer, cancelled : BOOLEAN,
             out : Outcomes \cup {"none"}]
NoteStates == [ev : Outcomes \cup {"idle", "imported"}, cur : MaybeTransfer]
ReqStates == [pc : ReqPCs, inst : Instances \cup {NoInstance}, cur : MaybeTransfer,
              left : SUBSET (Scopes \cup Names)]

TypeOK ==
    /\ remote \in [Transfers -> RemoteStates]
    /\ status \in [Transfers -> RowStates]
    /\ locked \in [Transfers -> BOOLEAN]
    /\ disk \in [Names -> DiskStates]
    /\ spoiled \subseteq Instances
    /\ history \in SUBSET Names
    /\ orch \in [Instances -> OrchStates]
    /\ dl \in [Instances -> DlStates]
    /\ note \in [Instances -> NoteStates]
    /\ waiting \in [Instances -> [Transfers -> Nat]]
    /\ removing \in [Instances -> [Transfers -> Nat]]
    /\ announcing \in [Instances -> [Transfers -> Nat]]
    /\ req \in [Requests -> ReqStates]

IdleOrch == [pc |-> "idle", cur |-> NoTransfer, todo |-> {}]
IdleDl == [pc |-> "idle", cur |-> NoTransfer, cancelled |-> FALSE, out |-> "none"]
IdleNote == [ev |-> "idle", cur |-> NoTransfer]
NewReq == [pc |-> "new", inst |-> NoInstance, cur |-> NoTransfer, left |-> {}]
DoneReq == [NewReq EXCEPT !.pc = "done"]
NoWatchers == [t \in Transfers |-> 0]

Init ==
    /\ remote \in [Transfers -> {"fetching", "available"}]
    /\ status = [t \in Transfers |-> "none"]
    /\ locked = [t \in Transfers |-> FALSE]
    /\ disk = [n \in Names |-> "none"]
    /\ spoiled = {}
    /\ history = {}
    /\ orch = [i \in Instances |-> IdleOrch]
    /\ dl = [i \in Instances |-> IdleDl]
    /\ note = [i \in Instances |-> IdleNote]
    /\ waiting = [i \in Instances |-> NoWatchers]
    /\ removing = [i \in Instances |-> NoWatchers]
    /\ announcing = [i \in Instances |-> NoWatchers]
    /\ req = [r \in Requests |-> NewReq]

-----------------------------------------------------------------------------
(* The downloads table *)

\* Mutants: the upsert without its WHERE clause, and with one status too many.
ClaimableUnguarded(t) == status[t] # "downloaded"
ClaimableMissing(t) ==
    \/ status[t] = "none"
    \/ status[t] \in {"pending", "failed", "missing"} /\ ~locked[t]

\* The WHERE clause of the claim's upsert; without a row it inserts one.
Claimable(t) ==
    \/ status[t] = "none"
    \/ status[t] \in {"pending", "failed"} /\ ~locked[t]

\* The upsert of ClaimTransfer when it affects a row.
Claim(t) ==
    /\ status' = [status EXCEPT ![t] = "downloading"]
    /\ locked' = [locked EXCEPT ![t] = TRUE]

\* Mutants: the lock is left set; the statement inserts a missing row.
UpdateKeepsLock(t, s) ==
    /\ status' = [status EXCEPT ![t] = IF @ = "none" THEN @ ELSE s]
    /\ UNCHANGED locked
UpdateInserts(t, s) ==
    /\ status' = [status EXCEPT ![t] = s]
    /\ locked' = [locked EXCEPT ![t] = FALSE]

\* UPDATE downloads SET status = s, locked_by = NULL: it touches no absent row.
UpdateTransferStatus(t, s) ==
    /\ status' = [status EXCEPT ![t] = IF @ = "none" THEN @ ELSE s]
    /\ locked' = [locked EXCEPT ![t] = FALSE]

DeleteRows(T) ==
    /\ status' = [t \in Transfers |-> IF t \in T THEN "none" ELSE status[t]]
    /\ locked' = [t \in Transfers |-> locked[t] /\ t \notin T]

-----------------------------------------------------------------------------
(* The download directory *)

\* The processes that have a file of this release open for writing.
Copying(n) == {i \in Instances : dl[i].pc = "copy" /\ NameOf[dl[i].cur] = n}

\* os.RemoveAll: whoever is writing a file of the release goes on writing to
\* one that no longer has a name.
Wipe(n) ==
    /\ disk' = [disk EXCEPT ![n] = "none"]
    /\ spoiled' = spoiled \cup Copying(n)

\* os.Create by process i: it truncates the file under any other writer of it.
Truncate(i, n) ==
    /\ disk' = [disk EXCEPT ![n] = "partial"]
    /\ spoiled' = (spoiled \cup Copying(n)) \ {i}

-----------------------------------------------------------------------------
(* The orchestrator: one poll of Put.io after another *)

\* The transfers GetTaggedTorrents may answer with, of those that can be
\* downloaded: it passes over one whose folder or file it fails to look up.
Listings ==
    LET available == {t \in Transfers : remote[t] = "available"} IN
    IF "api" \in Faults THEN SUBSET available ELSE {available}

\* The files of a release in a folder that could not be listed are left out of
\* the transfer.
ListedShort(t) == "listing" \in Faults /\ t \in MultiFile

\* GetTaggedTorrents answers; the poll goes over the transfers.
OrchList(i) ==
    /\ orch[i].pc = "idle"
    /\ \E listed \in Listings \ {{}} :
          orch' = [orch EXCEPT ![i] = [pc |-> "scan", cur |-> NoTransfer, todo |-> listed]]
    /\ UNCHANGED <<remote, table, files, history, dl, note, watchers, req>>

\* The poll goes on to the next transfer, or ends.
OrchAfter(todo) ==
    [pc |-> IF todo = {} THEN "idle" ELSE "scan", cur |-> NoTransfer, todo |-> todo]

\* ClaimTransfer reads the status: ErrDownloaded skips the transfer.
OrchSelect(i) ==
    /\ orch[i].pc = "scan"
    /\ \E t \in orch[i].todo :
          LET rest == orch[i].todo \ {t} IN
          orch' = [orch EXCEPT ![i] =
                     IF status[t] = "downloaded"
                     THEN OrchAfter(rest)
                     ELSE [pc |-> "upsert", cur |-> t, todo |-> rest]]
    /\ UNCHANGED <<remote, table, files, history, dl, note, watchers, req>>

\* ClaimTransfer's upsert: it claims the row, or someone else has it.
OrchUpsert(i) ==
    LET t == orch[i].cur IN
    /\ orch[i].pc = "upsert"
    /\ \/ /\ Claimable(t)
          /\ Claim(t)
          /\ orch' = [orch EXCEPT ![i].pc = "send"]
       \/ /\ ~Claimable(t)
          /\ orch' = [orch EXCEPT ![i] = OrchAfter(@.todo)]
          /\ UNCHANGED table
    /\ UNCHANGED <<remote, files, history, dl, note, watchers, req>>

\* A failing statement ends the poll; the transfers left wait for the next one.
OrchDbFails(i) ==
    /\ "db" \in Faults
    /\ orch[i].pc \in {"scan", "upsert"}
    /\ orch' = [orch EXCEPT ![i] = IdleOrch]
    /\ UNCHANGED <<remote, table, files, history, dl, note, watchers, req>>

-----------------------------------------------------------------------------
(* The downloader: one transfer at a time *)

\* The state of the downloader that has just received a transfer and stored
\* its cancel function in activeDownloads.
Received(t) == [pc |-> "grab", cur |-> t, cancelled |-> FALSE, out |-> "none"]

\* WatchDownloads receives what the poll sends on OnDownloadQueued.
DlReceivesPolled(i) ==
    /\ orch[i].pc = "send"
    /\ dl[i].pc = "idle"
    /\ dl' = [dl EXCEPT ![i] = Received(orch[i].cur)]
    /\ orch' = [orch EXCEPT ![i] = OrchAfter(@.todo)]
    /\ UNCHANGED <<remote, table, files, history, note, watchers, req>>

\* WatchDownloads receives what a retry sends on OnDownloadQueued.
DlReceivesRequeued(i, r) ==
    /\ req[r].pc = "requeue_send"
    /\ req[r].inst = i
    /\ dl[i].pc = "idle"
    /\ dl' = [dl EXCEPT ![i] = Received(req[r].cur)]
    /\ req' = [req EXCEPT ![r] = DoneReq]
    /\ UNCHANGED <<remote, table, files, history, orch, note, watchers>>

\* DownloadTransfer is returning with this outcome.
Returns(i, out) == dl' = [dl EXCEPT ![i].pc = "return", ![i].out = out]

\* A worker is blocked sending on OnFileDownloadError, which nothing receives.
Sticks(i) == dl' = [dl EXCEPT ![i].pc = "stuck"]

\* Files.URL fails, whatever the reason, as the context's cancellation.
UrlFails(i) ==
    \/ dl[i].cancelled
    \/ remote[dl[i].cur] = "gone"
    \/ "api" \in Faults

\* Put.io answers with the URL of a first file.
DlGrabs(i) ==
    /\ dl[i].pc = "grab"
    /\ ~dl[i].cancelled
    /\ remote[dl[i].cur] # "gone"
    /\ dl' = [dl EXCEPT ![i].pc = "open"]
    /\ UNCHANGED <<remote, table, files, history, orch, note, watchers, req>>

\* No file can be had from Put.io: the release is removed and the transfer
\* reported missing.
DlGrabFails(i) ==
    /\ dl[i].pc = "grab"
    /\ UrlFails(i)
    /\ Wipe(NameOf[dl[i].cur])
    /\ Returns(i, "missing")
    /\ UNCHANGED <<remote, table, history, orch, note, watchers, req>>

\* No file gets opened. The GET, MkdirAll or Create fails, and a sibling whose
\* request for a URL this cancels removes the release; or a sibling has no URL
\* and removes the directory under the Create.
DlOpenFails(i) ==
    LET t == dl[i].cur IN
    /\ dl[i].pc = "open"
    /\ \/ /\ "io" \in Faults
          /\ Returns(i, "error")
          /\ UNCHANGED files \/ (t \in MultiFile /\ Wipe(NameOf[t]))
       \/ /\ t \in MultiFile /\ UrlFails(i)
          /\ Wipe(NameOf[t])
          /\ Returns(i, "missing") \/ Returns(i, "error")
    /\ UNCHANGED <<remote, table, history, orch, note, watchers, req>>

\* os.Create makes the first file, or truncates it under another writer.
DlOpens(i) ==
    /\ dl[i].pc = "open"
    /\ dl' = [dl EXCEPT ![i].pc = "copy"]
    /\ Truncate(i, NameOf[dl[i].cur])
    /\ UNCHANGED <<remote, table, history, orch, note, watchers, req>>

\* Every byte of every listed file is read before a cancellation was seen. What
\* is on disk is the release, unless files were left out of the listing, or it
\* was removed or truncated under the writer: then it is what it was, with the
\* files that were opened since.
DlCopies(i) ==
    LET n == NameOf[dl[i].cur] IN
    /\ dl[i].pc = "copy"
    /\ ~dl[i].cancelled
    /\ Returns(i, "finished")
    /\ \/ i \notin spoiled /\ disk' = [disk EXCEPT ![n] = "complete"]
       \/ /\ i \notin spoiled /\ ListedShort(dl[i].cur)
          /\ disk' = [disk EXCEPT ![n] = "partial"]
       \/ i \in spoiled /\ UNCHANGED disk
       \/ /\ i \in spoiled
          /\ dl[i].cur \in MultiFile /\ disk[n] = "none"
          /\ disk' = [disk EXCEPT ![n] = "partial"]
    /\ UNCHANGED spoiled
    /\ UNCHANGED <<remote, table, history, orch, note, watchers, req>>

\* Mutant: the error of the copy is swallowed.
CopyErrorIgnored(i) ==
    /\ dl[i].pc = "copy"
    /\ dl[i].cancelled \/ "copy" \in Faults
    /\ Returns(i, "finished")
    /\ UNCHANGED <<remote, table, files, history, orch, note, watchers, req>>

\* A read fails, or sees the cancellation.
DlCopyBreaks(i) ==
    /\ dl[i].pc = "copy"
    /\ dl[i].cancelled \/ "copy" \in Faults
    /\ Sticks(i)
    /\ UNCHANGED <<remote, table, files, history, orch, note, watchers, req>>

\* Another file of the transfer cannot be had or opened. Its error cancels the
\* siblings: one that is copying sticks, one that has no URL yet removes the
\* release, one that is between its URL and its file opens it all the same.
DlSiblingFails(i) ==
    LET n == NameOf[dl[i].cur] IN
    /\ dl[i].pc = "copy"
    /\ dl[i].cur \in MultiFile
    /\ \/ UrlFails(i) /\ Returns(i, "missing")
       \/ /\ UrlFails(i) \/ "io" \in Faults
          /\ Returns(i, "error") \/ Sticks(i)
    /\ disk' \in {[disk EXCEPT ![n] = s] : s \in {"none", "partial"}}
    /\ spoiled' = spoiled \cup Copying(n)
    /\ UNCHANGED <<remote, table, history, orch, note, watchers, req>>

\* Mutant: a cancelled download is dropped without a report.
UnregistersSilently(i) ==
    /\ dl[i].pc = "return"
    /\ dl' = [dl EXCEPT ![i] = IF dl[i].cancelled THEN IdleDl
                               ELSE [@ EXCEPT !.pc = "report"]]
    /\ UNCHANGED <<remote, table, files, history, orch, note, watchers, req>>

\* activeDownloads.Delete, after which WatchDownloads sends the outcome.
DlUnregisters(i) ==
    /\ dl[i].pc = "return"
    /\ dl' = [dl EXCEPT ![i].pc = "report", ![i].cancelled = FALSE]
    /\ UNCHANGED <<remote, table, files, history, orch, note, watchers, req>>

-----------------------------------------------------------------------------
(* The notification loop and the import watchers it starts *)

\* The select of the notification loop takes the downloader's event.
NoteReceives(i) ==
    /\ note[i].ev = "idle"
    /\ dl[i].pc = "report"
    /\ note' = [note EXCEPT ![i] = [ev |-> dl[i].out, cur |-> dl[i].cur]]
    /\ dl' = [dl EXCEPT ![i] = IdleDl]
    /\ UNCHANGED <<remote, table, files, history, orch, watchers, req>>

\* The select of the notification loop takes a watcher's event.
NoteReceivesImported(i, t) ==
    /\ note[i].ev = "idle"
    /\ announcing[i][t] > 0
    /\ note' = [note EXCEPT ![i] = [ev |-> "imported", cur |-> t]]
    /\ announcing' = [announcing EXCEPT ![i][t] = @ - 1]
    /\ UNCHANGED <<remote, table, files, history, orch, dl, waiting, removing, req>>

\* Mutant: the failure is logged only.
DownloadErrorOnlyLogged(i) == note[i].ev = "error" /\ UNCHANGED <<table, waiting>>

HandleDownloadError(i) ==
    /\ note[i].ev = "error"
    /\ UpdateTransferStatus(note[i].cur, "failed")
    /\ UNCHANGED waiting

HandleTransferMissing(i) ==
    /\ note[i].ev = "missing"
    /\ UpdateTransferStatus(note[i].cur, "missing")
    /\ UNCHANGED waiting

\* Mutants: no watcher is started, or only when the row is still locked.
FinishedUnwatched(i) ==
    /\ note[i].ev = "finished"
    /\ UpdateTransferStatus(note[i].cur, "downloaded")
    /\ UNCHANGED waiting
FinishedWatchedIfLocked(i) ==
    /\ note[i].ev = "finished"
    /\ UpdateTransferStatus(note[i].cur, "downloaded")
    /\ waiting' = IF locked[note[i].cur]
                  THEN [waiting EXCEPT ![i][note[i].cur] = @ + 1] ELSE waiting

\* The finished transfer gets a watcher, whatever became of its row.
HandleDownloadFinished(i) ==
    /\ note[i].ev = "finished"
    /\ UpdateTransferStatus(note[i].cur, "downloaded")
    /\ waiting' = [waiting EXCEPT ![i][note[i].cur] = @ + 1]

HandleTransferImported(i) ==
    /\ note[i].ev = "imported"
    /\ UNCHANGED <<table, waiting>>

NoteHandles(i) ==
    /\ \/ HandleDownloadError(i)
       \/ HandleTransferMissing(i)
       \/ HandleDownloadFinished(i)
       \/ HandleTransferImported(i)
    /\ note' = [note EXCEPT ![i] = IdleNote]
    /\ UNCHANGED <<remote, files, history, orch, dl, removing, announcing, req>>

\* The UPDATE fails: the event is dropped, and a finished one starts no watcher.
NoteDbFails(i) ==
    /\ "db" \in Faults
    /\ note[i].ev \in Outcomes
    /\ note' = [note EXCEPT ![i] = IdleNote]
    /\ UNCHANGED <<remote, table, files, history, orch, dl, watchers, req>>

\* Mutant: the answer of *arr is not looked at.
WatcherSeesAnything(i, t) ==
    /\ waiting[i][t] > 0
    /\ waiting' = [waiting EXCEPT ![i][t] = @ - 1]
    /\ removing' = [removing EXCEPT ![i][t] = @ + 1]
    /\ UNCHANGED <<remote, table, files, history, orch, dl, note, announcing, req>>

\* At a tick an *arr's history holds an import under the release root.
WatcherSeesImport(i, t) ==
    /\ waiting[i][t] > 0
    /\ NameOf[t] \in history
    /\ waiting' = [waiting EXCEPT ![i][t] = @ - 1]
    /\ IF CleanupAfterImport
       THEN removing' = [removing EXCEPT ![i][t] = @ + 1] /\ UNCHANGED announcing
       ELSE announcing' = [announcing EXCEPT ![i][t] = @ + 1] /\ UNCHANGED removing
    /\ UNCHANGED <<remote, table, files, history, orch, dl, note, req>>

\* Mutant: the watcher goes on after it removed the release.
WatcherRemovesAgain(i, t) ==
    /\ removing[i][t] + announcing[i][t] > 0
    /\ Wipe(NameOf[t])
    /\ removing' = [removing EXCEPT ![i][t] = @ - 1]
    /\ announcing' = [announcing EXCEPT ![i][t] = @ + 1]
    /\ UNCHANGED <<remote, table, history, orch, dl, note, waiting, req>>

\* removeReleaseRoot, after which the watcher reports the import and ends.
WatcherRemoves(i, t) ==
    /\ removing[i][t] > 0
    /\ Wipe(NameOf[t])
    /\ removing' = [removing EXCEPT ![i][t] = @ - 1]
    /\ announcing' = [announcing EXCEPT ![i][t] = @ + 1]
    /\ UNCHANGED <<remote, table, history, orch, dl, note, waiting, req>>

-----------------------------------------------------------------------------
(* The web UI's commands, each served by a goroutine of its own *)

Goto(r, pc) == req' = [req EXCEPT ![r].pc = pc]
Ends(r) == req' = [req EXCEPT ![r] = DoneReq]

\* A command arrives at some process for some transfer.
Request(r, pc, left) ==
    /\ req[r].pc = "new"
    /\ \E i \in Instances, t \in Transfers :
          req' = [req EXCEPT ![r] = [pc |-> pc, inst |-> i, cur |-> t, left |-> left]]
    /\ UNCHANGED <<remote, table, files, history, orch, dl, note, watchers>>

RequestRetry(r) == "retry" \in UICommands /\ Request(r, "retry_mark", {})
RequestCancel(r) == "cancel" \in UICommands /\ Request(r, "cancel_signal", {})
RequestDelete(r) ==
    /\ "delete" \in UICommands
    /\ \E scopes \in SUBSET Scopes \ {{}} : Request(r, "delete_next", scopes)
RequestReset(r) == "reset" \in UICommands /\ Request(r, "reset", {})
\* PurgeDownloads reads the directory once, then removes entry by entry.
RequestPurge(r) ==
    LET entries == {n \in Names : disk[n] # "none"} IN
    /\ "purge" \in UICommands
    /\ entries # {}
    /\ Request(r, "purge", entries)

\* Retry: the row becomes pending, so that a poll may claim it at once.
RetryMarks(r) ==
    /\ req[r].pc = "retry_mark"
    /\ UpdateTransferStatus(req[r].cur, "pending")
    /\ Goto(r, "retry_find")
    /\ UNCHANGED <<remote, files, history, orch, dl, note, watchers>>

\* findTransfer: a transfer that is not in Put.io's answer has no files to delete.
RetryFinds(r) ==
    /\ req[r].pc = "retry_find"
    /\ \/ remote[req[r].cur] # "gone" /\ Goto(r, "retry_wipe")
       \/ /\ remote[req[r].cur] = "gone" \/ "api" \in Faults
          /\ Goto(r, "requeue_list")
    /\ UNCHANGED <<remote, table, files, history, orch, dl, note, watchers>>

RetryWipes(r) ==
    /\ req[r].pc = "retry_wipe"
    /\ Wipe(NameOf[req[r].cur])
    /\ Goto(r, "requeue_list")
    /\ UNCHANGED <<remote, table, history, orch, dl, note, watchers>>

\* Requeue lists Put.io again, and claims as a poll does.
RequeueLists(r) ==
    /\ req[r].pc = "requeue_list"
    /\ IF remote[req[r].cur] = "available" THEN Goto(r, "requeue_select") ELSE Ends(r)
    /\ UNCHANGED <<remote, table, files, history, orch, dl, note, watchers>>

RequeueSelects(r) ==
    /\ req[r].pc = "requeue_select"
    /\ IF status[req[r].cur] = "downloaded" THEN Ends(r) ELSE Goto(r, "requeue_upsert")
    /\ UNCHANGED <<remote, table, files, history, orch, dl, note, watchers>>

RequeueUpserts(r) ==
    /\ req[r].pc = "requeue_upsert"
    /\ \/ Claimable(req[r].cur) /\ Claim(req[r].cur) /\ Goto(r, "requeue_send")
       \/ ~Claimable(req[r].cur) /\ Ends(r) /\ UNCHANGED table
    /\ UNCHANGED <<remote, files, history, orch, dl, note, watchers>>

\* The transfer is in activeDownloads of process i.
Active(i, t) ==
    /\ dl[i].pc \in {"grab", "open", "copy", "stuck", "return"}
    /\ dl[i].cur = t

CancelSignals(r) ==
    /\ req[r].pc = "cancel_signal"
    /\ IF Active(req[r].inst, req[r].cur)
       THEN /\ dl' = [dl EXCEPT ![req[r].inst].cancelled = TRUE]
            /\ Goto(r, "cancel_mark")
       ELSE Ends(r) /\ UNCHANGED dl
    /\ UNCHANGED <<remote, table, files, history, orch, note, watchers>>

\* The row becomes failed, and claimable, before the download has stopped.
CancelMarks(r) ==
    /\ req[r].pc = "cancel_mark"
    /\ UpdateTransferStatus(req[r].cur, "failed")
    /\ Ends(r)
    /\ UNCHANGED <<remote, files, history, orch, dl, note, watchers>>

\* Delete goes over its scopes in order, whether or not each succeeds.
DeleteGoesOn(r, scope) ==
    LET left == req[r].left \ {scope} IN
    req' = [req EXCEPT ![r] = IF left = {} THEN DoneReq
                              ELSE [@ EXCEPT !.pc = "delete_next", !.left = left]]

DeletesPutio(r) ==
    /\ req[r].pc = "delete_next"
    /\ "putio" \in req[r].left
    /\ \/ remote' = [remote EXCEPT ![req[r].cur] = "gone"]
       \/ "api" \in Faults /\ UNCHANGED remote
    /\ DeleteGoesOn(r, "putio")
    /\ UNCHANGED <<table, files, history, orch, dl, note, watchers>>

DeleteFinds(r) ==
    /\ req[r].pc = "delete_next"
    /\ "putio" \notin req[r].left /\ "local" \in req[r].left
    /\ \/ remote[req[r].cur] # "gone" /\ Goto(r, "delete_wipe")
       \/ /\ remote[req[r].cur] = "gone" \/ "api" \in Faults
          /\ DeleteGoesOn(r, "local")
    /\ UNCHANGED <<remote, table, files, history, orch, dl, note, watchers>>

DeleteWipes(r) ==
    /\ req[r].pc = "delete_wipe"
    /\ Wipe(NameOf[req[r].cur])
    /\ DeleteGoesOn(r, "local")
    /\ UNCHANGED <<remote, table, history, orch, dl, note, watchers>>

DeletesRow(r) ==
    /\ req[r].pc = "delete_next"
    /\ req[r].left = {"db"}
    /\ DeleteRows({req[r].cur})
    /\ DeleteGoesOn(r, "db")
    /\ UNCHANGED <<remote, files, history, orch, dl, note, watchers>>

Resets(r) ==
    /\ req[r].pc = "reset"
    /\ DeleteRows(Transfers)
    /\ Ends(r)
    /\ UNCHANGED <<remote, files, history, orch, dl, note, watchers>>

Purges(r) ==
    /\ req[r].pc = "purge"
    /\ \E n \in req[r].left :
          /\ Wipe(n)
          /\ IF req[r].left = {n}
             THEN Ends(r)
             ELSE req' = [req EXCEPT ![r].left = @ \ {n}]
    /\ UNCHANGED <<remote, table, history, orch, dl, note, watchers>>

\* A call to Put.io or a statement fails, or the request's context is done before the
\* downloader has received the transfer: the command answers with the error.
ReqFails(r) ==
    /\ \/ "api" \in Faults /\ req[r].pc \in {"retry_find", "requeue_list"}
       \/ "client" \in Faults /\ req[r].pc = "requeue_send"
       \/ /\ "db" \in Faults
          /\ \/ req[r].pc \in {"retry_mark", "requeue_select", "requeue_upsert",
                               "cancel_mark", "reset"}
             \/ req[r].pc = "delete_next" /\ req[r].left = {"db"}
    /\ Ends(r)
    /\ UNCHANGED <<remote, table, files, history, orch, dl, note, watchers>>

-----------------------------------------------------------------------------
(* Put.io, *arr and the processes themselves *)

RemoteCompletes(t) ==
    /\ remote[t] = "fetching"
    /\ remote' = [remote EXCEPT ![t] = "available"]
    /\ UNCHANGED <<table, files, history, orch, dl, note, watchers, req>>

\* *arr or the user removes the transfer, or Put.io expires it.
RemoteRemoved(t) ==
    /\ remote[t] # "gone"
    /\ remote' = [remote EXCEPT ![t] = "gone"]
    /\ UNCHANGED <<table, files, history, orch, dl, note, watchers, req>>

\* *arr imports a complete release and records it in its history.
ArrImports(n) ==
    /\ disk[n] = "complete"
    /\ disk' = [disk EXCEPT ![n] = "imported"]
    /\ history' = history \cup {n}
    /\ UNCHANGED <<remote, table, spoiled, orch, dl, note, watchers, req>>

\* The process dies and starts anew: what is in memory is lost.
Crash(i) ==
    /\ "crash" \in Faults
    /\ orch' = [orch EXCEPT ![i] = IdleOrch]
    /\ dl' = [dl EXCEPT ![i] = IdleDl]
    /\ note' = [note EXCEPT ![i] = IdleNote]
    /\ waiting' = [waiting EXCEPT ![i] = NoWatchers]
    /\ removing' = [removing EXCEPT ![i] = NoWatchers]
    /\ announcing' = [announcing EXCEPT ![i] = NoWatchers]
    /\ req' = [r \in Requests |-> IF req[r].inst = i THEN DoneReq ELSE req[r]]
    /\ UNCHANGED <<remote, table, files, history>>

-----------------------------------------------------------------------------

OrchNext(i) == OrchList(i) \/ OrchSelect(i) \/ OrchUpsert(i) \/ OrchDbFails(i)

DlNext(i) ==
    \/ DlReceivesPolled(i) \/ \E r \in Requests : DlReceivesRequeued(i, r)
    \/ DlGrabs(i) \/ DlGrabFails(i) \/ DlOpens(i) \/ DlOpenFails(i)
    \/ DlCopies(i) \/ DlCopyBreaks(i) \/ DlSiblingFails(i) \/ DlUnregisters(i)

NoteNext(i) ==
    \/ NoteReceives(i) \/ \E t \in Transfers : NoteReceivesImported(i, t)
    \/ NoteHandles(i) \/ NoteDbFails(i)

WatcherNext(i) == \E t \in Transfers : WatcherSeesImport(i, t) \/ WatcherRemoves(i, t)

UINext(r) ==
    \/ RequestRetry(r) \/ RequestCancel(r) \/ RequestDelete(r)
    \/ RequestReset(r) \/ RequestPurge(r)
    \/ RetryMarks(r) \/ RetryFinds(r) \/ RetryWipes(r)
    \/ RequeueLists(r) \/ RequeueSelects(r) \/ RequeueUpserts(r)
    \/ CancelSignals(r) \/ CancelMarks(r)
    \/ DeletesPutio(r) \/ DeleteFinds(r) \/ DeleteWipes(r) \/ DeletesRow(r)
    \/ Resets(r) \/ Purges(r) \/ ReqFails(r)

EnvNext ==
    \/ \E t \in Transfers : RemoteCompletes(t) \/ RemoteRemoved(t)
    \/ \E n \in Names : ArrImports(n)
    \/ \E i \in Instances : Crash(i)

Next ==
    \/ \E i \in Instances : OrchNext(i) \/ DlNext(i) \/ NoteNext(i) \/ WatcherNext(i)
    \/ \E r \in Requests : UINext(r)
    \/ EnvNext

Spec == Init /\ [][Next]_vars

-----------------------------------------------------------------------------
(* Fairness: a goroutine that can go on does, and a select or a queue of     *)
(* senders passes over no partner for ever. A copy ends, one way or another, *)
(* and a file that is tried again and again is opened in the end.            *)
(* Nothing is asked of the users, of *arr or of Put.io's own progress.       *)

OrchFairness(i) ==
    /\ WF_vars(OrchList(i)) /\ WF_vars(OrchSelect(i)) /\ WF_vars(OrchUpsert(i))

DlEnds(i) == DlCopies(i) \/ DlCopyBreaks(i) \/ DlSiblingFails(i)

DlFairness(i) ==
    /\ SF_vars(DlReceivesPolled(i))
    /\ \A r \in Requests : SF_vars(DlReceivesRequeued(i, r))
    /\ WF_vars(DlGrabs(i) \/ DlGrabFails(i)) /\ WF_vars(DlOpens(i) \/ DlOpenFails(i))
    /\ SF_vars(DlOpens(i)) /\ WF_vars(DlEnds(i)) /\ WF_vars(DlUnregisters(i))

NoteFairness(i) ==
    /\ SF_vars(NoteReceives(i)) /\ WF_vars(NoteHandles(i))
    /\ \A t \in Transfers : SF_vars(NoteReceivesImported(i, t))

WatcherFairness(i) == \A t \in Transfers :
    WF_vars(WatcherSeesImport(i, t)) /\ WF_vars(WatcherRemoves(i, t))

ReqFairness(r) == WF_vars(req[r].pc # "new" /\ UINext(r))

Fairness ==
    /\ \A i \in Instances :
          OrchFairness(i) /\ DlFairness(i) /\ NoteFairness(i) /\ WatcherFairness(i)
    /\ \A r \in Requests : ReqFairness(r)

FairSpec == Spec /\ Fairness

-----------------------------------------------------------------------------
(* Custody: who has a claimed transfer in hand *)

OrchHolds(i, t) == orch[i].pc = "send" /\ orch[i].cur = t
ReqHolds(r, t) == req[r].pc = "requeue_send" /\ req[r].cur = t
\* This counts a downloader whose worker is blocked for ever (downloader.go:269): it has
\* the transfer in hand, though it will never report on it.
DlHolds(i, t) == dl[i].pc # "idle" /\ dl[i].cur = t
NoteHolds(i, t) == note[i].ev \in Outcomes /\ note[i].cur = t

Holders(t) ==
    {<<"orch", i>> : i \in {j \in Instances : OrchHolds(j, t)}}
    \cup {<<"req", r>> : r \in {q \in Requests : ReqHolds(q, t)}}
    \cup {<<"dl", i>> : i \in {j \in Instances : DlHolds(j, t)}}
    \cup {<<"note", i>> : i \in {j \in Instances : NoteHolds(j, t)}}

Stuck(i) == dl[i].pc = "stuck"

\* The holders whose downloader goes on, and those that are past it.
WillReport(t) ==
    \/ \E i \in Instances : ~Stuck(i) /\ (OrchHolds(i, t) \/ DlHolds(i, t))
    \/ \E r \in Requests :
          ReqHolds(r, t) /\ ~ \E i \in Instances : req[r].inst = i /\ Stuck(i)
    \/ \E i \in Instances : NoteHolds(i, t)

BehindStuck(t) == \E i \in Instances :
    /\ Stuck(i)
    /\ \/ DlHolds(i, t) \/ OrchHolds(i, t)
       \/ \E r \in Requests : req[r].inst = i /\ ReqHolds(r, t)

(***************************************************************************)
(* Safety                                                                  *)
(***************************************************************************)

\* While no command of the UI rewrites rows, no two goroutines of any process
\* have the same transfer in hand (queued, downloading or being reported), and
\* the row of a transfer in hand is claimed: ClaimTransfer prevents duplicate
\* downloads, also across a crash and between processes.
SingleCustody == \A t \in Transfers :
    /\ \A a, b \in Holders(t) : a = b
    /\ Holders(t) # {} => status[t] = "downloading" /\ locked[t]

\* A row that says downloaded has its whole release on disk, unless it was
\* imported already: what the notification loop records late is still true.
DownloadedIsLocal == \A t \in Transfers :
    status[t] = "downloaded" =>
        disk[NameOf[t]] \in {"complete", "imported"} \/ NameOf[t] \in history

\* The pipeline never deletes a complete release that was not imported: not the
\* removal of a release with missing files, nor the cleanup after an import.
OnlyImportedIsDeleted ==
    [][\A n \in Names : disk[n] = "complete" => disk'[n] # "none"]_vars

\* Whatever the UI does meanwhile, a claimed row has a goroutine that will report on it, or
\* is the one a worker blocked for ever has in hand, or queued behind it in its process: no
\* interleaving of retries, cancels, deletes and polls leaves a row locked otherwise, with
\* nobody working on it.
ClaimHasHolder == \A t \in Transfers :
    status[t] = "downloading" => WillReport(t) \/ BehindStuck(t)

\* A row waiting for its import always has a watcher looking for that import.
WaitingHasWatcher == \A t \in Transfers :
    status[t] = "downloaded" /\ NameOf[t] \notin history =>
        \E i \in Instances : waiting[i][t] > 0

\* The lock and the status agree, so that a failed or pending row is never
\* kept from being claimed by a lock nobody holds any more.
LockMatchesStatus == \A t \in Transfers : locked[t] <=> status[t] = "downloading"

\* An event reported late never brings back a row the user deleted: a row
\* appears only when a poll or a retry claims it.
RowsAppearByClaim ==
    [][\A t \in Transfers : status[t] = "none" /\ status'[t] # "none" =>
          /\ status'[t] = "downloading"
          /\ \/ \E i \in Instances : ~OrchHolds(i, t) /\ OrchHolds(i, t)'
             \/ \E r \in Requests : ~ReqHolds(r, t) /\ ReqHolds(r, t)']_vars

(***************************************************************************)
(* Liveness                                                                *)
(***************************************************************************)

\* A claimed transfer is in the end reported downloaded, failed or missing.
ClaimIsResolved == \A t \in Transfers :
    status[t] = "downloading" ~> status[t] # "downloading"

\* A transfer that stays available and unclaimed is in the end downloaded or
\* found missing: failed attempts are made again by later polls.
AvailableIsDownloaded == \A t \in Transfers :
    remote[t] = "available" ~>
        status[t] \in {"downloaded", "missing"} \/ remote[t] = "gone"

\* Once a downloaded release is in the import history, its files are removed.
ImportedIsCleaned == \A t \in Transfers :
    status[t] = "downloaded" /\ NameOf[t] \in history ~> disk[NameOf[t]] = "none"

\* A cancelled download stops, and is reported to the notification loop.
CancelIsReported == \A i \in Instances :
    dl[i].cancelled ~> dl[i].pc \in {"report", "idle"}

(***************************************************************************)
(* Refinement                                                              *)
(***************************************************************************)

PhaseOf(s) ==
    CASE s = "none" -> "unclaimed"
      [] s = "pending" -> "unclaimed"
      [] s = "downloading" -> "claimed"
      [] s = "downloaded" -> "kept"
      [] s = "failed" -> "failed"
      [] s = "missing" -> "missing"

CopyOf(d) ==
    CASE d = "none" -> "absent"
      [] d = "partial" -> "partial"
      [] d = "complete" -> "whole"
      [] d = "imported" -> "taken"

Lifecycle == INSTANCE TransferLifecycle WITH
    phase <- [t \in Transfers |-> PhaseOf(status[t])],
    copy <- [t \in Transfers |-> CopyOf(disk[NameOf[t]])]

\* Left to itself the pipeline takes every transfer through the life that
\* TransferLifecycle allows, and touches its files only when that allows it.
LifecycleSpec == Lifecycle!Spec
=============================================================================
