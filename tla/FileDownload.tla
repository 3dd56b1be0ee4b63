---------------------------- MODULE FileDownload -----------------------------
(***************************************************************************)
(* DownloadTransfer for one transfer: the loop that hands its files to at  *)
(* most maxParallel workers, the workers, and the errgroup that keeps the  *)
(* first error and cancels the rest. TransferPipeline takes the same       *)
(* download in the few steps its neighbours can tell apart; this module    *)
(* shows that those steps cover every interleaving of the workers.         *)
(***************************************************************************)
EXTENDS Naturals, FiniteSets

CONSTANTS
    NumFiles,     \* the files of the transfer
    MaxParallel,  \* MAX_PARALLEL
    Faults        \* what may go wrong: "api", "io", "copy" as in TransferPipeline

ASSUME SizeAssumption == NumFiles \in Nat \ {0} /\ MaxParallel \in Nat \ {0}
ASSUME FileFaultAssumption == Faults \subseteq {"api", "io", "copy"}

Files == 1..NumFiles

VARIABLES
    gone,       \* Put.io no longer has the files
    cancelled,  \* CancelDownload was called
    worker,     \* where the worker of each file is
    joined,     \* the workers the errgroup has seen return
    err,        \* the first error it saw
    dir,        \* whether the directory of the release exists
    onDisk,     \* what each file's path holds
    found       \* history: what they held when the download began

group == <<joined, err>>
vars == <<gone, cancelled, worker, group, dir, onDisk, found>>

\* "missed" and "failed" have released their slot and return an error.
WorkerStates == {"waiting", "url", "get", "mkdir", "create", "copy", "stuck",
                 "wipe", "missed", "failed", "copied"}
FileStates == {"absent", "partial", "whole"}
Errors == {"missing", "error"}

TypeOK ==
    /\ gone \in BOOLEAN /\ cancelled \in BOOLEAN /\ dir \in BOOLEAN
    /\ worker \in [Files -> WorkerStates]
    /\ joined \subseteq Files
    /\ err \in Errors \cup {"none"}
    /\ onDisk \in [Files -> FileStates] /\ found \in [Files -> FileStates]

Nothing == [f \in Files |-> "absent"]

\* An earlier attempt may have left files behind.
Init ==
    /\ gone \in BOOLEAN
    /\ cancelled = FALSE
    /\ worker = [f \in Files |-> "waiting"]
    /\ joined = {}
    /\ err = "none"
    /\ found \in [Files -> FileStates]
    /\ onDisk = found
    /\ dir \in BOOLEAN /\ (found # Nothing => dir)

Goes(f, pc) == worker' = [worker EXCEPT ![f] = pc]

\* The context of the workers is done.
CtxDone == cancelled \/ err # "none"

\* Mutant: a slot is given back only by a worker that succeeded.
BusyUntilCopied == {f \in Files : worker[f] \notin {"waiting", "copied"}}

\* The workers that hold a slot of the semaphore.
Busy == {f \in Files : worker[f] \notin {"waiting", "missed", "failed", "copied"}}

\* The loop takes a slot for the next file.
Starts(f) ==
    /\ worker[f] = "waiting"
    /\ \A g \in Files : g < f => worker[g] # "waiting"
    /\ Cardinality(Busy) < MaxParallel
    /\ Goes(f, "url")
    /\ UNCHANGED <<gone, cancelled, group, dir, onDisk, found>>

GetsUrl(f) ==
    /\ worker[f] = "url"
    /\ ~gone /\ ~CtxDone
    /\ Goes(f, "get")
    /\ UNCHANGED <<gone, cancelled, group, dir, onDisk, found>>

\* Every error of Files.URL counts as ErrTransferFilesNotFound.
UrlFails(f) ==
    /\ worker[f] = "url"
    /\ gone \/ CtxDone \/ "api" \in Faults
    /\ Goes(f, "wipe")
    /\ UNCHANGED <<gone, cancelled, group, dir, onDisk, found>>

\* Mutant: the release is left where it is.
LeavesRelease(f) ==
    /\ worker[f] = "wipe"
    /\ Goes(f, "missed")
    /\ UNCHANGED <<gone, cancelled, group, dir, onDisk, found>>

\* os.RemoveAll of the release, also of the files the siblings are writing.
Wipes(f) ==
    /\ worker[f] = "wipe"
    /\ onDisk' = Nothing
    /\ dir' = FALSE
    /\ Goes(f, "missed")
    /\ UNCHANGED <<gone, cancelled, group, found>>

\* http.Get, which does not know of the context.
Gets(f) ==
    /\ worker[f] = "get"
    /\ Goes(f, "mkdir")
    /\ UNCHANGED <<gone, cancelled, group, dir, onDisk, found>>

MakesDir(f) ==
    /\ worker[f] = "mkdir"
    /\ dir' = TRUE
    /\ Goes(f, "create")
    /\ UNCHANGED <<gone, cancelled, group, onDisk, found>>

\* os.Create truncates what is there.
Creates(f) ==
    /\ worker[f] = "create"
    /\ dir
    /\ onDisk' = [onDisk EXCEPT ![f] = "partial"]
    /\ Goes(f, "copy")
    /\ UNCHANGED <<gone, cancelled, group, dir, found>>

\* The GET, MkdirAll or Create fails, the last one also when a sibling has
\* just removed the directory.
Fails(f) ==
    /\ \/ worker[f] \in {"get", "mkdir", "create"} /\ "io" \in Faults
       \/ worker[f] = "create" /\ ~dir
    /\ Goes(f, "failed")
    /\ UNCHANGED <<gone, cancelled, group, dir, onDisk, found>>

\* The last byte is read. A file that was removed meanwhile is not on disk.
Copies(f) ==
    /\ worker[f] = "copy"
    /\ ~CtxDone
    /\ onDisk' = [onDisk EXCEPT ![f] = IF @ = "absent" THEN @ ELSE "whole"]
    /\ Goes(f, "copied")
    /\ UNCHANGED <<gone, cancelled, group, dir, found>>

\* A read fails or sees the context done: the worker sends on
\* OnFileDownloadError, which nothing receives.
CopyBreaks(f) ==
    /\ worker[f] = "copy"
    /\ CtxDone \/ "copy" \in Faults
    /\ Goes(f, "stuck")
    /\ UNCHANGED <<gone, cancelled, group, dir, onDisk, found>>

\* Mutants: the error is not told apart; the last error wins over the first.
JoinsUntold(f) ==
    /\ worker[f] \in {"missed", "failed", "copied"} /\ f \notin joined
    /\ joined' = joined \cup {f}
    /\ err' = IF err # "none" \/ worker[f] = "copied" THEN err ELSE worker[f]
    /\ UNCHANGED <<gone, cancelled, worker, dir, onDisk, found>>
JoinsLast(f) ==
    /\ worker[f] \in {"missed", "failed", "copied"} /\ f \notin joined
    /\ joined' = joined \cup {f}
    /\ err' = CASE worker[f] = "copied" -> "none"
                [] worker[f] = "missed" -> "missing"
                [] worker[f] = "failed" -> "error"
    /\ UNCHANGED <<gone, cancelled, worker, dir, onDisk, found>>

\* The errgroup takes the result of a worker; its first error is the result of
\* all and cancels the context.
Joins(f) ==
    /\ worker[f] \in {"missed", "failed", "copied"} /\ f \notin joined
    /\ joined' = joined \cup {f}
    /\ err' = IF err # "none" \/ worker[f] = "copied" THEN err
              ELSE IF worker[f] = "missed" THEN "missing" ELSE "error"
    /\ UNCHANGED <<gone, cancelled, worker, dir, onDisk, found>>

\* The transfer leaves Put.io.
Removed ==
    /\ ~gone
    /\ gone' = TRUE
    /\ UNCHANGED <<cancelled, worker, group, dir, onDisk, found>>

\* The UI calls CancelDownload while the transfer is in activeDownloads.
CancelDownload ==
    /\ ~cancelled
    /\ cancelled' = TRUE
    /\ UNCHANGED <<gone, worker, group, dir, onDisk, found>>

WorkerNext(f) ==
    \/ GetsUrl(f) \/ UrlFails(f) \/ Wipes(f) \/ Gets(f) \/ MakesDir(f) \/ Creates(f)
    \/ Fails(f) \/ Copies(f) \/ CopyBreaks(f) \/ Joins(f)

Next == Removed \/ CancelDownload \/ \E f \in Files : Starts(f) \/ WorkerNext(f)

Spec == Init /\ [][Next]_vars

\* The loop and the workers go on when they can; a copy ends one way or another.
FairSpec == Spec /\ \A f \in Files : WF_vars(Starts(f)) /\ WF_vars(WorkerNext(f))

-----------------------------------------------------------------------------

Returned == joined = Files
Stuck == \E f \in Files : worker[f] = "stuck"

\* A download that returns no error leaves every file whole on disk: the files
\* a failing worker removes, or never opens, are never those of a success.
FinishedIsWhole ==
    Returned /\ err = "none" => \A f \in Files : onDisk[f] = "whole"

\* A worker that fails gives its slot back, so that the loop ends and the
\* transfer is reported, unless a worker that was copying stays blocked.
ReturnsUnlessStuck == <>(Returned \/ Stuck)

-----------------------------------------------------------------------------
(* The download as TransferPipeline sees it *)

HasUrl == {"get", "mkdir", "create", "copy", "stuck", "failed", "copied"}
HasFile == {"copy", "stuck", "copied"}

AllCopied == \A f \in Files : worker[f] = "copied"

\* Nothing goes on any more, and some worker is blocked.
Halted ==
    /\ Stuck
    /\ \A f \in Files : \/ worker[f] = "stuck" \/ f \in joined
                        \/ worker[f] = "waiting" /\ Cardinality(Busy) >= MaxParallel

Phase ==
    IF Returned \/ AllCopied THEN "return"
    ELSE IF Halted THEN "stuck"
    ELSE IF \E f \in Files : worker[f] \in HasFile THEN "copy"
    ELSE IF \E f \in Files : worker[f] \in HasUrl THEN "open"
    ELSE "grab"

\* What the release is to the pipeline: whole once a download has ended well.
Copy(held) == IF held = Nothing THEN "none" ELSE "partial"
Disk ==
    CASE Phase \in {"grab", "open"} -> Copy(found)
      [] Phase = "copy" -> "partial"
      [] Phase \in {"stuck", "return"} -> IF AllCopied THEN "complete" ELSE Copy(onDisk)

\* A file was opened in a release whose other files failed.
Spoiled ==
    /\ Phase \in {"stuck", "return"}
    /\ \E f \in Files : worker[f] \in HasFile
    /\ \E f \in Files : worker[f] \in {"missed", "failed"}

Outcome ==
    IF Phase # "return" THEN "none" ELSE IF err = "none" THEN "finished" ELSE err

Pipeline == INSTANCE TransferPipeline WITH
    Instances <- {"p"}, Transfers <- {"t"}, Names <- {"t"}, NameOf <- [t \in {"t"} |-> t],
    MultiFile <- IF NumFiles > 1 THEN {"t"} ELSE {},
    Requests <- {}, UICommands <- {"cancel"}, CleanupAfterImport <- TRUE,
    NoTransfer <- "no transfer", NoInstance <- "no instance",
    remote <- [t \in {"t"} |-> IF gone THEN "gone" ELSE "available"],
    status <- [t \in {"t"} |-> "downloading"],
    locked <- [t \in {"t"} |-> TRUE],
    disk <- [n \in {"t"} |-> Disk],
    spoiled <- IF Spoiled THEN {"p"} ELSE {},
    history <- {},
    orch <- [i \in {"p"} |-> [pc |-> "idle", cur |-> "no transfer", todo |-> {}]],
    dl <- [i \in {"p"} |->
             [pc |-> Phase, cur |-> "t", cancelled |-> cancelled, out |-> Outcome]],
    note <- [i \in {"p"} |-> [ev |-> "idle", cur |-> "no transfer"]],
    waiting <- [i \in {"p"} |-> [t \in {"t"} |-> 0]],
    removing <- [i \in {"p"} |-> [t \in {"t"} |-> 0]],
    announcing <- [i \in {"p"} |-> [t \in {"t"} |-> 0]],
    req <- << >>

\* However the workers interleave, the pipeline sees one of the steps its
\* downloader takes: which outcome, with which files left on disk.
DownloadsAsPipeline ==
    [][Pipeline!DlNext("p") \/ Pipeline!RemoteRemoved("t") \/ CancelDownload]_(Pipeline!vars)
=============================================================================
