-------------------------- MODULE TransferReports --------------------------
(***************************************************************************)
(* What the pipeline's state is reported as: to *arr by torrent-get        *)
(* (internal/http/rest/transmission.go), which decides when *arr imports,  *)
(* and to the user by the web UI (internal/svc/transfers/service.go,       *)
(* internal/transfer/status.go). Both are computed from three reads, of    *)
(* Put.io, of the downloads table and of the disk.                         *)
(*                                                                         *)
(* A release has Size units of bytes. The seed goals of a torrent stand as *)
(* one fact, whether they are met.                                         *)
(***************************************************************************)
EXTENDS TransferPipeline

Size == 2

\* What Put.io's list says of a transfer: its status ("waiting" and "checking" are
\* treated as in_queue and finishing), its size, which is 0 until Put.io knows it, how
\* much of it was downloaded, which may be anything whatever the status, and whether a
\* message comes with an error (Put.io's client never sets one, client.go:85-103).
FetchingAs == {"in_queue", "preparing_download", "downloading",
               "completing", "finishing", "error"}
AvailableAs == {"completed", "finished", "seeding", "seedingwait"}
ListedOnPutio(t) ==
    CASE remote[t] = "fetching" -> [status : FetchingAs, size : {0, Size},
                                    downloaded : 0 .. Size, message : BOOLEAN]
      [] remote[t] = "available" -> [status : AvailableAs, size : {Size},
                                     downloaded : 0 .. Size, message : {FALSE}]
      [] remote[t] = "gone" -> {}

\* The row torrent-get and the UI find; a table that cannot be read is as if
\* it were empty.
RowRead(t) == {status[t]} \cup (IF "db" \in Faults THEN {"none"} ELSE {})

\* What os.Stat tells of the files in Put.io's list, which is empty when Put.io
\* fails to list them; *arr moves what it imports.
LocalDownloadedBytes(t) ==
    LET d == disk[NameOf[t]]
    IN  (IF "api" \in Faults THEN {0} ELSE {}) \cup
            CASE remote[t] # "available" \/ d = "none" -> {0}
              [] d = "partial" -> 0 .. Size - 1
              [] d = "complete" -> {Size}
              [] OTHER -> 0 .. Size

-----------------------------------------------------------------------------
(* torrent-get *)

IsFinished(p) == p.status \in {"completed", "seeding", "finished"}

RemoteStatus(p) ==
    CASE p.status = "downloading" -> "download"
      [] p.status = "in_queue" -> "download_wait"
      [] p.status \in {"finishing", "completing"} -> "check"
      [] p.status \in {"completed", "finished", "seeding"} -> "seed"
      [] p.status = "seedingwait" -> "seed_wait"
      [] OTHER -> "stopped"

\* Mutant: the statuses of a transfer that seeds are forgotten.
GatesCompletedOnly(p) ==
    p.status \in {"completed", "finished", "completing"}

ShouldGateLocalImport(p) ==
    \/ p.status \in {"completed", "finished", "seeding", "seedingwait", "completing"}
    \/ /\ p.status \notin {"downloading", "in_queue"}
       /\ p.size > 0 /\ p.downloaded >= p.size

SeedGoalReached(s, met) == s \in {"seed", "seed_wait"} /\ met

\* What *arr is told of a transfer that is listed as p, has the row status s
\* and b bytes on disk, and whose torrent-stop and seed goals are as given.
BuildTransmissionTorrent(p, s, b, stopped, met) ==
    LET gated == ShouldGateLocalImport(p) /\ s # "downloaded"
        lost == gated /\ s \in {"failed", "missing"}
        state == IF lost THEN "stopped" ELSE IF gated THEN "download" ELSE RemoteStatus(p)
    IN  [left |-> p.size - (IF ~ gated THEN p.downloaded ELSE IF b < p.size THEN b ELSE p.size),
         finished |-> IsFinished(p) /\ ~ gated,
         error |-> lost \/ (p.status = "error" /\ p.message),
         status |-> IF stopped \/ SeedGoalReached(state, met) THEN "stopped" ELSE state]

TorrentGet(t, p, stopped) ==
    {BuildTransmissionTorrent(p, s, b, stopped, met) :
        s \in RowRead(t), b \in LocalDownloadedBytes(t), met \in BOOLEAN}

\* *arr imports a torrent that has no error and is finished, or of which
\* nothing is left and which no longer downloads.
Offered(r) ==
    /\ ~ r.error
    /\ \/ r.finished
       \/ r.left = 0 /\ r.status \in {"seed", "seed_wait", "stopped"}

-----------------------------------------------------------------------------
(* The web UI *)

MissingPhaseStatus(s) ==
    CASE s \in {"missing", "none"} -> "missing_on_putio"
      [] s = "downloaded" -> "cleaned_up"
      [] OTHER -> "orphaned"

RemotePhaseStatus(p) ==
    CASE p.status \in {"in_queue", "preparing_download"} -> "queued_on_putio"
      [] p.status \in {"downloading", "finishing", "completing"} -> "downloading_on_putio"
      [] p.status = "error" -> "failed_putio"
      [] OTHER -> "available"

\* Mutant: a missing row is looked at as if it were none.
LocalPhaseByBytes(size, s, b) ==
    CASE s = "failed" -> "failed_local"
      [] s = "downloaded" -> "waiting_import"
      [] OTHER -> IF size > 0 /\ b >= size THEN "local_complete" ELSE "downloading_local"

LocalPhaseStatus(size, s, b) ==
    CASE s = "failed" -> "failed_local"
      [] s = "missing" -> "missing_on_putio"
      [] s = "downloaded" -> "waiting_import"
      [] s = "pending" -> "ready_for_local"
      [] s \in {"downloading", "none"} /\ size > 0 /\ b >= size -> "local_complete"
      [] s = "none" /\ b = 0 -> "ready_for_local"
      [] OTHER -> "downloading_local"

ComputeStatus(p, s, b) ==
    IF RemotePhaseStatus(p) = "available" THEN LocalPhaseStatus(p.size, s, b)
    ELSE RemotePhaseStatus(p)

-----------------------------------------------------------------------------
(* Properties *)

\* Two ways past the gate: a transfer of which Put.io knows no size has nothing left to
\* it and is not gated (transmission.go:761), nor is one that Put.io still lists as
\* downloading or queued (:756), which a torrent-stop turns into one that has ended.
PassesGate(p, stopped) ==
    \/ p.size = 0
    \/ stopped /\ p.status \in {"downloading", "in_queue"} /\ p.downloaded = p.size

\* But for these two ways, torrent-get offers a release for import only when the whole of
\* it is on disk, or was and has been imported, whatever status and progress Put.io gives
\* the transfer, stopped or not, and also when the table or Put.io's files cannot be read
\* (transmission.go:832-834). It is what ArrImports relies on.
OfferedIsWhole == \A t \in Transfers, stopped \in BOOLEAN : \A p \in ListedOnPutio(t) :
    (\E r \in TorrentGet(t, p, stopped) : Offered(r)) =>
        \/ disk[NameOf[t]] \in {"complete", "imported"} \/ NameOf[t] \in history
        \/ PassesGate(p, stopped)

\* The UI and torrent-get, each with rules of its own, do not contradict each other: a
\* transfer of a known size that *arr is offered, unless it stopped the torrent, is shown
\* as waiting for its import, and is offered when it is shown so, once Put.io says that
\* it is finished or that nothing of it is left; *arr is told of an error exactly
\* where the UI shows a failed or missing download, or one that failed on Put.io with a
\* message.
ViewsAgree == \A t \in Transfers : \A p \in ListedOnPutio(t), s \in RowRead(t) :
    \A b \in LocalDownloadedBytes(t), met \in BOOLEAN :
        LET r == BuildTransmissionTorrent(p, s, b, FALSE, met)
            stage == ComputeStatus(p, s, b)
        IN  /\ p.size > 0 /\ Offered(r) => stage = "waiting_import"
            /\ stage = "waiting_import" /\ (IsFinished(p) \/ p.downloaded = p.size) => Offered(r)
            /\ r.error <=> \/ stage \in {"failed_local", "missing_on_putio"}
                           \/ stage = "failed_putio" /\ p.message

=============================================================================
