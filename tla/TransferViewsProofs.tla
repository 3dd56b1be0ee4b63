------------------------- MODULE TransferViewsProofs -------------------------
(***************************************************************************)
(* What *arr is told and what the screens show: theorems about             *)
(* TransferReports and TransferViews.                                      *)
(***************************************************************************)
EXTENDS TransferViews, TransferPipelineProofs

-----------------------------------------------------------------------------
(* What may be listed, and what is made of it *)

LEMMA ListedShape ==
    ASSUME TypeOK, NEW t \in Transfers, NEW p \in ListedOnPutio(t)
    PROVE  /\ remote[t] \in {"fetching", "available"}
           /\ p.size \in {0, Size} /\ p.downloaded \in 0 .. Size /\ p.message \in BOOLEAN
           /\ remote[t] = "available" => p.status \in AvailableAs /\ p.size = Size
           /\ remote[t] = "fetching" => p.status \in FetchingAs
BY DEF ListedOnPutio, TypeOK, RemoteStates

\* A release of which every byte is found on disk is there, or *arr moved it.
LEMMA BytesShape ==
    ASSUME NEW t \in Transfers, disk \in [Names -> DiskStates],
           Size \in LocalDownloadedBytes(t)
    PROVE  disk[NameOf[t]] \in {"complete", "imported"}
BY NameAssumption DEF LocalDownloadedBytes, DiskStates, Size

LEMMA BytesRange ==
    ASSUME TypeOK, NEW t \in Transfers, NEW b \in LocalDownloadedBytes(t)
    PROVE  b \in 0 .. Size
BY NameAssumption DEF LocalDownloadedBytes, TypeOK, DiskStates, Size

\* What is offered is on disk byte for byte, or has the row that says downloaded, or gets
\* past the gate.
LEMMA OfferedShape ==
    ASSUME TypeOK, NEW t \in Transfers, NEW p \in ListedOnPutio(t), NEW s, NEW b \in 0 .. Size,
           NEW stopped \in BOOLEAN, NEW met \in BOOLEAN,
           Offered(BuildTransmissionTorrent(p, s, b, stopped, met))
    PROVE  b = Size \/ s = "downloaded" \/ PassesGate(p, stopped)
<1> DEFINE r == BuildTransmissionTorrent(p, s, b, stopped, met)
<1>t. p.size \in {0, Size} /\ p.downloaded \in 0 .. Size BY ListedShape
<1> SUFFICES ASSUME s # "downloaded", p.size = Size PROVE b = Size \/ PassesGate(p, stopped)
  BY <1>t DEF PassesGate
<1>1. CASE ShouldGateLocalImport(p)
  <2>1. ~ r.finished BY <1>1 DEF BuildTransmissionTorrent
  <2>2. r.left = p.size - (IF b < p.size THEN b ELSE p.size)
    BY <1>1 DEF BuildTransmissionTorrent
  <2>3. r.left = Size - b BY <2>2 DEF Size
  <2> QED BY <2>1, <2>3 DEF Offered, Size
<1>2. CASE ~ ShouldGateLocalImport(p)
  <2>1. ~ r.finished /\ r.left = Size - p.downloaded
    BY <1>2 DEF BuildTransmissionTorrent, IsFinished, ShouldGateLocalImport
  <2>2. r.left = 0 /\ r.status \in {"seed", "seed_wait", "stopped"}
    BY <2>1 DEF Offered
  <2>3. p.downloaded = Size BY <1>t, <2>1, <2>2 DEF Size
  <2>4. p.status \in {"downloading", "in_queue"}
    BY <1>2, <2>3 DEF ShouldGateLocalImport, Size
  <2>5. stopped
    <3>1. RemoteStatus(p) \in {"download", "download_wait"} BY <2>4 DEF RemoteStatus
    <3> QED BY <1>2, <2>2, <3>1 DEF BuildTransmissionTorrent, SeedGoalReached
  <2> QED BY <2>3, <2>4, <2>5 DEF PassesGate
<1> QED BY <1>1, <1>2

LEMMA OfferedFromRows == TypeOK /\ DownloadedIsLocal => OfferedIsWhole
<1> SUFFICES ASSUME TypeOK, DownloadedIsLocal, NEW t \in Transfers, NEW stopped \in BOOLEAN,
                    NEW p \in ListedOnPutio(t), NEW s \in RowRead(t),
                    NEW b \in LocalDownloadedBytes(t), NEW met \in BOOLEAN,
                    Offered(BuildTransmissionTorrent(p, s, b, stopped, met)),
                    ~ PassesGate(p, stopped)
             PROVE  disk[NameOf[t]] \in {"complete", "imported"} \/ NameOf[t] \in history
  BY DEF OfferedIsWhole, TorrentGet
<1>1. b = Size \/ s = "downloaded" BY OfferedShape, BytesRange
<1>2. CASE b = Size BY <1>2, BytesShape DEF TypeOK
<1>3. CASE s = "downloaded"
  <2>1. status[t] = "downloaded" BY <1>3 DEF RowRead
  <2> QED BY <2>1 DEF DownloadedIsLocal
<1> QED BY <1>1, <1>2, <1>3

\* But for the two ways past the gate that PassesGate names, *arr is not offered a release
\* that is not whole on disk: for any processes and transfers, under the faults of the disk,
\* the database, Put.io and the processes, whatever the torrent's goals and the status, size
\* and progress Put.io gives the transfer (transmission.go:752-945).
THEOREM OfferedStaysWhole ==
    ASSUME UICommands = {}, "listing" \notin Faults, NamesDiffer
    PROVE  Spec => []OfferedIsWhole
<1>1. IInv => OfferedIsWhole
  BY OfferedFromRows DEF IInv, CopyInv, RowFits, Kept, DownloadedIsLocal
<1> QED BY <1>1, IInvInvariant, PTL

-----------------------------------------------------------------------------
(* Nothing is known locally of what Put.io still fetches *)

\* A transfer that Put.io has not fetched yet has no row, and nobody is about to claim it.
Untouched(t) ==
    /\ status[t] = "none"
    /\ \A i \in Instances : t \notin orch[i].todo /\ orch[i].cur # t
    /\ \A r \in Requests :
          req[r].pc \in {"requeue_select", "requeue_upsert"} => req[r].cur # t

FetchingUntouched == \A t \in Transfers : remote[t] = "fetching" => Untouched(t)

LEMMA RemoteMovesOn ==
    ASSUME TypeOK, [Next]_vars, NEW t \in Transfers, remote'[t] = "fetching"
    PROVE  remote[t] = "fetching"
<1>1. ASSUME NEW i \in Instances, OrchNext(i) \/ DlNext(i) \/ NoteNext(i) \/ WatcherNext(i)
      PROVE  UNCHANGED remote
  BY <1>1 DEF OrchNext, OrchList, OrchSelect, OrchUpsert, OrchDbFails, DlNext,
     DlReceivesPolled, DlReceivesRequeued, DlGrabs, DlGrabFails, DlOpenFails, DlOpens,
     DlCopies, DlCopyBreaks, DlSiblingFails, DlUnregisters, NoteNext, NoteReceives,
     NoteReceivesImported, NoteHandles, NoteDbFails, WatcherNext, WatcherSeesImport,
     WatcherRemoves
<1>2. ASSUME NEW r \in Requests, UINext(r)
      PROVE  UNCHANGED remote \/ remote' = [remote EXCEPT ![req[r].cur] = "gone"]
  BY <1>2 DEF UINext, RequestRetry, RequestCancel, RequestDelete, RequestReset,
     RequestPurge, Request, RetryMarks, RetryFinds, RetryWipes, RequeueLists,
     RequeueSelects, RequeueUpserts, CancelSignals, CancelMarks, DeletesPutio,
     DeleteFinds, DeleteWipes, DeletesRow, Resets, Purges, ReqFails
<1>3. CASE EnvNext
  BY <1>3 DEF EnvNext, RemoteCompletes, RemoteRemoved, ArrImports, Crash, TypeOK
<1>4. CASE UNCHANGED vars BY <1>4 DEF vars
<1> QED BY <1>1, <1>2, <1>3, <1>4 DEF Next, TypeOK

\* The row of a transfer that is touched by nobody stays away.
LEMMA RowStaysAway ==
    ASSUME TypeOK, [Next]_vars, NEW t \in Transfers, Untouched(t)
    PROVE  status'[t] = "none"
<1>1. status \in [Transfers -> RowStates] /\ status[t] = "none" BY DEF TypeOK, Untouched
<1>2. CASE UNCHANGED table BY <1>1, <1>2 DEF table
<1>3. ASSUME NEW i \in Instances, OrchUpsert(i), Claim(orch[i].cur) PROVE status'[t] = "none"
  BY <1>1, <1>3 DEF Claim, Untouched
<1>4. ASSUME NEW r \in Requests, RequeueUpserts(r), Claim(req[r].cur) PROVE status'[t] = "none"
  BY <1>1, <1>4 DEF Claim, RequeueUpserts, Untouched
<1>5. ASSUME NEW u, NEW s, UpdateTransferStatus(u, s) PROVE status'[t] = "none"
  BY <1>1, <1>5 DEF UpdateTransferStatus
<1>6. ASSUME NEW T, DeleteRows(T) PROVE status'[t] = "none"
  BY <1>1, <1>6 DEF DeleteRows
<1> QED BY <1>2, <1>3, <1>4, <1>5, <1>6, TableShape

\* A poll lists only what Put.io has fetched.
LEMMA PollsPassOver ==
    ASSUME TypeOK, [Next]_vars, NEW t \in Transfers, Untouched(t), remote[t] = "fetching",
           NEW i \in Instances
    PROVE  t \notin orch'[i].todo /\ orch'[i].cur # t
<1>t. /\ orch \in [Instances -> OrchStates]
      /\ t # NoTransfer
      /\ \A j \in Instances : t \notin orch[j].todo /\ orch[j].cur # t
  BY NoneAssumption DEF TypeOK, Untouched
<1> USE <1>t DEF OrchStates, OrchAfter, IdleOrch
<1>1. ASSUME NEW j \in Instances, OrchNext(j) PROVE t \notin orch'[i].todo /\ orch'[i].cur # t
  <2>1. CASE OrchList(j) BY <2>1 DEF OrchList, Listings
  <2>2. CASE OrchSelect(j) BY <2>2 DEF OrchSelect
  <2>3. CASE OrchUpsert(j) BY <2>3 DEF OrchUpsert
  <2>4. CASE OrchDbFails(j) BY <2>4 DEF OrchDbFails
  <2> QED BY <1>1, <2>1, <2>2, <2>3, <2>4 DEF OrchNext
<1>2. ASSUME NEW j \in Instances, DlNext(j) PROVE t \notin orch'[i].todo /\ orch'[i].cur # t
  <2>1. CASE DlReceivesPolled(j) BY <2>1 DEF DlReceivesPolled
  <2>2. CASE ~ DlReceivesPolled(j)
    BY <1>2, <2>2 DEF DlNext, DlReceivesRequeued, DlGrabs, DlGrabFails, DlOpenFails, DlOpens,
       DlCopies, DlCopyBreaks, DlSiblingFails, DlUnregisters
  <2> QED BY <2>1, <2>2
<1>3. ASSUME NEW j \in Instances, NoteNext(j) \/ WatcherNext(j) PROVE UNCHANGED orch
  BY <1>3 DEF NoteNext, NoteReceives, NoteReceivesImported, NoteHandles, NoteDbFails,
     WatcherNext, WatcherSeesImport, WatcherRemoves
<1>4. ASSUME NEW r \in Requests, UINext(r) PROVE UNCHANGED orch
  BY <1>4 DEF UINext, RequestRetry, RequestCancel, RequestDelete, RequestReset,
     RequestPurge, Request, RetryMarks, RetryFinds, RetryWipes, RequeueLists,
     RequeueSelects, RequeueUpserts, CancelSignals, CancelMarks, DeletesPutio,
     DeleteFinds, DeleteWipes, DeletesRow, Resets, Purges, ReqFails
<1>5. CASE EnvNext
  BY <1>5 DEF EnvNext, RemoteCompletes, RemoteRemoved, ArrImports, Crash
<1>6. CASE UNCHANGED vars BY <1>6 DEF vars
<1> QED BY <1>1, <1>2, <1>3, <1>4, <1>5, <1>6 DEF Next

\* So does a retry.
LEMMA RetriesPassOver ==
    ASSUME TypeOK, [Next]_vars, NEW t \in Transfers, Untouched(t), remote[t] = "fetching",
           NEW q \in Requests, req'[q].pc \in {"requeue_select", "requeue_upsert"}
    PROVE  req'[q].cur # t
<1>t. /\ req \in [Requests -> ReqStates]
      /\ \A r \in Requests :
            req[r].pc \in {"requeue_select", "requeue_upsert"} => req[r].cur # t
  BY DEF TypeOK, Untouched
<1> USE <1>t DEF ReqStates, DoneReq, NewReq, Ends, Goto
<1>1. ASSUME NEW j \in Instances, OrchNext(j) \/ NoteNext(j) \/ WatcherNext(j)
      PROVE  UNCHANGED req
  BY <1>1 DEF OrchNext, OrchList, OrchSelect, OrchUpsert, OrchDbFails, NoteNext, NoteReceives,
     NoteReceivesImported, NoteHandles, NoteDbFails, WatcherNext, WatcherSeesImport,
     WatcherRemoves
<1>2. ASSUME NEW j \in Instances, DlNext(j) PROVE req'[q].cur # t
  <2>1. ASSUME NEW r \in Requests, DlReceivesRequeued(j, r) PROVE req'[q].cur # t
    BY <2>1 DEF DlReceivesRequeued
  <2>2. CASE UNCHANGED req BY <2>2
  <2> QED
    BY <1>2, <2>1, <2>2 DEF DlNext, DlReceivesPolled, DlGrabs, DlGrabFails, DlOpenFails,
       DlOpens, DlCopies, DlCopyBreaks, DlSiblingFails, DlUnregisters
<1>3. ASSUME NEW r \in Requests, UINext(r) PROVE req'[q].cur # t
  <2>1. CASE q # r
    <3>1. req'[q] = req[q]
      BY <1>3, <2>1 DEF UINext, RequestRetry, RequestCancel, RequestDelete, RequestReset,
         RequestPurge, Request, RetryMarks, RetryFinds, RetryWipes, RequeueLists,
         RequeueSelects, RequeueUpserts, CancelSignals, CancelMarks, DeletesPutio,
         DeleteFinds, DeleteWipes, DeletesRow, Resets, Purges, ReqFails, DeleteGoesOn
    <3> QED BY <3>1
  <2>2. CASE q = r
    <3>1. ~ (RequestRetry(r) \/ RequestCancel(r) \/ RequestDelete(r) \/ RequestReset(r)
                \/ RequestPurge(r))
      BY <2>2 DEF RequestRetry, RequestCancel, RequestDelete, RequestReset, RequestPurge,
         Request
    <3>2. ~ (RetryMarks(r) \/ RetryFinds(r) \/ RetryWipes(r) \/ CancelSignals(r)
                \/ CancelMarks(r) \/ Resets(r) \/ Purges(r) \/ ReqFails(r))
      BY <2>2 DEF RetryMarks, RetryFinds, RetryWipes, CancelSignals, CancelMarks, Resets,
         Purges, ReqFails
    <3>3. ~ (DeletesPutio(r) \/ DeleteFinds(r) \/ DeleteWipes(r) \/ DeletesRow(r))
      <4>1. ASSUME NEW scope, DeleteGoesOn(r, scope),
                   req[r].pc = "delete_next" \/ req[r].pc = "delete_wipe"
            PROVE  FALSE
        BY <2>2, <4>1 DEF DeleteGoesOn
      <4> QED BY <2>2, <4>1 DEF DeletesPutio, DeleteFinds, DeleteWipes, DeletesRow
    <3> QED
      BY <1>3, <2>2, <3>1, <3>2, <3>3 DEF UINext, RequeueLists, RequeueSelects,
         RequeueUpserts
  <2> QED BY <2>1, <2>2
<1>4. CASE EnvNext
  BY <1>4 DEF EnvNext, RemoteCompletes, RemoteRemoved, ArrImports, Crash
<1>5. CASE UNCHANGED vars BY <1>5 DEF vars
<1> QED BY <1>1, <1>2, <1>3, <1>4, <1>5 DEF Next

LEMMA FetchingStep == TypeOK /\ FetchingUntouched /\ [Next]_vars => FetchingUntouched'
<1> SUFFICES ASSUME TypeOK, FetchingUntouched, [Next]_vars,
                    NEW t \in Transfers, remote'[t] = "fetching"
             PROVE  Untouched(t)'
  BY DEF FetchingUntouched
<1>1. remote[t] = "fetching" /\ Untouched(t) BY RemoteMovesOn DEF FetchingUntouched
<1> QED BY <1>1, RowStaysAway, PollsPassOver, RetriesPassOver DEF Untouched

LEMMA FetchingInvariant == Spec => [](TypeOK /\ FetchingUntouched)
<1>1. Init => FetchingUntouched
  BY NoneAssumption DEF Init, FetchingUntouched, Untouched, IdleOrch, NewReq
<1> QED BY <1>1, FetchingStep, InitType, InitOutcome, TypeStep, OutcomeStep, PTL DEF Spec

-----------------------------------------------------------------------------
(* The screens and torrent-get agree *)

Agree(p, s, b, met) ==
    LET r == BuildTransmissionTorrent(p, s, b, FALSE, met)
        stage == ComputeStatus(p, s, b)
    IN  /\ p.size > 0 /\ Offered(r) => stage = "waiting_import"
        /\ stage = "waiting_import" /\ (IsFinished(p) \/ p.downloaded = p.size) => Offered(r)
        /\ r.error <=> \/ stage \in {"failed_local", "missing_on_putio"}
                       \/ stage = "failed_putio" /\ p.message

LEMMA AgreeOnAvailable ==
    ASSUME NEW p, p.status \in AvailableAs, p.size = Size, p.downloaded \in 0 .. Size,
           NEW s \in RowStates, NEW b, NEW met \in BOOLEAN
    PROVE  Agree(p, s, b, met)
<1> DEFINE r == BuildTransmissionTorrent(p, s, b, FALSE, met)
<1>1. ComputeStatus(p, s, b) = LocalPhaseStatus(p.size, s, b)
  BY DEF ComputeStatus, RemotePhaseStatus, AvailableAs
<1>2. ShouldGateLocalImport(p) /\ p.status # "error" BY DEF ShouldGateLocalImport, AvailableAs
<1>3. LocalPhaseStatus(p.size, s, b) # "failed_putio" BY DEF LocalPhaseStatus
<1>4. CASE s = "downloaded"
  <2>1. LocalPhaseStatus(p.size, s, b) = "waiting_import" BY <1>4 DEF LocalPhaseStatus
  <2>2. ~ r.error BY <1>2, <1>4 DEF BuildTransmissionTorrent
  <2>3. r.finished <=> IsFinished(p) BY <1>4 DEF BuildTransmissionTorrent, IsFinished
  <2>4. r.status \in {"seed", "seed_wait", "stopped"}
    <3>1. RemoteStatus(p) \in {"seed", "seed_wait"} BY DEF RemoteStatus, AvailableAs
    <3> QED BY <1>4, <3>1 DEF BuildTransmissionTorrent
  <2>5. r.left = p.size - p.downloaded BY <1>4 DEF BuildTransmissionTorrent
  <2>6. ASSUME p.downloaded = p.size PROVE r.left = 0
    <3>1. p.size - p.size = 0 BY DEF Size
    <3> QED BY <2>5, <2>6, <3>1
  <2> QED BY <1>1, <2>1, <2>2, <2>3, <2>4, <2>6 DEF Offered, Agree
<1>5. CASE s # "downloaded"
  <2>1. /\ LocalPhaseStatus(p.size, s, b) # "waiting_import"
        /\ LocalPhaseStatus(p.size, s, b) \in {"failed_local", "missing_on_putio"}
              <=> s \in {"failed", "missing"}
    BY <1>5 DEF LocalPhaseStatus, RowStates
  <2>2. r.error <=> s \in {"failed", "missing"}
    BY <1>2, <1>5 DEF BuildTransmissionTorrent
  <2>3. s \notin {"failed", "missing"} => ~ r.finished /\ r.status = "download"
    BY <1>2, <1>5 DEF BuildTransmissionTorrent, SeedGoalReached
  <2>4. ~ Offered(r) BY <2>2, <2>3 DEF Offered
  <2> QED BY <1>1, <1>3, <2>1, <2>2, <2>4 DEF Agree
<1> QED BY <1>4, <1>5

LEMMA AgreeOnFetching ==
    ASSUME NEW p, NEW b \in 0 .. Size, NEW met \in BOOLEAN, p.status \in FetchingAs,
           p.size \in {0, Size}, p.downloaded \in 0 .. Size, p.message \in BOOLEAN
    PROVE  Agree(p, "none", b, met)
<1> DEFINE r == BuildTransmissionTorrent(p, "none", b, FALSE, met)
<1>1. /\ ComputeStatus(p, "none", b) \in
            {"queued_on_putio", "downloading_on_putio", "failed_putio"}
      /\ ComputeStatus(p, "none", b) = "failed_putio" <=> p.status = "error"
  BY DEF ComputeStatus, RemotePhaseStatus, FetchingAs
<1>2. r.error <=> (p.status = "error" /\ p.message) BY DEF BuildTransmissionTorrent
<1>3. ASSUME p.size = Size PROVE ~ Offered(r)
  <2>1. CASE ShouldGateLocalImport(p)
    BY <2>1 DEF BuildTransmissionTorrent, SeedGoalReached, Offered
  <2>2. CASE ~ ShouldGateLocalImport(p)
    <3>1. ~ r.finished BY <2>2 DEF BuildTransmissionTorrent, IsFinished, FetchingAs
    <3>2. CASE p.downloaded # Size
      <4>1. r.left # 0 BY <1>3, <2>2, <3>2 DEF BuildTransmissionTorrent, Size
      <4> QED BY <3>1, <4>1 DEF Offered
    <3>3. CASE p.downloaded = Size
      <4>1. p.status \in {"downloading", "in_queue"}
        BY <1>3, <2>2, <3>3 DEF ShouldGateLocalImport, Size
      <4>2. RemoteStatus(p) \in {"download", "download_wait"} BY <4>1 DEF RemoteStatus
      <4>3. r.status \in {"download", "download_wait"}
        BY <2>2, <4>2 DEF BuildTransmissionTorrent, SeedGoalReached
      <4> QED BY <3>1, <4>3 DEF Offered
    <3> QED BY <3>2, <3>3
  <2> QED BY <2>1, <2>2
<1>4. p.size > 0 => p.size = Size OBVIOUS
<1> QED BY <1>1, <1>2, <1>3, <1>4 DEF Agree

LEMMA AgreeFromRows == TypeOK /\ FetchingUntouched => ViewsAgree
<1> SUFFICES ASSUME TypeOK, FetchingUntouched, NEW t \in Transfers,
                    NEW p \in ListedOnPutio(t), NEW s \in RowRead(t),
                    NEW b \in LocalDownloadedBytes(t), NEW met \in BOOLEAN
             PROVE  Agree(p, s, b, met)
  BY DEF ViewsAgree, Agree
<1>1. s \in RowStates BY DEF RowRead, TypeOK, RowStates
<1>2. b \in 0 .. Size BY BytesRange
<1>3. CASE remote[t] = "available" BY <1>1, <1>3, ListedShape, AgreeOnAvailable
<1>4. CASE remote[t] = "fetching"
  <2>1. s = "none" BY <1>4 DEF FetchingUntouched, Untouched, RowRead
  <2> QED BY <1>2, <1>4, <2>1, ListedShape, AgreeOnFetching
<1> QED BY <1>3, <1>4, ListedShape

\* torrent-get and the screens tell the same of every transfer, for any commands of the
\* UI, any processes and any faults, also while the table or Put.io's files cannot be read:
\* what is offered, and of what an error is told (transmission.go:752-889, status.go:45-138).
THEOREM ViewsAlwaysAgree == Spec => []ViewsAgree
BY FetchingInvariant, AgreeFromRows, PTL

-----------------------------------------------------------------------------
(* The read model: what its variables hold *)

LEMMA StageNames ==
    Stages = {"queued_on_putio", "downloading_on_putio", "ready_for_local",
              "downloading_local", "local_complete", "waiting_import", "imported",
              "seeding", "cleaned_up", "failed_local", "failed_putio",
              "missing_on_putio", "orphaned", "none"}
<1>1. DOMAIN PipelineStages = 1 .. 9 BY DEF PipelineStages
<1>2. {PipelineStages[n] : n \in 1 .. 9} =
         {"queued_on_putio", "downloading_on_putio", "ready_for_local",
          "downloading_local", "local_complete", "waiting_import", "imported",
          "seeding", "cleaned_up"}
  BY DEF PipelineStages
<1> QED BY <1>1, <1>2 DEF Stages

LEMMA Weights ==
    /\ \A s \in Stages : StageWeight(s) \in 0 .. 9
    /\ \A n \in 1 .. 9 : StageWeight(PipelineStages[n]) = n
    /\ \A s : (\A n \in 1 .. 9 : PipelineStages[n] # s) => StageWeight(s) = 0
<1>1. DOMAIN PipelineStages = 1 .. 9 BY DEF PipelineStages
<1>2. \A m, n \in 1 .. 9 : PipelineStages[m] = PipelineStages[n] => m = n
  BY DEF PipelineStages
<1>3. \A s : \/ \A n \in 1 .. 9 : PipelineStages[n] # s
            \/ \E n \in 1 .. 9 : PipelineStages[n] = s
  OBVIOUS
<1>4. ASSUME NEW n \in 1 .. 9 PROVE StageWeight(PipelineStages[n]) = n
  BY <1>1, <1>2 DEF StageWeight
<1>5. ASSUME NEW s, \A n \in 1 .. 9 : PipelineStages[n] # s PROVE StageWeight(s) = 0
  BY <1>1, <1>5 DEF StageWeight
<1>6. ASSUME NEW s PROVE StageWeight(s) \in 0 .. 9
  BY <1>3, <1>4, <1>5
<1> QED BY <1>4, <1>5, <1>6

LEMMA BuildViewStage ==
    ASSUME NEW p, NEW s, NEW b PROVE BuildView(p, s, b) \in Stages
BY StageNames DEF BuildView, ComputeStatus, LocalPhaseStatus, RemotePhaseStatus

LEMMA BuildOrphanViewStage == ASSUME NEW s PROVE BuildOrphanView(s) \in Stages
BY StageNames DEF BuildOrphanView, MissingPhaseStatus

LEMMA ReadOnPutioType ==
    ASSUME TypeOK, NEW t \in Transfers PROVE ReadOnPutio(t) \subseteq EveryListing
<1>1. Absent \in EveryListing BY DEF Absent, EveryListing
<1>2. ListedOnPutio(t) \subseteq EveryListing
  BY DEF ListedOnPutio, EveryListing, TypeOK, RemoteStates
<1> QED BY <1>1, <1>2 DEF ReadOnPutio

LEMMA RowReadType ==
    ASSUME TypeOK, NEW t \in Transfers PROVE RowRead(t) \subseteq RowStates
BY DEF RowRead, TypeOK, RowStates

Readings == [pc : {"idle", "records", "views", "record", "detail", "orphan"},
             cur : MaybeTransfer,
             listed : [Transfers -> EveryListing],
             rows : [Transfers -> RowStates]]

LEMMA NoReadingType == NoReading \in Readings
BY DEF NoReading, Readings, MaybeTransfer, Absent, EveryListing, RowStates

\* What a request of viewer v does to its reading, and to its screen.
LEMMA ViewShape ==
    ASSUME TypeOK, ViewTypeOK, NEW v \in Viewers, Views(v)
    PROVE  \E r \in Readings, s \in [Transfers -> Stages] :
              /\ reading' = [reading EXCEPT ![v] = r]
              /\ shown' = [shown EXCEPT ![v] = s]
<1>t. reading[v] \in Readings /\ shown[v] \in [Transfers -> Stages]
  BY DEF ViewTypeOK, Readings
<1>s. UNCHANGED shown => shown' = [shown EXCEPT ![v] = shown[v]]
  BY DEF ViewTypeOK
<1>1. ASSUME NEW pc \in {"records", "record"}, NEW t \in MaybeTransfer, ListsTransfers(v, pc, t)
      PROVE  UNCHANGED shown /\ \E r \in Readings : reading' = [reading EXCEPT ![v] = r]
  <2>1. PICK f \in [Transfers -> UNION {ReadOnPutio(u) : u \in Transfers}] :
           /\ \A u \in Transfers : f[u] \in ReadOnPutio(u)
           /\ Goes(v, [NoReading EXCEPT !.pc = pc, !.cur = t, !.listed = f])
    BY <1>1 DEF ListsTransfers
  <2>2. f \in [Transfers -> EveryListing] BY <2>1, ReadOnPutioType
  <2>3. [NoReading EXCEPT !.pc = pc, !.cur = t, !.listed = f] \in Readings
    BY <2>2, NoReadingType DEF Readings
  <2> QED BY <1>1, <2>1, <2>3 DEF ListsTransfers, Goes
<1>2. CASE LoadRecords(v)
  <2>1. PICK rows \in {status, NoReading.rows} :
           Goes(v, [reading[v] EXCEPT !.pc = "views", !.rows = rows])
    BY <1>2 DEF LoadRecords
  <2>2. rows \in [Transfers -> RowStates]
    BY <2>1, NoReadingType DEF TypeOK, Readings
  <2>3. [reading[v] EXCEPT !.pc = "views", !.rows = rows] \in Readings
    BY <1>t, <2>2 DEF Readings
  <2> QED BY <1>2, <1>t, <1>s, <2>1, <2>3 DEF LoadRecords, Goes
<1>3. CASE BuildViews(v)
  <2>1. PICK bytes \in [Transfers -> 0 .. Size] :
           shown' = [shown EXCEPT ![v] = [t \in Transfers |->
              CASE reading[v].listed[t] # Absent ->
                      BuildView(reading[v].listed[t], reading[v].rows[t], bytes[t])
                [] reading[v].listed[t] = Absent /\ reading[v].rows[t] # "none" ->
                      BuildOrphanView(reading[v].rows[t])
                [] OTHER -> "none"]]
    BY <1>3 DEF BuildViews
  <2>2. [t \in Transfers |->
              CASE reading[v].listed[t] # Absent ->
                      BuildView(reading[v].listed[t], reading[v].rows[t], bytes[t])
                [] reading[v].listed[t] = Absent /\ reading[v].rows[t] # "none" ->
                      BuildOrphanView(reading[v].rows[t])
                [] OTHER -> "none"] \in [Transfers -> Stages]
    BY BuildViewStage, BuildOrphanViewStage, StageNames
  <2> QED BY <1>3, <2>1, <2>2, NoReadingType DEF BuildViews, Goes
<1>4. CASE RecordOrEmpty(v)
  <2>1. PICK s \in RowRead(reading[v].cur) :
           Goes(v, [reading[v] EXCEPT !.rows[reading[v].cur] = s,
                       !.pc = IF reading[v].listed[reading[v].cur] = Absent
                              THEN "orphan" ELSE "detail"])
    BY <1>4 DEF RecordOrEmpty
  <2>2. reading[v].cur \in Transfers => s \in RowStates BY <2>1, RowReadType
  <2>3. [reading[v].rows EXCEPT ![reading[v].cur] = s] \in [Transfers -> RowStates]
    BY <1>t, <2>2 DEF Readings
  <2>4. [reading[v] EXCEPT !.rows[reading[v].cur] = s,
                       !.pc = IF reading[v].listed[reading[v].cur] = Absent
                              THEN "orphan" ELSE "detail"] \in Readings
    BY <1>t, <2>3 DEF Readings
  <2> QED BY <1>4, <1>t, <1>s, <2>1, <2>4 DEF RecordOrEmpty, Goes
<1>5. ASSUME NEW s \in Stages, shown' = [shown EXCEPT ![v][reading[v].cur] = s]
      PROVE  \E f \in [Transfers -> Stages] : shown' = [shown EXCEPT ![v] = f]
  <2>1. [shown[v] EXCEPT ![reading[v].cur] = s] \in [Transfers -> Stages]
    BY <1>t
  <2> QED BY <1>5, <2>1
<1>6. CASE BuildDetail(v)
  BY <1>5, <1>6, BuildViewStage, NoReadingType DEF BuildDetail, Goes
<1>7. CASE BuildOrphanDetail(v)
  BY <1>5, <1>7, BuildOrphanViewStage, StageNames, NoReadingType DEF BuildOrphanDetail, Goes
<1>8. CASE Abandons(v)
  BY <1>8, <1>t, <1>s, NoReadingType DEF Abandons, Goes
<1>9. CASE List(v) \/ Get(v)
  BY <1>1, <1>9, <1>t, <1>s DEF List, Get, MaybeTransfer
<1> QED BY <1>2, <1>3, <1>4, <1>6, <1>7, <1>8, <1>9 DEF Views

LEMMA ViewTypeStep == TypeOK /\ ViewTypeOK /\ [NextV]_allVars => ViewTypeOK'
<1> SUFFICES ASSUME TypeOK, ViewTypeOK, [NextV]_allVars PROVE ViewTypeOK'
  OBVIOUS
<1>1. CASE UNCHANGED viewVars BY <1>1 DEF viewVars, ViewTypeOK
<1>2. ASSUME NEW v \in Viewers, Views(v) PROVE ViewTypeOK'
  <2>1. PICK r \in Readings, s \in [Transfers -> Stages] :
           /\ reading' = [reading EXCEPT ![v] = r]
           /\ shown' = [shown EXCEPT ![v] = s]
    BY <1>2, ViewShape
  <2> QED BY <2>1 DEF ViewTypeOK, Readings
<1> QED BY <1>1, <1>2 DEF NextV, allVars

\* The pipeline under the read model is the pipeline.
LEMMA PipelineSteps == [NextV]_allVars => [Next]_vars
BY DEF NextV, allVars

\* The requests of the UI hold listings, rows and stages, under every fault and command.
THEOREM ViewTypeCorrect == SpecV => []ViewTypeOK
<1>1. InitV => TypeOK /\ OutcomeKnown /\ ViewTypeOK
  BY InitType, InitOutcome, NoReadingType, StageNames DEF InitV, ViewTypeOK, Readings
<1>2. TypeOK /\ OutcomeKnown /\ ViewTypeOK /\ [NextV]_allVars
         => (TypeOK /\ OutcomeKnown /\ ViewTypeOK)'
  BY PipelineSteps, TypeStep, OutcomeStep, ViewTypeStep
<1> QED BY <1>1, <1>2, PTL DEF SpecV

-----------------------------------------------------------------------------
(* A screen that says a release is there is right                          *)

LEMMA HistoryGrows == [Next]_vars => history \subseteq history'
<1> SUFFICES ASSUME [Next]_vars PROVE history \subseteq history'
  OBVIOUS
<1>1. ASSUME NEW i \in Instances, OrchNext(i) \/ DlNext(i) \/ NoteNext(i) \/ WatcherNext(i)
      PROVE  UNCHANGED history
  BY <1>1 DEF OrchNext, OrchList, OrchSelect, OrchUpsert, OrchDbFails, DlNext,
     DlReceivesPolled, DlReceivesRequeued, DlGrabs, DlGrabFails, DlOpenFails, DlOpens,
     DlCopies, DlCopyBreaks, DlSiblingFails, DlUnregisters, NoteNext, NoteReceives,
     NoteReceivesImported, NoteHandles, NoteDbFails, WatcherNext, WatcherSeesImport,
     WatcherRemoves
<1>2. ASSUME NEW r \in Requests, UINext(r) PROVE UNCHANGED history
  BY <1>2 DEF UINext, RequestRetry, RequestCancel, RequestDelete, RequestReset,
     RequestPurge, Request, RetryMarks, RetryFinds, RetryWipes, RequeueLists,
     RequeueSelects, RequeueUpserts, CancelSignals, CancelMarks, DeletesPutio,
     DeleteFinds, DeleteWipes, DeletesRow, Resets, Purges, ReqFails
<1>3. EnvNext => history \subseteq history'
  BY DEF EnvNext, RemoteCompletes, RemoteRemoved, ArrImports, Crash
<1> QED BY <1>1, <1>2, <1>3 DEF Next, vars

\* What *arr moved is in its history.
ImportedIsRecorded == \A n \in Names : disk[n] = "imported" => n \in history

LEMMA ImportedStep == TypeOK /\ ImportedIsRecorded /\ [Next]_vars => ImportedIsRecorded'
<1> SUFFICES ASSUME TypeOK, ImportedIsRecorded, [Next]_vars, NEW n \in Names,
                    disk'[n] = "imported"
             PROVE  n \in history'
  BY DEF ImportedIsRecorded
<1>t. disk \in [Names -> DiskStates] BY DEF TypeOK
<1>0. disk'[n] = disk[n] => n \in history' BY HistoryGrows DEF ImportedIsRecorded
<1>1. ASSUME NEW i \in Instances, OrchNext(i) \/ NoteNext(i) PROVE UNCHANGED disk
  BY <1>1 DEF OrchNext, OrchList, OrchSelect, OrchUpsert, OrchDbFails, NoteNext, NoteReceives,
     NoteReceivesImported, NoteHandles, NoteDbFails, files
<1>2. ASSUME NEW i \in Instances, DlNext(i) \/ WatcherNext(i) PROVE disk'[n] = disk[n]
  BY <1>2, <1>t DEF DlNext, DlReceivesPolled, DlReceivesRequeued, DlGrabs, DlGrabFails,
     DlOpenFails, DlOpens, DlCopies, DlCopyBreaks, DlSiblingFails, DlUnregisters,
     WatcherNext, WatcherSeesImport, WatcherRemoves, Wipe, Truncate, files
<1>3. ASSUME NEW r \in Requests, UINext(r) PROVE disk'[n] = disk[n]
  BY <1>3, <1>t DEF UINext, RequestRetry, RequestCancel, RequestDelete, RequestReset,
     RequestPurge, Request, RetryMarks, RetryFinds, RetryWipes, RequeueLists,
     RequeueSelects, RequeueUpserts, CancelSignals, CancelMarks, DeletesPutio,
     DeleteFinds, DeleteWipes, DeletesRow, Resets, Purges, ReqFails, Wipe, files
<1>4. CASE EnvNext
  BY <1>0, <1>4, <1>t DEF EnvNext, RemoteCompletes, RemoteRemoved, ArrImports, Crash, files
<1> QED BY <1>0, <1>1, <1>2, <1>3, <1>4 DEF Next, vars

\* A release that is there, or was imported, stays so.
LEMMA KeptStays ==
    ASSUME UICommands = {}, "listing" \notin Faults, NamesDiffer, IInv, ImportedIsRecorded,
           [Next]_vars, NEW t \in Transfers, Kept(t)
    PROVE  Kept(t)'
<1>1. CASE disk[NameOf[t]] = "complete"
  BY <1>1, WholeIsSafe, NameAssumption DEF Kept
<1>2. CASE NameOf[t] \in history
  BY <1>2, HistoryGrows DEF Kept
<1> QED BY <1>1, <1>2, NameAssumption DEF Kept, ImportedIsRecorded

\* A request finds in a row what is there, or nothing.
LEMMA RowsAreRead ==
    ASSUME TypeOK, ViewTypeOK, NEW v \in Viewers, Views(v), NEW u \in Viewers,
           NEW t \in Transfers
    PROVE  reading'[u].rows[t] \in {reading[u].rows[t], status[t], "none"}
<1>t. /\ reading \in [Viewers -> Readings]
      /\ NoReading \in Readings /\ NoReading.rows[t] = "none"
  BY NoReadingType DEF ViewTypeOK, Readings, NoReading
<1>1. CASE List(v) \/ Get(v)
  <2>1. PICK pc, cur, f : reading' = [reading EXCEPT ![v] =
                             [NoReading EXCEPT !.pc = pc, !.cur = cur, !.listed = f]]
    BY <1>1 DEF List, Get, ListsTransfers, Goes
  <2> QED BY <1>t, <2>1 DEF Readings
<1>2. CASE LoadRecords(v)
  BY <1>t, <1>2 DEF LoadRecords, Goes, Readings
<1>3. CASE RecordOrEmpty(v)
  <2>1. PICK s, pc :
           /\ s \in RowRead(reading[v].cur)
           /\ reading' = [reading EXCEPT ![v] =
                            [reading[v] EXCEPT !.rows[reading[v].cur] = s, !.pc = pc]]
    BY <1>3 DEF RecordOrEmpty, Goes
  <2>2. reading'[v].rows[t] = IF t = reading[v].cur THEN s ELSE reading[v].rows[t]
    BY <1>t, <2>1 DEF Readings
  <2>3. t = reading[v].cur => s \in {status[t], "none"} BY <2>1 DEF RowRead
  <2> QED BY <1>t, <2>1, <2>2, <2>3
<1>4. CASE BuildViews(v) \/ BuildDetail(v) \/ BuildOrphanDetail(v) \/ Abandons(v)
  BY <1>t, <1>4 DEF BuildViews, BuildDetail, BuildOrphanDetail, Abandons, Goes
<1> QED BY <1>1, <1>2, <1>3, <1>4 DEF Views

\* What a screen changes to.
LEMMA ScreenIsBuilt ==
    ASSUME ViewTypeOK, NEW v \in Viewers, Views(v), NEW u \in Viewers, NEW t \in Transfers,
           shown'[u][t] # shown[u][t]
    PROVE  /\ u = v
           /\ \/ shown'[v][t] = "none"
              \/ /\ \/ reading[v].pc = "views" /\ reading[v].listed[t] # Absent
                    \/ reading[v].pc = "detail" /\ reading[v].cur = t
                 /\ \E b \in LocalBytes(reading[v].listed[t], t) :
                       shown'[v][t] = BuildView(reading[v].listed[t], reading[v].rows[t], b)
              \/ /\ \/ reading[v].pc = "views" /\ reading[v].listed[t] = Absent
                    \/ reading[v].pc = "orphan" /\ reading[v].cur = t
                 /\ shown'[v][t] = BuildOrphanView(reading[v].rows[t])
<1>t. shown \in [Viewers -> [Transfers -> Stages]] BY DEF ViewTypeOK
<1>1. CASE BuildViews(v)
  <2>1. PICK bytes \in [Transfers -> 0 .. Size] :
           /\ \A w \in Transfers : bytes[w] \in LocalBytes(reading[v].listed[w], w)
           /\ shown' = [shown EXCEPT ![v] = [w \in Transfers |->
                CASE reading[v].listed[w] # Absent ->
                        BuildView(reading[v].listed[w], reading[v].rows[w], bytes[w])
                  [] reading[v].listed[w] = Absent /\ reading[v].rows[w] # "none" ->
                        BuildOrphanView(reading[v].rows[w])
                  [] OTHER -> "none"]]
    BY <1>1 DEF BuildViews
  <2>2. u = v BY <1>t, <2>1
  <2>3. shown'[v][t] = CASE reading[v].listed[t] # Absent ->
                        BuildView(reading[v].listed[t], reading[v].rows[t], bytes[t])
                  [] reading[v].listed[t] = Absent /\ reading[v].rows[t] # "none" ->
                        BuildOrphanView(reading[v].rows[t])
                  [] OTHER -> "none"
    BY <1>t, <2>1
  <2>4. reading[v].pc = "views" BY <1>1 DEF BuildViews
  <2>5. CASE reading[v].listed[t] # Absent BY <2>1, <2>2, <2>3, <2>4, <2>5
  <2>6. CASE reading[v].listed[t] = Absent BY <2>2, <2>3, <2>4, <2>6
  <2> QED BY <2>5, <2>6
<1>2. CASE BuildDetail(v)
  <2>1. u = v /\ t = reading[v].cur BY <1>t, <1>2 DEF BuildDetail
  <2> QED BY <1>t, <1>2, <2>1 DEF BuildDetail
<1>3. CASE BuildOrphanDetail(v)
  <2>1. u = v /\ t = reading[v].cur BY <1>t, <1>3 DEF BuildOrphanDetail
  <2> QED BY <1>t, <1>3, <2>1 DEF BuildOrphanDetail
<1>4. UNCHANGED shown \/ BuildViews(v) \/ BuildDetail(v) \/ BuildOrphanDetail(v)
  BY DEF Views, List, Get, ListsTransfers, LoadRecords, RecordOrEmpty, Abandons
<1> QED BY <1>1, <1>2, <1>3, <1>4

\* What a request has read of a row, and what a screen says, are of a copy that is there.
ReadIsKept == \A v \in Viewers, t \in Transfers :
    reading[v].rows[t] = "downloaded" => Kept(t)
ScreenIsKept == \A v \in Viewers, t \in Transfers :
    shown[v][t] \in {"local_complete", "waiting_import"} => Kept(t)
KeptInv == IInv /\ ViewTypeOK /\ ImportedIsRecorded /\ ReadIsKept /\ ScreenIsKept

LEMMA LocalStages ==
    ASSUME NEW p \in EveryListing, NEW s, NEW b \in 0 .. Size,
           BuildView(p, s, b) \in {"local_complete", "waiting_import"}
    PROVE  b = Size \/ s = "downloaded"
<1>1. p.size \in {0, Size}
  <2>1. CASE p = Absent BY <2>1 DEF Absent
  <2>2. CASE p # Absent BY <2>2 DEF EveryListing
  <2> QED BY <2>1, <2>2
<1>2. LocalPhaseStatus(p.size, s, b) \in {"local_complete", "waiting_import"}
  BY DEF BuildView, ComputeStatus, RemotePhaseStatus
<1> QED BY <1>1, <1>2 DEF LocalPhaseStatus, Size

\* A release of which every byte is found on disk is there, or *arr moved it.
LEMMA AllBytes ==
    ASSUME TypeOK, NEW t \in Transfers, NEW p, Size \in LocalBytes(p, t)
    PROVE  Kept(t)
<1>1. disk[NameOf[t]] \in DiskStates BY NameAssumption DEF TypeOK
<1> QED BY <1>1 DEF LocalBytes, DiskStates, Kept, Size

LEMMA LocalBytesRange ==
    ASSUME TypeOK, NEW t \in Transfers, NEW p, NEW b \in LocalBytes(p, t)
    PROVE  b \in 0 .. Size
<1>1. disk[NameOf[t]] \in DiskStates BY NameAssumption DEF TypeOK
<1> QED BY <1>1 DEF LocalBytes, DiskStates, Size

LEMMA KeptStep ==
    ASSUME UICommands = {}, "listing" \notin Faults, NamesDiffer, KeptInv, [NextV]_allVars
    PROVE  KeptInv'
<1>i. /\ IInv /\ TypeOK /\ ViewTypeOK /\ ImportedIsRecorded /\ ReadIsKept /\ ScreenIsKept
      /\ [Next]_vars
  BY PipelineSteps DEF KeptInv, IInv
<1>1. IInv' /\ ImportedIsRecorded' /\ ViewTypeOK'
  BY <1>i, TypeStep, OutcomeStep, CustodyStep, CopyStep, UnspoiledStep, ImportedStep,
     ViewTypeStep DEF IInv
<1>2. ASSUME NEW t \in Transfers, Kept(t) PROVE Kept(t)'
  BY <1>i, <1>2, KeptStays
<1>3. CASE UNCHANGED viewVars
  BY <1>1, <1>2, <1>3, <1>i DEF KeptInv, viewVars, ReadIsKept, ScreenIsKept
<1>4. ASSUME NEW v \in Viewers, Views(v) PROVE ReadIsKept' /\ ScreenIsKept'
  <2>1. ASSUME NEW t \in Transfers, status[t] = "downloaded" PROVE Kept(t)
    BY <1>i, <2>1 DEF IInv, CopyInv, RowFits
  <2>2. ASSUME NEW u \in Viewers, NEW t \in Transfers, reading'[u].rows[t] = "downloaded"
        PROVE  Kept(t)
    BY <1>i, <1>4, <2>1, <2>2, RowsAreRead DEF ReadIsKept
  <2>3. ASSUME NEW u \in Viewers, NEW t \in Transfers,
               shown'[u][t] \in {"local_complete", "waiting_import"}
        PROVE  Kept(t)
    <3>1. CASE shown'[u][t] = shown[u][t] BY <1>i, <2>3, <3>1 DEF ScreenIsKept
    <3>2. CASE shown'[u][t] # shown[u][t]
      <4>1. u = v /\ shown'[v][t] # "none" BY <1>i, <1>4, <2>3, <3>2, ScreenIsBuilt
      <4>2. shown'[v][t] # BuildOrphanView(reading[v].rows[t])
        BY <2>3, <4>1 DEF BuildOrphanView, MissingPhaseStatus
      <4>3. PICK b \in LocalBytes(reading[v].listed[t], t) :
               shown'[v][t] = BuildView(reading[v].listed[t], reading[v].rows[t], b)
        BY <1>i, <1>4, <3>2, <4>1, <4>2, ScreenIsBuilt
      <4>4. b = Size \/ reading[v].rows[t] = "downloaded"
        <5>1. reading[v].listed[t] \in EveryListing BY <1>i DEF ViewTypeOK
        <5>2. b \in 0 .. Size BY <1>i, <4>3, LocalBytesRange
        <5> QED BY <2>3, <4>1, <4>3, <5>1, <5>2, LocalStages
      <4> QED BY <1>i, <4>4, AllBytes DEF ReadIsKept
    <3> QED BY <3>1, <3>2
  <2> QED BY <1>2, <2>2, <2>3 DEF ReadIsKept, ScreenIsKept
<1> QED BY <1>1, <1>3, <1>4 DEF NextV, allVars, KeptInv

LEMMA KeptInit == InitV => KeptInv
<1>1. InitV => IInv
  BY InitType, InitOutcome, InitCustody, InitCopy, InitUnspoiled DEF InitV, IInv
<1>2. InitV => ViewTypeOK
  BY NoReadingType, StageNames DEF InitV, ViewTypeOK, Readings
<1>3. InitV => ImportedIsRecorded BY DEF InitV, Init, ImportedIsRecorded
<1>4. InitV => ReadIsKept /\ ScreenIsKept
  BY DEF InitV, NoReading, ReadIsKept, ScreenIsKept
<1> QED BY <1>1, <1>2, <1>3, <1>4 DEF KeptInv

LEMMA KeptInvariant ==
    ASSUME UICommands = {}, "listing" \notin Faults, NamesDiffer
    PROVE  SpecV => []KeptInv
<1>1. KeptInv /\ [NextV]_allVars => KeptInv' BY KeptStep
<1> QED BY <1>1, KeptInit, PTL DEF SpecV

\* A screen that says local_complete or waiting_import is right, and stays right until the
\* import, for any number of viewers, whatever happens between the reads it was made of.
THEOREM CompleteStaysLocal ==
    ASSUME UICommands = {}, "listing" \notin Faults, NamesDiffer
    PROVE  SpecV => []CompleteIsLocal
<1>1. KeptInv => CompleteIsLocal BY DEF KeptInv, ScreenIsKept, Kept, CompleteIsLocal
<1> QED BY <1>1, KeptInvariant, PTL

-----------------------------------------------------------------------------
(* What a screen showed as reached stays reached                           *)

\* While no command runs a row goes from its claim to its outcome, and back to a claim.
LEMMA RowMoves ==
    ASSUME UICommands = {}, IInv, [Next]_vars, NEW t \in Transfers
    PROVE  \/ status'[t] = status[t]
           \/ status[t] \in {"none", "pending", "failed"} /\ status'[t] = "downloading"
           \/ status[t] = "downloading" /\ status'[t] \in {"downloaded", "failed", "missing"}
<1>t. status \in [Transfers -> RowStates] BY DEF IInv, TypeOK
<1>c. CopyInv /\ CustodyInv /\ NoCommands BY DEF IInv, CustodyInv
<1> SUFFICES ASSUME status'[t] # status[t] PROVE
           \/ status[t] \in {"none", "pending", "failed"} /\ status'[t] = "downloading"
           \/ status[t] = "downloading" /\ status'[t] \in {"downloaded", "failed", "missing"}
  OBVIOUS
<1>1. ASSUME NEW i \in Instances, OrchNext(i)
      PROVE  status[t] \in {"none", "pending", "failed"} /\ status'[t] = "downloading"
  <2>1. Claimable(orch[i].cur) /\ status' = [status EXCEPT ![orch[i].cur] = "downloading"]
    BY <1>1 DEF OrchNext, OrchList, OrchSelect, OrchUpsert, OrchDbFails, Claim, table
  <2> QED BY <1>t, <2>1 DEF Claimable
<1>2. ASSUME NEW i \in Instances PROVE ~ DlNext(i)
  BY <1>c, NoUISteps DEF DlNext, DlReceivesPolled, DlGrabs, DlGrabFails, DlOpenFails, DlOpens,
     DlCopies, DlCopyBreaks, DlSiblingFails, DlUnregisters, table
<1>3. ASSUME NEW i \in Instances, NoteNext(i)
      PROVE  status[t] = "downloading" /\ status'[t] \in {"downloaded", "failed", "missing"}
  <2>1. PICK s \in {"failed", "missing", "downloaded"} :
           UpdateTransferStatus(note[i].cur, s) /\ note[i].ev \in Outcomes
    BY <1>3 DEF NoteNext, NoteReceives, NoteReceivesImported, NoteHandles, NoteDbFails,
       HandleDownloadError, HandleTransferMissing, HandleDownloadFinished,
       HandleTransferImported, Outcomes, table
  <2>2. note[i].cur = t BY <1>t, <2>1 DEF UpdateTransferStatus
  <2>3. status[t] = "downloading"
    BY <1>c, <2>1, <2>2 DEF CustodyInv, HolderClaimed, NoteHolds
  <2> QED BY <1>t, <2>1, <2>2, <2>3 DEF UpdateTransferStatus
<1>4. ASSUME NEW i \in Instances PROVE ~ WatcherNext(i)
  BY DEF WatcherNext, WatcherSeesImport, WatcherRemoves, table
<1>5. ~ EnvNext BY DEF EnvNext, RemoteCompletes, RemoteRemoved, ArrImports, Crash, table
<1> QED BY <1>c, <1>1, <1>2, <1>3, <1>4, <1>5, NoUISteps DEF Next, vars

LEMMA GoneStays ==
    ASSUME TypeOK, [Next]_vars, NEW t \in Transfers, remote[t] = "gone"
    PROVE  remote'[t] = "gone"
<1>1. ASSUME NEW i \in Instances, OrchNext(i) \/ DlNext(i) \/ NoteNext(i) \/ WatcherNext(i)
      PROVE  UNCHANGED remote
  BY <1>1 DEF OrchNext, OrchList, OrchSelect, OrchUpsert, OrchDbFails, DlNext,
     DlReceivesPolled, DlReceivesRequeued, DlGrabs, DlGrabFails, DlOpenFails, DlOpens,
     DlCopies, DlCopyBreaks, DlSiblingFails, DlUnregisters, NoteNext, NoteReceives,
     NoteReceivesImported, NoteHandles, NoteDbFails, WatcherNext, WatcherSeesImport,
     WatcherRemoves
<1>2. ASSUME NEW r \in Requests, UINext(r)
      PROVE  UNCHANGED remote \/ remote' = [remote EXCEPT ![req[r].cur] = "gone"]
  BY <1>2 DEF UINext, RequestRetry, RequestCancel, RequestDelete, RequestReset,
     RequestPurge, Request, RetryMarks, RetryFinds, RetryWipes, RequeueLists,
     RequeueSelects, RequeueUpserts, CancelSignals, CancelMarks, DeletesPutio,
     DeleteFinds, DeleteWipes, DeletesRow, Resets, Purges, ReqFails
<1>3. CASE EnvNext
  BY <1>3 DEF EnvNext, RemoteCompletes, RemoteRemoved, ArrImports, Crash, TypeOK
<1>4. CASE UNCHANGED vars BY <1>4 DEF vars
<1> QED BY <1>1, <1>2, <1>3, <1>4 DEF Next, TypeOK

\* No row is pending, and nothing is on disk of a transfer without a row.
RowlessIsBare == \A t \in Transfers :
    status[t] # "pending" /\ (status[t] = "none" => disk[NameOf[t]] = "none")

LEMMA RowlessStep ==
    ASSUME UICommands = {}, "listing" \notin Faults, NamesDiffer, IInv, RowlessIsBare,
           [Next]_vars
    PROVE  RowlessIsBare'
<1> SUFFICES ASSUME NEW t \in Transfers
             PROVE  status'[t] # "pending" /\ (status'[t] = "none" => disk'[NameOf[t]] = "none")
  BY DEF RowlessIsBare
<1>t. disk \in [Names -> DiskStates] /\ NameOf[t] \in Names
  BY NameAssumption DEF IInv, TypeOK
<1>c. CopyInv /\ CustodyInv /\ NoCommands BY DEF IInv, CustodyInv
<1>0. status'[t] # "pending" /\ (status'[t] = "none" => status[t] = "none")
  BY RowMoves DEF RowlessIsBare
<1> SUFFICES ASSUME status[t] = "none", disk[NameOf[t]] = "none"
             PROVE  disk'[NameOf[t]] = "none"
  BY <1>0 DEF RowlessIsBare
<1>1. ASSUME NEW i \in Instances, OrchNext(i) \/ NoteNext(i) PROVE UNCHANGED disk
  BY <1>1 DEF OrchNext, OrchList, OrchSelect, OrchUpsert, OrchDbFails, NoteNext, NoteReceives,
     NoteReceivesImported, NoteHandles, NoteDbFails, files
<1>2. ASSUME NEW i \in Instances, DlNext(i) PROVE disk'[NameOf[t]] = disk[NameOf[t]]
  <2>1. CASE DlReceivesPolled(i) BY <2>1 DEF DlReceivesPolled, files
  <2>2. CASE ~ DlReceivesPolled(i)
    <3>1. PICK u : u = dl[i].cur OBVIOUS
    <3>2. dl[i].pc # "idle" /\ (NameOf[t] # NameOf[u] => disk'[NameOf[t]] = disk[NameOf[t]])
      BY <1>2, <1>t, <2>2, <3>1, DlShape
    <3>3. u \in Transfers BY <1>c, <3>1, <3>2 DEF CopyInv, HandKnown
    <3>4. status[u] = "downloading"
      BY <1>c, <3>1, <3>2, <3>3 DEF CustodyInv, HolderClaimed, DlHolds
    <3> QED BY <3>2, <3>3, <3>4 DEF NamesDiffer
  <2> QED BY <2>1, <2>2
<1>3. ASSUME NEW i \in Instances, WatcherNext(i) PROVE disk'[NameOf[t]] = "none"
  BY <1>3, <1>t DEF WatcherNext, WatcherSeesImport, WatcherRemoves, Wipe, files
<1>4. CASE EnvNext
  BY <1>4, <1>t DEF EnvNext, RemoteCompletes, RemoteRemoved, ArrImports, Crash, files
<1>5. CASE UNCHANGED vars BY <1>5 DEF vars
<1> QED BY <1>c, <1>1, <1>2, <1>3, <1>4, <1>5, NoUISteps DEF Next

OnceClaimed == {"downloading_local", "local_complete", "waiting_import", "cleaned_up"}
OnceAvailable == OnceClaimed \cup {"ready_for_local"}

\* What a request has read is true, or was and has been overtaken.
ReadFits(v, t) ==
    LET r == reading[v] IN
    /\ r.pc # "idle" /\ r.listed[t] = Absent => remote[t] = "gone"
    /\ r.listed[t].status \in AvailableAs => remote[t] # "fetching"
    /\ r.rows[t] # "none" => status[t] # "none"
    /\ r.rows[t] = "downloaded" => status[t] = "downloaded"
    /\ r.rows[t] # "pending"
    /\ r.pc = "detail" /\ r.cur = t => r.listed[t] # Absent
    /\ r.pc = "orphan" /\ r.cur = t => r.listed[t] = Absent

\* So is what a screen says.
ScreenFits(v, t) ==
    LET s == shown[v][t] IN
    /\ s \in OnceAvailable => remote[t] # "fetching"
    /\ s \in OnceClaimed => status[t] # "none"
    /\ s \in {"waiting_import", "cleaned_up"} => status[t] = "downloaded"
    /\ s = "cleaned_up" => remote[t] = "gone"
    /\ s \notin {"imported", "seeding"}

\* A request reads nothing that is older than the screen it will replace.
NewerFits(v, t) ==
    LET r == reading[v]
        s == shown[v][t]
        hasRow == r.pc = "views" \/ (r.pc \in {"detail", "orphan"} /\ r.cur = t)
    IN  /\ r.pc # "idle" /\ s \in OnceAvailable =>
              r.listed[t].status \in AvailableAs \cup {"absent"}
        /\ r.pc # "idle" /\ s = "cleaned_up" => r.listed[t] = Absent
        /\ hasRow /\ s \in OnceClaimed => r.rows[t] # "none"
        /\ hasRow /\ s \in {"waiting_import", "cleaned_up"} => r.rows[t] = "downloaded"

ViewFits(v, t) == ReadFits(v, t) /\ ScreenFits(v, t) /\ NewerFits(v, t)
AdvanceInv == KeptInv /\ RowlessIsBare /\ \A v \in Viewers, t \in Transfers : ViewFits(v, t)

\* A stage that BuildView makes of a listing, a row and the bytes on disk.
LEMMA StageOfView ==
    ASSUME NEW p \in EveryListing \ {Absent}, NEW s \in RowStates \ {"pending"},
           NEW b \in 0 .. Size, NEW stage, stage = BuildView(p, s, b)
    PROVE  /\ stage \notin {"imported", "seeding", "cleaned_up"}
           /\ stage \in OnceAvailable => p.status \in AvailableAs
           /\ stage \in {"queued_on_putio", "downloading_on_putio"} => p.status \notin AvailableAs
           /\ stage = "waiting_import" => s = "downloaded"
           /\ stage \in OnceAvailable /\ s = "downloaded" => stage = "waiting_import"
           /\ stage = "local_complete" => b = Size
           /\ stage \in OnceClaimed => s # "none" \/ b # 0
           /\ stage = "ready_for_local" => s = "none"
           /\ stage = "downloading_local" => b # Size
<1>1. p.status \in FetchingAs \cup AvailableAs BY DEF EveryListing
<1>4. p.status \in AvailableAs => p.size = Size
  BY DEF EveryListing, FetchingAs, AvailableAs
<1>2. CASE p.status \notin AvailableAs
  <2>1. RemotePhaseStatus(p) \in {"queued_on_putio", "downloading_on_putio", "failed_putio"}
    BY <1>1, <1>2 DEF RemotePhaseStatus, FetchingAs
  <2>2. stage = RemotePhaseStatus(p) BY <2>1 DEF BuildView, ComputeStatus
  <2> QED BY <1>2, <2>1, <2>2 DEF OnceAvailable, OnceClaimed
<1>3. CASE p.status \in AvailableAs
  <2>1. RemotePhaseStatus(p) = "available" BY <1>3 DEF RemotePhaseStatus, AvailableAs
  <2>2. stage = LocalPhaseStatus(p.size, s, b) BY <2>1 DEF BuildView, ComputeStatus
  <2>3. s \in {"none", "downloading", "downloaded", "failed", "missing"} BY DEF RowStates
  <2>4. CASE s = "none"
    BY <1>3, <1>4, <2>2, <2>4 DEF LocalPhaseStatus, OnceAvailable, OnceClaimed, Size
  <2>5. CASE s = "downloading"
    BY <1>3, <1>4, <2>2, <2>5 DEF LocalPhaseStatus, OnceAvailable, OnceClaimed, Size
  <2>6. CASE s \in {"downloaded", "failed", "missing"}
    BY <1>3, <1>4, <2>2, <2>6 DEF LocalPhaseStatus, OnceAvailable, OnceClaimed, Size
  <2> QED BY <2>3, <2>4, <2>5, <2>6
<1> QED BY <1>2, <1>3

LEMMA StageOfOrphan ==
    ASSUME NEW s, NEW stage, stage = BuildOrphanView(s)
    PROVE  /\ stage \in {"missing_on_putio", "cleaned_up", "orphaned"}
           /\ stage = "cleaned_up" <=> s = "downloaded"
BY DEF BuildOrphanView, MissingPhaseStatus

LEMMA LocalBytesShape ==
    ASSUME TypeOK, NEW t \in Transfers, NEW p, NEW b \in LocalBytes(p, t)
    PROVE  /\ b \in 0 .. Size
           /\ disk[NameOf[t]] = "none" => b = 0
           /\ "api" \notin Faults /\ disk[NameOf[t]] = "complete" /\ p.status \in AvailableAs
                 => b = Size
<1>1. disk[NameOf[t]] \in DiskStates BY NameAssumption DEF TypeOK
<1> QED BY <1>1 DEF LocalBytes, DiskStates, Size

\* How far a request of viewer v gets in a step, and what it reads in it.
LEMMA ReadingMoves ==
    ASSUME "db" \notin Faults, TypeOK, ViewTypeOK, NEW v \in Viewers, Views(v),
           NEW r, r = reading[v]
    PROVE  \E r2 \in Readings :
              /\ reading' = [reading EXCEPT ![v] = r2]
              /\ \/ r2 = NoReading
                 \/ /\ UNCHANGED shown
                    /\ \/ /\ r2.pc \in {"records", "record"} /\ r2.rows = NoReading.rows
                          /\ \A t \in Transfers : r2.listed[t] \in ReadOnPutio(t)
                       \/ /\ r.pc = "records" /\ r2.pc = "views"
                          /\ r2.rows = status /\ r2.listed = r.listed
                       \/ /\ r.pc = "record" /\ r2.listed = r.listed /\ r2.cur = r.cur
                          /\ r2.rows = [r.rows EXCEPT ![r.cur] = status[r.cur]]
                          /\ r2.pc = IF r.listed[r.cur] = Absent THEN "orphan" ELSE "detail"
<1>t. r \in Readings /\ NoReading \in Readings BY NoReadingType DEF ViewTypeOK, Readings
<1>1. ASSUME NEW pc \in {"records", "record"}, NEW c \in MaybeTransfer, ListsTransfers(v, pc, c)
      PROVE  \E r2 \in Readings :
                /\ reading' = [reading EXCEPT ![v] = r2] /\ UNCHANGED shown
                /\ r2.pc \in {"records", "record"} /\ r2.rows = NoReading.rows
                /\ \A t \in Transfers : r2.listed[t] \in ReadOnPutio(t)
  <2>1. PICK f \in [Transfers -> UNION {ReadOnPutio(u) : u \in Transfers}] :
           /\ \A u \in Transfers : f[u] \in ReadOnPutio(u)
           /\ Goes(v, [NoReading EXCEPT !.pc = pc, !.cur = c, !.listed = f])
    BY <1>1 DEF ListsTransfers
  <2>2. f \in [Transfers -> EveryListing] BY <2>1, ReadOnPutioType
  <2>3. PICK r2 : r2 = [NoReading EXCEPT !.pc = pc, !.cur = c, !.listed = f] OBVIOUS
  <2>4. /\ r2 \in Readings /\ r2.pc = pc /\ r2.rows = NoReading.rows /\ r2.listed = f
    BY <1>t, <2>2, <2>3 DEF Readings
  <2> QED BY <1>1, <2>1, <2>3, <2>4 DEF ListsTransfers, Goes
<1>2. CASE LoadRecords(v)
  <2>1. PICK r2 : r2 = [r EXCEPT !.pc = "views", !.rows = status] OBVIOUS
  <2>2. r2 \in Readings /\ r2.pc = "views" /\ r2.rows = status /\ r2.listed = r.listed
    BY <1>t, <2>1 DEF Readings, TypeOK
  <2> QED BY <1>2, <2>1, <2>2 DEF LoadRecords, Goes
<1>3. CASE RecordOrEmpty(v)
  <2>1. PICK r2 : r2 = [r EXCEPT !.rows[r.cur] = status[r.cur],
                       !.pc = IF r.listed[r.cur] = Absent THEN "orphan" ELSE "detail"]
    OBVIOUS
  <2>2. [r.rows EXCEPT ![r.cur] = status[r.cur]] \in [Transfers -> RowStates]
    BY <1>t DEF Readings, TypeOK
  <2>3. /\ r2 \in Readings /\ r2.listed = r.listed /\ r2.cur = r.cur
        /\ r2.rows = [r.rows EXCEPT ![r.cur] = status[r.cur]]
        /\ r2.pc = IF r.listed[r.cur] = Absent THEN "orphan" ELSE "detail"
    BY <1>t, <2>1, <2>2 DEF Readings
  <2>4. reading' = [reading EXCEPT ![v] = r2]
    BY <1>3, <2>1 DEF RecordOrEmpty, RowRead, Goes
  <2> QED BY <1>3, <2>3, <2>4 DEF RecordOrEmpty
<1>4. CASE BuildViews(v) \/ BuildDetail(v) \/ BuildOrphanDetail(v) \/ Abandons(v)
  BY <1>t, <1>4 DEF BuildViews, BuildDetail, BuildOrphanDetail, Abandons, Goes
<1>5. CASE List(v) \/ Get(v)
  BY <1>1, <1>5 DEF List, Get, MaybeTransfer
<1> QED BY <1>2, <1>3, <1>4, <1>5 DEF Views

\* The steps of the pipeline make nothing untrue that was read or shown.
LEMMA FitsStay ==
    ASSUME UICommands = {}, IInv, [Next]_vars, UNCHANGED viewVars,
           NEW v \in Viewers, NEW t \in Transfers, ViewFits(v, t)
    PROVE  ViewFits(v, t)'
<1>1. /\ remote[t] # "fetching" => remote'[t] # "fetching"
      /\ remote[t] = "gone" => remote'[t] = "gone"
  BY RemoteMovesOn, GoneStays DEF IInv
<1>2. /\ status[t] # "none" => status'[t] # "none"
      /\ status[t] = "downloaded" => status'[t] = "downloaded"
  BY RowMoves
<1>3. reading'[v] = reading[v] /\ shown'[v] = shown[v] BY DEF viewVars
<1>4. ReadFits(v, t)' BY <1>1, <1>2, <1>3 DEF ViewFits, ReadFits
<1>5. ScreenFits(v, t)' BY <1>1, <1>2, <1>3 DEF ViewFits, ScreenFits
<1>6. NewerFits(v, t)' BY <1>3 DEF ViewFits, NewerFits
<1> QED BY <1>4, <1>5, <1>6 DEF ViewFits

LEMMA ReadStep ==
    ASSUME "db" \notin Faults, "api" \notin Faults, TypeOK, ViewTypeOK, RowlessIsBare, NEW v \in Viewers, Views(v),
           UNCHANGED vars, NEW t \in Transfers, ReadFits(v, t)
    PROVE  ReadFits(v, t)'
<1>1. PICK r2 \in Readings :
              /\ reading' = [reading EXCEPT ![v] = r2]
              /\ \/ r2 = NoReading
                 \/ /\ r2.pc \in {"records", "record"} /\ r2.rows = NoReading.rows
                    /\ \A u \in Transfers : r2.listed[u] \in ReadOnPutio(u)
                 \/ /\ reading[v].pc = "records" /\ r2.pc = "views"
                    /\ r2.rows = status /\ r2.listed = reading[v].listed
                 \/ /\ reading[v].pc = "record" /\ r2.listed = reading[v].listed
                    /\ r2.cur = reading[v].cur
                    /\ r2.rows = [reading[v].rows EXCEPT ![reading[v].cur] = status[reading[v].cur]]
                    /\ r2.pc = IF reading[v].listed[reading[v].cur] = Absent
                               THEN "orphan" ELSE "detail"
  BY ReadingMoves
<1>2. reading'[v] = r2 /\ reading[v] \in Readings BY <1>1 DEF ViewTypeOK, Readings
<1>3. UNCHANGED <<remote, status>> BY DEF vars, table
<1>4. /\ NoReading.pc = "idle" /\ NoReading.listed[t] = Absent /\ NoReading.rows[t] = "none"
      /\ Absent.status \notin AvailableAs
  BY DEF NoReading, Absent, AvailableAs
<1>5. CASE r2 = NoReading BY <1>2, <1>3, <1>4, <1>5 DEF ReadFits
<1>6. CASE /\ r2.pc \in {"records", "record"} /\ r2.rows = NoReading.rows
           /\ \A u \in Transfers : r2.listed[u] \in ReadOnPutio(u)
  <2>1. r2.listed[t] \in ReadOnPutio(t) BY <1>6
  <2>2. CASE r2.listed[t] = Absent
    <3>1. remote[t] = "gone"
      <4>1. \A p \in ListedOnPutio(t) : p.status \in FetchingAs \cup AvailableAs
        BY ListedShape
      <4>2. Absent \notin ListedOnPutio(t)
        BY <4>1 DEF Absent, FetchingAs, AvailableAs
      <4> QED BY <2>1, <2>2, <4>2 DEF ReadOnPutio
    <3> QED BY <1>2, <1>3, <1>4, <1>6, <2>2, <3>1 DEF ReadFits
  <2>3. CASE r2.listed[t] # Absent
    <3>1. r2.listed[t] \in ListedOnPutio(t) BY <2>1, <2>3 DEF ReadOnPutio
    <3>2. r2.listed[t].status \in AvailableAs => remote[t] # "fetching"
      BY <3>1, ListedShape DEF AvailableAs, FetchingAs
    <3> QED BY <1>2, <1>3, <1>4, <1>6, <2>3, <3>2 DEF ReadFits
  <2> QED BY <2>2, <2>3
<1>7. CASE /\ reading[v].pc = "records" /\ r2.pc = "views"
           /\ r2.rows = status /\ r2.listed = reading[v].listed
  BY <1>2, <1>3, <1>7 DEF ReadFits, RowlessIsBare
<1>8. CASE /\ reading[v].pc = "record" /\ r2.listed = reading[v].listed
           /\ r2.cur = reading[v].cur
           /\ r2.rows = [reading[v].rows EXCEPT ![reading[v].cur] = status[reading[v].cur]]
           /\ r2.pc = IF reading[v].listed[reading[v].cur] = Absent THEN "orphan" ELSE "detail"
  <2>1. r2.rows[t] = IF t = reading[v].cur THEN status[t] ELSE reading[v].rows[t]
    BY <1>2, <1>8 DEF Readings
  <2> QED BY <1>2, <1>3, <1>8, <2>1 DEF ReadFits, RowlessIsBare
<1> QED BY <1>1, <1>5, <1>6, <1>7, <1>8

LEMMA ScreenStep ==
    ASSUME KeptInv, RowlessIsBare, NEW v \in Viewers, Views(v), UNCHANGED vars,
           NEW u \in Viewers, NEW t \in Transfers, ReadFits(v, t), ScreenFits(u, t)
    PROVE  ScreenFits(u, t)'
<1>t. TypeOK /\ ViewTypeOK BY DEF KeptInv, IInv
<1>0. UNCHANGED <<remote, status>> BY DEF vars, table
<1>1. CASE shown'[u][t] = shown[u][t] BY <1>0, <1>1 DEF ScreenFits
<1>2. CASE shown'[u][t] # shown[u][t]
  <2> DEFINE p == reading[v].listed[t]
             s == reading[v].rows[t]
  <2>1. p \in EveryListing /\ s \in RowStates \ {"pending"}
    BY <1>t DEF ViewTypeOK, ReadFits
  <2>2. reading[v].pc \in {"views", "detail", "orphan"}
    BY <1>t, <1>2, ScreenIsBuilt DEF Views, List, Get, ListsTransfers, LoadRecords,
       RecordOrEmpty, Abandons, BuildViews, BuildDetail, BuildOrphanDetail
  <2>3. CASE shown'[v][t] = "none" /\ u = v
    BY <2>3 DEF ScreenFits, OnceAvailable, OnceClaimed
  <2>4. CASE /\ u = v /\ p # Absent
             /\ \E b \in LocalBytes(p, t) : shown'[v][t] = BuildView(p, s, b)
    <3>1. PICK b \in LocalBytes(p, t) : shown'[v][t] = BuildView(p, s, b) BY <2>4
    <3>2. b \in 0 .. Size /\ (disk[NameOf[t]] = "none" => b = 0)
      BY <1>t, <3>1, LocalBytesShape
    <3>3. PICK stage : stage = shown'[v][t] OBVIOUS
    <3>4. /\ stage \notin {"imported", "seeding", "cleaned_up"}
          /\ stage \in OnceAvailable => p.status \in AvailableAs
          /\ stage = "waiting_import" => s = "downloaded"
          /\ stage \in OnceClaimed => s # "none" \/ b # 0
      BY <2>1, <2>4, <3>1, <3>2, <3>3, StageOfView
    <3>5. stage \in OnceAvailable => remote[t] # "fetching" BY <3>4 DEF ReadFits
    <3>6. stage \in OnceClaimed => status[t] # "none"
      BY <3>2, <3>4 DEF ReadFits, RowlessIsBare
    <3>7. stage \in {"waiting_import", "cleaned_up"} => status[t] = "downloaded"
      BY <3>4 DEF ReadFits
    <3> QED BY <1>0, <2>4, <3>3, <3>4, <3>5, <3>6, <3>7 DEF ScreenFits
  <2>5. CASE u = v /\ p = Absent /\ shown'[v][t] = BuildOrphanView(s)
    <3>1. remote[t] = "gone" BY <2>2, <2>5 DEF ReadFits
    <3>2. /\ shown'[v][t] \in {"missing_on_putio", "cleaned_up", "orphaned"}
          /\ shown'[v][t] = "cleaned_up" => s = "downloaded"
      BY <2>5, StageOfOrphan
    <3>3. shown'[v][t] = "cleaned_up" => status[t] = "downloaded"
      BY <3>2 DEF ReadFits
    <3>4. status[t] = "downloaded" => status[t] # "none" OBVIOUS
    <3> QED BY <1>0, <2>5, <3>1, <3>2, <3>3, <3>4 DEF ScreenFits, OnceAvailable, OnceClaimed
  <2> QED BY <1>t, <1>2, <2>3, <2>4, <2>5, ScreenIsBuilt DEF ReadFits
<1> QED BY <1>1, <1>2

LEMMA NewerStep ==
    ASSUME "db" \notin Faults, "api" \notin Faults, TypeOK, ViewTypeOK, NEW v \in Viewers, Views(v), UNCHANGED vars,
           NEW t \in Transfers, ViewFits(v, t)
    PROVE  NewerFits(v, t)'
<1>1. PICK r2 \in Readings :
              /\ reading' = [reading EXCEPT ![v] = r2]
              /\ \/ r2 = NoReading
                 \/ /\ UNCHANGED shown
                    /\ \/ /\ r2.pc \in {"records", "record"} /\ r2.rows = NoReading.rows
                          /\ \A u \in Transfers : r2.listed[u] \in ReadOnPutio(u)
                       \/ /\ reading[v].pc = "records" /\ r2.pc = "views"
                          /\ r2.rows = status /\ r2.listed = reading[v].listed
                       \/ /\ reading[v].pc = "record" /\ r2.listed = reading[v].listed
                          /\ r2.cur = reading[v].cur
                          /\ r2.rows = [reading[v].rows EXCEPT
                                           ![reading[v].cur] = status[reading[v].cur]]
                          /\ r2.pc = IF reading[v].listed[reading[v].cur] = Absent
                                     THEN "orphan" ELSE "detail"
  BY ReadingMoves
<1>2. reading'[v] = r2 /\ reading[v] \in Readings BY <1>1 DEF ViewTypeOK, Readings
<1>3. ScreenFits(v, t) /\ NewerFits(v, t) BY DEF ViewFits
<1>4. CASE r2 = NoReading BY <1>2, <1>4 DEF NewerFits, NoReading
<1>5. CASE /\ UNCHANGED shown
           /\ r2.pc \in {"records", "record"}
           /\ \A u \in Transfers : r2.listed[u] \in ReadOnPutio(u)
  <2>1. r2.listed[t] \in ReadOnPutio(t) BY <1>5
  <2>2. remote[t] # "fetching" => r2.listed[t].status \in AvailableAs \cup {"absent"}
    <3>1. CASE r2.listed[t] = Absent BY <3>1 DEF Absent
    <3>2. CASE r2.listed[t] # Absent
      <4>1. r2.listed[t] \in ListedOnPutio(t) BY <2>1, <3>2 DEF ReadOnPutio
      <4> QED BY <4>1, ListedShape
    <3> QED BY <3>1, <3>2
  <2>3. remote[t] = "gone" => r2.listed[t] = Absent
    BY <2>1 DEF ReadOnPutio, ListedOnPutio
  <2> QED BY <1>2, <1>3, <1>5, <2>2, <2>3 DEF ScreenFits, NewerFits
<1>6. CASE /\ UNCHANGED shown
           /\ reading[v].pc = "records" /\ r2.pc = "views"
           /\ r2.rows = status /\ r2.listed = reading[v].listed
  BY <1>2, <1>3, <1>6 DEF ScreenFits, NewerFits
<1>7. CASE /\ UNCHANGED shown
           /\ reading[v].pc = "record" /\ r2.listed = reading[v].listed
           /\ r2.cur = reading[v].cur
           /\ r2.rows = [reading[v].rows EXCEPT ![reading[v].cur] = status[reading[v].cur]]
           /\ r2.pc \in {"orphan", "detail"}
  <2>1. r2.cur = t => r2.rows[t] = status[t]
    BY <1>2, <1>7 DEF Readings
  <2> QED BY <1>2, <1>3, <1>7, <2>1 DEF ScreenFits, NewerFits
<1> QED BY <1>1, <1>4, <1>5, <1>6, <1>7

LEMMA AdvanceStep ==
    ASSUME UICommands = {}, "listing" \notin Faults, "db" \notin Faults,
           "api" \notin Faults, NamesDiffer, AdvanceInv, [NextV]_allVars
    PROVE  AdvanceInv'
<1>i. KeptInv /\ IInv /\ TypeOK /\ ViewTypeOK /\ RowlessIsBare /\ [Next]_vars
  BY PipelineSteps DEF AdvanceInv, KeptInv, IInv
<1>1. KeptInv' /\ RowlessIsBare' BY <1>i, KeptStep, RowlessStep
<1>2. ASSUME NEW u \in Viewers, NEW t \in Transfers PROVE ViewFits(u, t)'
  <2>0. ViewFits(u, t) BY DEF AdvanceInv
  <2>1. CASE UNCHANGED viewVars BY <1>i, <2>0, <2>1, FitsStay
  <2>2. ASSUME NEW v \in Viewers, Views(v), UNCHANGED vars, u # v PROVE ViewFits(u, t)'
    <3>1. ScreenFits(u, t)'
      BY <1>i, <2>0, <2>2, ScreenStep DEF AdvanceInv, ViewFits
    <3>2. reading'[u] = reading[u] /\ shown'[u] = shown[u]
      BY <1>i, <2>2, ViewShape DEF ViewTypeOK
    <3>3. UNCHANGED <<remote, status>> BY <2>2 DEF vars, table
    <3>4. ReadFits(u, t)' BY <2>0, <3>2, <3>3 DEF ViewFits, ReadFits
    <3>5. NewerFits(u, t)' BY <2>0, <3>2 DEF ViewFits, NewerFits
    <3> QED BY <3>1, <3>4, <3>5 DEF ViewFits
  <2>3. ASSUME Views(u), UNCHANGED vars PROVE ViewFits(u, t)'
    <3>1. ReadFits(u, t)' BY <1>i, <2>0, <2>3, ReadStep DEF ViewFits
    <3>2. ScreenFits(u, t)' BY <1>i, <2>0, <2>3, ScreenStep DEF ViewFits
    <3>3. NewerFits(u, t)' BY <1>i, <2>0, <2>3, NewerStep
    <3> QED BY <3>1, <3>2, <3>3 DEF ViewFits
  <2> QED BY <2>1, <2>2, <2>3 DEF NextV, allVars
<1> QED BY <1>1, <1>2 DEF AdvanceInv

LEMMA StageWeights ==
    /\ StageWeight("queued_on_putio") = 1 /\ StageWeight("downloading_on_putio") = 2
    /\ StageWeight("ready_for_local") = 3 /\ StageWeight("downloading_local") = 4
    /\ StageWeight("local_complete") = 5 /\ StageWeight("waiting_import") = 6
    /\ StageWeight("imported") = 7 /\ StageWeight("seeding") = 8
    /\ StageWeight("cleaned_up") = 9
    /\ \A s \in {"failed_local", "failed_putio", "missing_on_putio", "orphaned", "none"} :
          StageWeight(s) = 0
<1>1. /\ PipelineStages[1] = "queued_on_putio" /\ PipelineStages[2] = "downloading_on_putio"
      /\ PipelineStages[3] = "ready_for_local" /\ PipelineStages[4] = "downloading_local"
      /\ PipelineStages[5] = "local_complete" /\ PipelineStages[6] = "waiting_import"
      /\ PipelineStages[7] = "imported" /\ PipelineStages[8] = "seeding"
      /\ PipelineStages[9] = "cleaned_up"
  BY DEF PipelineStages
<1>2. \A n \in 1 .. 9 : PipelineStages[n] \notin
         {"failed_local", "failed_putio", "missing_on_putio", "orphaned", "none"}
  BY DEF PipelineStages
<1>3. \A n \in 1 .. 9 : StageWeight(PipelineStages[n]) = n BY Weights
<1>4. ASSUME NEW s \in {"failed_local", "failed_putio", "missing_on_putio", "orphaned", "none"}
      PROVE  StageWeight(s) = 0
  BY <1>2, <1>4, Weights
<1>5. 1 \in 1 .. 9 /\ 2 \in 1 .. 9 /\ 3 \in 1 .. 9 /\ 4 \in 1 .. 9 /\ 5 \in 1 .. 9
      /\ 6 \in 1 .. 9 /\ 7 \in 1 .. 9 /\ 8 \in 1 .. 9 /\ 9 \in 1 .. 9
  OBVIOUS
<1>6. /\ StageWeight(PipelineStages[1]) = 1 /\ StageWeight(PipelineStages[2]) = 2
      /\ StageWeight(PipelineStages[3]) = 3 /\ StageWeight(PipelineStages[4]) = 4
      /\ StageWeight(PipelineStages[5]) = 5 /\ StageWeight(PipelineStages[6]) = 6
      /\ StageWeight(PipelineStages[7]) = 7 /\ StageWeight(PipelineStages[8]) = 8
      /\ StageWeight(PipelineStages[9]) = 9
  BY <1>3, <1>5
<1> QED BY <1>1, <1>4, <1>6

\* A timeline that ends later shows all that an earlier one shows.
LEMMA TimelineGrows ==
    ASSUME NEW a \in Stages, NEW b \in Stages, StageWeight(a) > 0,
           StageWeight(a) <= StageWeight(b)
    PROVE  BuildTimeline(a) \subseteq BuildTimeline(b)
<1>1. StageWeight(a) \in 0 .. 9 /\ StageWeight(b) \in 0 .. 9 BY Weights
<1> QED BY <1>1 DEF BuildTimeline

\* What a request shows is no earlier than what it replaces.
LEMMA NoStepBack ==
    ASSUME "api" \notin Faults, AdvanceInv, NEW v \in Viewers, NEW t \in Transfers, Views(v),
           shown'[v][t] # shown[v][t],
           StageWeight(shown[v][t]) >= 3, StageWeight(shown'[v][t]) > 0,
           ~ (NameOf[t] \in history /\ reading[v].rows[t] = "downloading")
    PROVE  StageWeight(shown[v][t]) <= StageWeight(shown'[v][t])
<1> DEFINE p == reading[v].listed[t]
           s == reading[v].rows[t]
           before == shown[v][t]
           after == shown'[v][t]
<1>a. "api" \notin Faults OBVIOUS
<1>i. /\ TypeOK /\ ViewTypeOK /\ ImportedIsRecorded /\ ScreenIsKept
      /\ ReadFits(v, t) /\ ScreenFits(v, t) /\ NewerFits(v, t)
  BY DEF AdvanceInv, KeptInv, IInv, ViewFits
<1>1. p \in EveryListing /\ s \in RowStates \ {"pending"} /\ before \in Stages
  BY <1>i DEF ViewTypeOK, ReadFits
<1>2. before \in OnceAvailable
  BY <1>1, <1>i, StageWeights, StageNames DEF ScreenFits, OnceAvailable, OnceClaimed
<1>3. after # "none" BY StageWeights
<1>4. reading[v].pc \in {"views", "detail", "orphan"}
  BY DEF Views, List, Get, ListsTransfers, LoadRecords, RecordOrEmpty, Abandons, BuildViews,
     BuildDetail, BuildOrphanDetail
<1>5. CASE /\ p # Absent
           /\ \/ reading[v].pc = "views"
              \/ reading[v].pc \in {"detail", "orphan"} /\ reading[v].cur = t
           /\ \E b \in LocalBytes(p, t) : after = BuildView(p, s, b)
  <2>1. PICK b \in LocalBytes(p, t) : after = BuildView(p, s, b) BY <1>5
  <2>2. p.status \in AvailableAs
    BY <1>1, <1>2, <1>4, <1>5, <1>i DEF NewerFits, EveryListing, FetchingAs, AvailableAs
  <2>3. /\ b \in 0 .. Size
        /\ disk[NameOf[t]] = "complete" => b = Size
    BY <1>i, <1>a, <2>1, <2>2, LocalBytesShape
  <2>4. /\ after \notin {"queued_on_putio", "downloading_on_putio", "imported", "seeding",
                        "cleaned_up"}
        /\ after \in OnceAvailable /\ s = "downloaded" => after = "waiting_import"
        /\ after = "ready_for_local" => s = "none"
        /\ after = "downloading_local" => b # Size
        /\ after \in Stages
    BY <1>1, <1>5, <2>1, <2>2, <2>3, StageOfView, BuildViewStage
  <2>5. after \in {"ready_for_local", "downloading_local", "local_complete", "waiting_import"}
    BY <2>4, StageNames, StageWeights
  <2>6. before # "cleaned_up" BY <1>4, <1>5, <1>i DEF NewerFits
  <2>7. CASE before = "ready_for_local" BY <2>5, <2>7, StageWeights
  <2>8. CASE before = "downloading_local"
    <3>1. s # "none" BY <1>5, <1>i, <2>8 DEF NewerFits, OnceClaimed
    <3> QED BY <2>4, <2>5, <2>8, <3>1, StageWeights
  <2>9. CASE before = "local_complete"
    <3>1. s # "none" BY <1>5, <1>i, <2>9 DEF NewerFits, OnceClaimed
    <3>2. after # "downloading_local"
      <4>1. SUFFICES ASSUME after = "downloading_local" PROVE FALSE OBVIOUS
      <4>2. Kept(t) /\ disk[NameOf[t]] # "complete"
        BY <1>i, <2>3, <2>4, <2>9, <4>1 DEF ScreenIsKept
      <4>3. NameOf[t] \in history
        BY <1>i, <4>2, NameAssumption DEF Kept, ImportedIsRecorded
      <4>4. s \notin {"none", "downloading", "downloaded"}
        BY <2>4, <3>1, <4>1, <4>3 DEF OnceAvailable, OnceClaimed
      <4>5. s \in {"failed", "missing"} BY <1>1, <4>4 DEF RowStates
      <4>6. after \in {"failed_local", "missing_on_putio", RemotePhaseStatus(p)}
        BY <2>1, <4>5 DEF BuildView, ComputeStatus, LocalPhaseStatus
      <4> QED BY <4>1, <4>6 DEF RemotePhaseStatus
    <3> QED BY <2>4, <2>5, <2>9, <3>1, <3>2, StageWeights
  <2>10. CASE before = "waiting_import"
    <3>1. s = "downloaded" BY <1>5, <1>i, <2>10 DEF NewerFits
    <3>2. after = "waiting_import" BY <2>4, <2>5, <3>1 DEF OnceAvailable, OnceClaimed
    <3> QED BY <2>10, <3>2, StageWeights
  <2> QED BY <1>2, <2>6, <2>7, <2>8, <2>9, <2>10 DEF OnceAvailable, OnceClaimed
<1>6. CASE after = BuildOrphanView(s)
  <2>1. after = "cleaned_up" BY <1>6, StageOfOrphan, StageWeights
  <2> QED BY <1>1, <2>1, StageWeights, Weights
<1> QED BY <1>3, <1>5, <1>6, <1>i, ScreenIsBuilt DEF ReadFits

\* For any number of viewers, transfers and processes: a stage that was shown as reached
\* after Put.io had the transfer is not taken back, while Put.io's lists, the table and the
\* file lists can be read in full and nobody gives a command.
THEOREM StagesOnlyAdvance ==
    ASSUME UICommands = {}, "listing" \notin Faults, "db" \notin Faults,
           "api" \notin Faults, NamesDiffer
    PROVE  SpecV => StagesAdvance
<1> DEFINE Advance == \A v \in Viewers, t \in Transfers :
          LET before == shown[v][t]
              after == shown'[v][t]
              overtaken == NameOf[t] \in history /\ reading[v].rows[t] = "downloading"
          IN  StageWeight(before) >= 3 /\ StageWeight(after) > 0 /\ ~overtaken
                  => BuildTimeline(before) \subseteq BuildTimeline(after)
<1>1. InitV => AdvanceInv
  <2> SUFFICES ASSUME InitV PROVE AdvanceInv OBVIOUS
  <2>1. KeptInv BY KeptInit
  <2>2. RowlessIsBare BY NameAssumption DEF InitV, Init, RowlessIsBare
  <2>3. ASSUME NEW v \in Viewers, NEW t \in Transfers PROVE ViewFits(v, t)
    <3>1. ReadFits(v, t)
      BY DEF InitV, ReadFits, NoReading, Absent, AvailableAs
    <3>2. ScreenFits(v, t) BY DEF InitV, ScreenFits, OnceAvailable, OnceClaimed
    <3>3. NewerFits(v, t) BY DEF InitV, NewerFits, OnceAvailable, OnceClaimed
    <3> QED BY <3>1, <3>2, <3>3 DEF ViewFits
  <2> QED BY <2>1, <2>2, <2>3 DEF AdvanceInv
<1>2. AdvanceInv /\ [NextV]_allVars => AdvanceInv' BY AdvanceStep
<1>3. AdvanceInv /\ [NextV]_allVars => [Advance]_allVars
  <2> SUFFICES ASSUME AdvanceInv, [NextV]_allVars, NEW v \in Viewers, NEW t \in Transfers,
                      StageWeight(shown[v][t]) >= 3, StageWeight(shown'[v][t]) > 0,
                      ~ (NameOf[t] \in history /\ reading[v].rows[t] = "downloading")
               PROVE  BuildTimeline(shown[v][t]) \subseteq BuildTimeline(shown'[v][t])
    OBVIOUS
  <2>1. CASE shown'[v][t] = shown[v][t] BY <2>1
  <2>2. CASE shown'[v][t] # shown[v][t]
    <3>1. ViewTypeOK /\ ViewTypeOK'
      BY AdvanceStep DEF AdvanceInv, KeptInv
    <3>2. shown[v][t] \in Stages /\ shown'[v][t] \in Stages BY <3>1 DEF ViewTypeOK
    <3>3. Views(v)
      BY <2>2, <3>1, ScreenIsBuilt DEF NextV, allVars, viewVars
    <3>4. StageWeight(shown[v][t]) <= StageWeight(shown'[v][t]) BY <2>2, <3>3, NoStepBack
    <3>5. StageWeight(shown[v][t]) > 0 BY <3>2, Weights
    <3> QED BY <3>2, <3>4, <3>5, TimelineGrows
  <2> QED BY <2>1, <2>2
<1> QED BY <1>1, <1>2, <1>3, PTL DEF SpecV, StagesAdvance

=============================================================================
