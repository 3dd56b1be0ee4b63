---------------------- MODULE TransferPipelineProofs ------------------------
(***************************************************************************)
(* Theorems about TransferPipeline, for every value of its constants: its  *)
(* types, who has a claimed transfer in hand, and, while no UI command     *)
(* runs, no two transfers share a release name and Put.io lists every      *)
(* folder of a release, what is on disk for a transfer.                    *)
(***************************************************************************)
EXTENDS TransferPipeline, TLAPS

-----------------------------------------------------------------------------
(* What the operators that write the shared state keep of its type *)

LEMMA ClaimType ==
    ASSUME TypeOK, NEW t, Claim(t)
    PROVE  status' \in [Transfers -> RowStates] /\ locked' \in [Transfers -> BOOLEAN]
BY DEF TypeOK, Claim, RowStates

LEMMA UpdateType ==
    ASSUME TypeOK, NEW t, NEW s \in RowStates, UpdateTransferStatus(t, s)
    PROVE  status' \in [Transfers -> RowStates] /\ locked' \in [Transfers -> BOOLEAN]
BY DEF TypeOK, UpdateTransferStatus, RowStates

LEMMA DeleteRowsType ==
    ASSUME TypeOK, NEW T, DeleteRows(T)
    PROVE  status' \in [Transfers -> RowStates] /\ locked' \in [Transfers -> BOOLEAN]
BY DEF TypeOK, DeleteRows, RowStates

LEMMA WipeType ==
    ASSUME TypeOK, NEW n, Wipe(n)
    PROVE  disk' \in [Names -> DiskStates] /\ spoiled' \subseteq Instances
BY DEF TypeOK, Wipe, Copying, DiskStates

LEMMA TruncateType ==
    ASSUME TypeOK, NEW i, NEW n, Truncate(i, n)
    PROVE  disk' \in [Names -> DiskStates] /\ spoiled' \subseteq Instances
BY DEF TypeOK, Truncate, Copying, DiskStates

\* One more watcher of a kind.
LEMMA CountType ==
    ASSUME NEW w \in [Instances -> [Transfers -> Nat]], NEW i \in Instances, NEW t
    PROVE  [w EXCEPT ![i][t] = @ + 1] \in [Instances -> [Transfers -> Nat]]
<1> DEFINE more == [w[i] EXCEPT ![t] = w[i][t] + 1]
<1>1. w[i] \in [Transfers -> Nat] OBVIOUS
<1>2. more \in [Transfers -> Nat]
  <2>1. CASE t \in Transfers BY <1>1, <2>1
  <2>2. CASE t \notin Transfers
    <3>1. more = w[i] BY <1>1, <2>2
    <3> QED BY <1>1, <3>1
  <2> QED BY <2>1, <2>2
<1>3. [w EXCEPT ![i][t] = @ + 1] = [w EXCEPT ![i] = more] OBVIOUS
<1> HIDE DEF more
<1> QED BY <1>2, <1>3

LEMMA OrchAfterType ==
    ASSUME NEW T \in SUBSET Transfers
    PROVE  OrchAfter(T) \in OrchStates
BY DEF OrchAfter, OrchStates, OrchPCs, MaybeTransfer

LEMMA IdleTypes ==
    /\ IdleOrch \in OrchStates
    /\ IdleDl \in DlStates
    /\ IdleNote \in NoteStates
    /\ NewReq \in ReqStates
    /\ DoneReq \in ReqStates
    /\ NoWatchers \in [Transfers -> Nat]
BY DEF IdleOrch, IdleDl, IdleNote, NewReq, DoneReq, NoWatchers, OrchStates, DlStates,
       NoteStates, ReqStates, OrchPCs, DlPCs, ReqPCs, MaybeTransfer

LEMMA CancelledType ==
    ASSUME TypeOK, NEW i
    PROVE  [dl EXCEPT ![i].cancelled = TRUE] \in [Instances -> DlStates]
<1>1. CASE i \in Instances BY <1>1 DEF TypeOK, DlStates
<1>2. CASE i \notin Instances
  <2>1. [dl EXCEPT ![i].cancelled = TRUE] = dl BY <1>2 DEF TypeOK
  <2> QED BY <2>1 DEF TypeOK
<1> QED BY <1>1, <1>2

LEMMA GotoType ==
    ASSUME TypeOK, NEW r \in Requests, NEW pc \in ReqPCs, Goto(r, pc)
    PROVE  req' \in [Requests -> ReqStates]
BY DEF TypeOK, Goto, ReqStates

LEMMA EndsType ==
    ASSUME TypeOK, NEW r \in Requests, Ends(r)
    PROVE  req' \in [Requests -> ReqStates]
BY IdleTypes DEF TypeOK, Ends

LEMMA DeleteGoesOnType ==
    ASSUME TypeOK, NEW r \in Requests, NEW scope, DeleteGoesOn(r, scope)
    PROVE  req' \in [Requests -> ReqStates]
<1> DEFINE left == req[r].left \ {scope}
           on == [req[r] EXCEPT !.pc = "delete_next", !.left = left]
<1>1. on \in ReqStates BY DEF TypeOK, ReqStates, ReqPCs
<1>2. req' = [req EXCEPT ![r] = IF left = {} THEN DoneReq ELSE on] BY DEF DeleteGoesOn
<1> HIDE DEF on, left
<1> QED BY <1>1, <1>2, IdleTypes DEF TypeOK

-----------------------------------------------------------------------------
(* Type correctness, which rests on the outcome of a returned download *)

OutcomeKnown == \A i \in Instances :
    dl[i].pc \in {"return", "report"} => dl[i].out \in Outcomes

LEMMA InitType == Init => TypeOK
BY IdleTypes DEF Init, TypeOK, RemoteStates, RowStates, DiskStates

LEMMA OrchType ==
    ASSUME TypeOK, NEW i \in Instances, OrchNext(i)
    PROVE  TypeOK'
<1>0. orch[i] \in OrchStates /\ orch[i].todo \in SUBSET Transfers
  BY DEF TypeOK, OrchStates
<1>1. CASE OrchList(i)
  <2>1. orch' \in [Instances -> OrchStates]
    BY <1>1 DEF OrchList, Listings, TypeOK, OrchStates, OrchPCs, MaybeTransfer
  <2> QED BY <1>1, <2>1 DEF OrchList, TypeOK, table, files, watchers
<1>2. CASE OrchSelect(i)
  <2>1. PICK t \in orch[i].todo :
          orch' = [orch EXCEPT ![i] =
                     IF status[t] = "downloaded"
                     THEN OrchAfter(orch[i].todo \ {t})
                     ELSE [pc |-> "upsert", cur |-> t, todo |-> orch[i].todo \ {t}]]
    BY <1>2 DEF OrchSelect
  <2>2. [pc |-> "upsert", cur |-> t, todo |-> orch[i].todo \ {t}] \in OrchStates
    BY <1>0 DEF OrchStates, OrchPCs, MaybeTransfer
  <2>3. OrchAfter(orch[i].todo \ {t}) \in OrchStates BY <1>0, OrchAfterType
  <2>4. orch' \in [Instances -> OrchStates] BY <2>1, <2>2, <2>3 DEF TypeOK
  <2> QED BY <1>2, <2>4 DEF OrchSelect, TypeOK, table, files, watchers
<1>3. CASE OrchUpsert(i)
  <2>1. status' \in [Transfers -> RowStates] /\ locked' \in [Transfers -> BOOLEAN]
    BY <1>3, ClaimType DEF OrchUpsert, TypeOK, table
  <2>2. OrchAfter(orch[i].todo) \in OrchStates BY <1>0, OrchAfterType
  <2>3. [orch[i] EXCEPT !.pc = "send"] \in OrchStates BY <1>0 DEF OrchStates, OrchPCs
  <2>4. \/ orch' = [orch EXCEPT ![i].pc = "send"]
        \/ orch' = [orch EXCEPT ![i] = OrchAfter(orch[i].todo)]
    BY <1>3 DEF OrchUpsert
  <2>5. orch' \in [Instances -> OrchStates] BY <2>2, <2>3, <2>4 DEF TypeOK
  <2> QED BY <1>3, <2>1, <2>5 DEF OrchUpsert, TypeOK, files, watchers
<1>4. CASE OrchDbFails(i)
  BY <1>4, IdleTypes DEF OrchDbFails, TypeOK, table, files, watchers
<1> QED BY <1>1, <1>2, <1>3, <1>4 DEF OrchNext

LEMMA DlType ==
    ASSUME TypeOK, NEW i \in Instances, DlNext(i)
    PROVE  TypeOK'
<1>0. /\ orch[i].todo \in SUBSET Transfers
      /\ orch[i].cur \in MaybeTransfer
      /\ dl[i] \in DlStates
  BY DEF TypeOK, OrchStates
<1>a. ASSUME NEW out \in Outcomes, Returns(i, out) PROVE dl' \in [Instances -> DlStates]
  BY <1>a, <1>0 DEF Returns, TypeOK, DlStates, DlPCs
<1>b. ASSUME Sticks(i) PROVE dl' \in [Instances -> DlStates]
  BY <1>b, <1>0 DEF Sticks, TypeOK, DlStates, DlPCs
<1>c. ASSUME NEW n, NEW s \in DiskStates, disk' = [disk EXCEPT ![n] = s]
      PROVE  disk' \in [Names -> DiskStates]
  BY <1>c DEF TypeOK
<1>d. {"none", "partial", "complete"} \subseteq DiskStates BY DEF DiskStates
<1>e. UNCHANGED files => disk' \in [Names -> DiskStates] /\ spoiled' \subseteq Instances
  BY DEF TypeOK, files
<1>1. CASE DlReceivesPolled(i)
  <2>1. orch' \in [Instances -> OrchStates]
    BY <1>1, <1>0, OrchAfterType DEF DlReceivesPolled, TypeOK
  <2>2. dl' \in [Instances -> DlStates]
    BY <1>1, <1>0 DEF DlReceivesPolled, TypeOK, DlStates, DlPCs, Received
  <2> QED BY <1>1, <2>1, <2>2 DEF DlReceivesPolled, TypeOK, watchers, table, files
<1>2. ASSUME NEW r \in Requests, DlReceivesRequeued(i, r) PROVE TypeOK'
  <2>1. req[r].cur \in MaybeTransfer BY DEF TypeOK, ReqStates
  <2>2. dl' \in [Instances -> DlStates]
    BY <1>2, <2>1 DEF DlReceivesRequeued, TypeOK, DlStates, DlPCs, Received
  <2>3. req' \in [Requests -> ReqStates]
    BY <1>2, IdleTypes DEF DlReceivesRequeued, TypeOK
  <2> QED BY <1>2, <2>2, <2>3 DEF DlReceivesRequeued, TypeOK, watchers, table, files
<1>3. CASE DlGrabFails(i)
  <2>1. dl' \in [Instances -> DlStates] BY <1>3, <1>a, <1>b DEF DlGrabs, DlGrabFails, Outcomes
  <2>2. disk' \in [Names -> DiskStates] /\ spoiled' \subseteq Instances
    BY <1>3, WipeType DEF DlGrabFails
  <2> QED BY <1>3, <2>1, <2>2 DEF DlGrabs, DlGrabFails, TypeOK, watchers, table, files
<1>4. CASE DlOpenFails(i)
  <2>1. dl' \in [Instances -> DlStates] BY <1>4, <1>a, <1>b DEF DlOpenFails, Outcomes
  <2>2. disk' \in [Names -> DiskStates] /\ spoiled' \subseteq Instances
    BY <1>4, <1>e, WipeType DEF DlOpenFails
  <2> QED BY <1>4, <2>1, <2>2 DEF DlOpenFails, TypeOK, watchers, table, files
<1>5. CASE DlOpens(i)
  <2>1. dl' \in [Instances -> DlStates] BY <1>5 DEF DlOpens, TypeOK, DlStates, DlPCs
  <2>2. disk' \in [Names -> DiskStates] /\ spoiled' \subseteq Instances
    BY <1>5, TruncateType DEF DlOpens
  <2> QED BY <1>5, <2>1, <2>2 DEF DlOpens, TypeOK, watchers, table, files
<1>6. CASE DlCopies(i)
  <2>1. dl' \in [Instances -> DlStates] BY <1>6, <1>a DEF DlCopies, Outcomes
  <2>2. disk' \in [Names -> DiskStates] /\ spoiled' \subseteq Instances
    BY <1>6, <1>c, <1>d DEF DlCopies, TypeOK
  <2> QED BY <1>6, <2>1, <2>2 DEF DlCopies, TypeOK, watchers, table, files
<1>7. CASE DlCopyBreaks(i)
  BY <1>7, <1>b DEF DlCopyBreaks, TypeOK, watchers, table, files
<1>8. CASE DlSiblingFails(i)
  <2>1. dl' \in [Instances -> DlStates] BY <1>8, <1>a, <1>b DEF DlSiblingFails, Outcomes
  <2>2. disk' \in [Names -> DiskStates] /\ spoiled' \subseteq Instances
    BY <1>8, <1>c, <1>d DEF DlSiblingFails, TypeOK, Copying
  <2> QED BY <1>8, <2>1, <2>2 DEF DlSiblingFails, TypeOK, watchers, table, files
<1>9. CASE DlGrabs(i)
  <2>1. dl' \in [Instances -> DlStates] BY <1>9 DEF DlGrabs, TypeOK, DlStates, DlPCs
  <2> QED BY <1>9, <2>1 DEF DlGrabs, TypeOK, watchers, table, files
<1>10. CASE DlUnregisters(i)
  <2>1. dl' \in [Instances -> DlStates]
    BY <1>0, <1>10 DEF DlUnregisters, TypeOK, DlStates, DlPCs
  <2> QED BY <1>10, <2>1 DEF DlUnregisters, TypeOK, watchers, table, files
<1> QED BY <1>1, <1>2, <1>3, <1>4, <1>5, <1>6, <1>7, <1>8, <1>9, <1>10 DEF DlNext

LEMMA NoteType ==
    ASSUME TypeOK, OutcomeKnown, NEW i \in Instances, NoteNext(i)
    PROVE  TypeOK'
<1>0. note[i].cur \in MaybeTransfer /\ dl[i] \in DlStates
  BY DEF TypeOK, NoteStates
<1>1. CASE NoteReceives(i)
  <2>1. note' \in [Instances -> NoteStates]
    <3>1. dl[i].cur \in MaybeTransfer /\ dl[i].out \in Outcomes \cup {"none"}
      BY <1>0 DEF DlStates
    <3>2. dl[i].out \in Outcomes BY <1>1 DEF NoteReceives, OutcomeKnown
    <3> QED BY <1>1, <3>1, <3>2 DEF NoteReceives, TypeOK, NoteStates
  <2> QED BY <1>1, <2>1, IdleTypes DEF NoteReceives, TypeOK, table, files, watchers
<1>2. ASSUME NEW t \in Transfers, NoteReceivesImported(i, t) PROVE TypeOK'
  <2>1. note' \in [Instances -> NoteStates]
    BY <1>2 DEF NoteReceivesImported, TypeOK, NoteStates, MaybeTransfer
  <2>2. announcing' \in [Instances -> [Transfers -> Nat]]
    BY <1>2 DEF NoteReceivesImported, TypeOK
  <2> QED BY <1>2, <2>1, <2>2 DEF NoteReceivesImported, TypeOK, table, files
<1>3. CASE NoteHandles(i)
  <2>1. /\ status' \in [Transfers -> RowStates]
        /\ locked' \in [Transfers -> BOOLEAN]
        /\ waiting' \in [Instances -> [Transfers -> Nat]]
    <3> USE <1>0, UpdateType
    <3> USE DEF RowStates
    <3>1. CASE HandleDownloadError(i) BY <3>1 DEF HandleDownloadError, TypeOK
    <3>2. CASE HandleTransferMissing(i) BY <3>2 DEF HandleTransferMissing, TypeOK
    <3>3. CASE HandleDownloadFinished(i)
      <4>1. waiting' \in [Instances -> [Transfers -> Nat]]
        BY <3>3, CountType DEF HandleDownloadFinished, TypeOK
      <4> QED BY <3>3, <4>1 DEF HandleDownloadFinished
    <3>4. CASE HandleTransferImported(i)
      BY <3>4 DEF HandleTransferImported, TypeOK, table
    <3> QED BY <1>3, <3>1, <3>2, <3>3, <3>4 DEF NoteHandles
  <2> QED BY <1>3, <2>1, IdleTypes DEF NoteHandles, TypeOK, files
<1>4. CASE NoteDbFails(i) BY <1>4, IdleTypes DEF NoteDbFails, TypeOK, table, files, watchers
<1> QED BY <1>1, <1>2, <1>3, <1>4 DEF NoteNext

LEMMA WatcherType ==
    ASSUME TypeOK, NEW i \in Instances, WatcherNext(i)
    PROVE  TypeOK'
<1>1. ASSUME NEW t \in Transfers, WatcherSeesImport(i, t) PROVE TypeOK'
  <2>1. waiting' \in [Instances -> [Transfers -> Nat]]
    BY <1>1 DEF WatcherSeesImport, TypeOK
  <2>2. removing' \in [Instances -> [Transfers -> Nat]]
    <3>1. \/ removing' = [removing EXCEPT ![i][t] = @ + 1]
          \/ removing' = removing
      BY <1>1 DEF WatcherSeesImport
    <3>2. [removing EXCEPT ![i][t] = @ + 1] \in [Instances -> [Transfers -> Nat]]
      BY CountType DEF TypeOK
    <3> QED BY <3>1, <3>2 DEF TypeOK
  <2>3. announcing' \in [Instances -> [Transfers -> Nat]]
    <3>1. \/ announcing' = [announcing EXCEPT ![i][t] = @ + 1]
          \/ announcing' = announcing
      BY <1>1 DEF WatcherSeesImport
    <3>2. [announcing EXCEPT ![i][t] = @ + 1] \in [Instances -> [Transfers -> Nat]]
      BY CountType DEF TypeOK
    <3> QED BY <3>1, <3>2 DEF TypeOK
  <2> QED BY <1>1, <2>1, <2>2, <2>3 DEF WatcherSeesImport, TypeOK, table, files
<1>2. ASSUME NEW t \in Transfers, WatcherRemoves(i, t) PROVE TypeOK'
  <2>1. /\ removing' \in [Instances -> [Transfers -> Nat]]
        /\ announcing' \in [Instances -> [Transfers -> Nat]]
    BY <1>2 DEF WatcherRemoves, TypeOK
  <2>2. disk' \in [Names -> DiskStates] /\ spoiled' \subseteq Instances
    BY <1>2, WipeType DEF WatcherRemoves
  <2> QED BY <1>2, <2>1, <2>2 DEF WatcherRemoves, TypeOK, table
<1> QED BY <1>1, <1>2 DEF WatcherNext

LEMMA RequestType ==
    ASSUME TypeOK, NEW r \in Requests, NEW pc \in ReqPCs,
           NEW left \in SUBSET (Scopes \cup Names), Request(r, pc, left)
    PROVE  TypeOK'
<1>1. req' \in [Requests -> ReqStates]
  BY DEF Request, TypeOK, ReqStates, MaybeTransfer
<1> QED BY <1>1 DEF Request, TypeOK, table, files, watchers

LEMMA ReqType ==
    ASSUME TypeOK, NEW r \in Requests, UINext(r)
    PROVE  TypeOK'
<1> USE DEF table, files, watchers
<1>r. /\ req[r].inst \in Instances \cup {NoInstance}
      /\ req[r].left \in SUBSET (Scopes \cup Names)
      /\ req[r] \in ReqStates
  BY DEF TypeOK, ReqStates
<1>g. \A pc \in ReqPCs : Goto(r, pc) => req' \in [Requests -> ReqStates] BY GotoType
<1>e. Ends(r) => req' \in [Requests -> ReqStates] BY EndsType
<1>d. \A scope : DeleteGoesOn(r, scope) => req' \in [Requests -> ReqStates]
  BY DeleteGoesOnType
<1>1. CASE RequestRetry(r) BY <1>1, RequestType DEF RequestRetry, ReqPCs
<1>2. CASE RequestCancel(r) BY <1>2, RequestType DEF RequestCancel, ReqPCs
<1>3. CASE RequestDelete(r)
  <2>1. PICK scopes \in SUBSET Scopes : Request(r, "delete_next", scopes)
    BY <1>3 DEF RequestDelete
  <2> QED BY <2>1, RequestType DEF ReqPCs
<1>4. CASE RequestReset(r) BY <1>4, RequestType DEF RequestReset, ReqPCs
<1>5. CASE RequestPurge(r) BY <1>5, RequestType DEF RequestPurge, ReqPCs
<1>6. CASE RetryMarks(r)
  BY <1>6, <1>g, UpdateType DEF RetryMarks, TypeOK, ReqPCs, RowStates
<1>7. CASE RetryFinds(r) BY <1>7, <1>g DEF RetryFinds, TypeOK, ReqPCs
<1>8. CASE RetryWipes(r) BY <1>8, <1>g, WipeType DEF RetryWipes, TypeOK, ReqPCs
<1>9. CASE RequeueLists(r) BY <1>9, <1>g, <1>e DEF RequeueLists, TypeOK, ReqPCs
<1>10. CASE RequeueSelects(r) BY <1>10, <1>g, <1>e DEF RequeueSelects, TypeOK, ReqPCs
<1>11. CASE RequeueUpserts(r)
  BY <1>11, <1>g, <1>e, ClaimType DEF RequeueUpserts, TypeOK, ReqPCs
<1>12. CASE CancelSignals(r)
  <2>1. dl' \in [Instances -> DlStates]
    <3>1. \/ dl' = [dl EXCEPT ![req[r].inst].cancelled = TRUE]
          \/ dl' = dl
      BY <1>12 DEF CancelSignals
    <3>2. [dl EXCEPT ![req[r].inst].cancelled = TRUE] \in [Instances -> DlStates]
      BY CancelledType
    <3> QED BY <3>1, <3>2 DEF TypeOK
  <2> QED BY <1>12, <2>1, <1>g, <1>e DEF CancelSignals, TypeOK, ReqPCs
<1>13. CASE CancelMarks(r)
  BY <1>13, <1>e, UpdateType DEF CancelMarks, TypeOK, RowStates
<1>14. CASE DeletesPutio(r)
  <2>1. remote' \in [Transfers -> RemoteStates]
    BY <1>14 DEF DeletesPutio, TypeOK, RemoteStates
  <2> QED BY <1>14, <2>1, <1>d DEF DeletesPutio, TypeOK
<1>15. CASE DeleteFinds(r) BY <1>15, <1>g, <1>d DEF DeleteFinds, TypeOK, ReqPCs
<1>16. CASE DeleteWipes(r) BY <1>16, <1>d, WipeType DEF DeleteWipes, TypeOK
<1>17. CASE DeletesRow(r) BY <1>17, <1>d, DeleteRowsType DEF DeletesRow, TypeOK
<1>18. CASE Resets(r) BY <1>18, <1>e, DeleteRowsType DEF Resets, TypeOK
<1>19. CASE Purges(r)
  <2>1. PICK n \in req[r].left :
          /\ Wipe(n)
          /\ Ends(r) \/ req' = [req EXCEPT ![r].left = @ \ {n}]
    BY <1>19 DEF Purges
  <2>2. req' \in [Requests -> ReqStates]
    <3>1. [req EXCEPT ![r].left = @ \ {n}] \in [Requests -> ReqStates]
      BY <1>r DEF TypeOK, ReqStates
    <3> QED BY <2>1, <3>1, <1>e
  <2>3. disk' \in [Names -> DiskStates] /\ spoiled' \subseteq Instances BY <2>1, WipeType
  <2>4. UNCHANGED <<remote, table, history, orch, dl, note, watchers>>
    BY <1>19 DEF Purges
  <2> QED BY <2>2, <2>3, <2>4 DEF TypeOK
<1>20. CASE ReqFails(r) BY <1>20, <1>e DEF ReqFails, TypeOK
<1> QED
  BY <1>1, <1>2, <1>3, <1>4, <1>5, <1>6, <1>7, <1>8, <1>9, <1>10, <1>11, <1>12,
     <1>13, <1>14, <1>15, <1>16, <1>17, <1>18, <1>19, <1>20 DEF UINext

LEMMA EnvType ==
    ASSUME TypeOK, EnvNext
    PROVE  TypeOK'
<1> USE DEF TypeOK, table, files, watchers
<1>1. ASSUME NEW t \in Transfers, RemoteCompletes(t) PROVE TypeOK'
  BY <1>1 DEF RemoteCompletes, RemoteStates
<1>2. ASSUME NEW t \in Transfers, RemoteRemoved(t) PROVE TypeOK'
  BY <1>2 DEF RemoteRemoved, RemoteStates
<1>3. ASSUME NEW n \in Names, ArrImports(n) PROVE TypeOK'
  BY <1>3 DEF ArrImports, DiskStates
<1>4. ASSUME NEW i \in Instances, Crash(i) PROVE TypeOK'
  BY <1>4, IdleTypes DEF Crash
<1> QED BY <1>1, <1>2, <1>3, <1>4 DEF EnvNext

LEMMA TypeStep == TypeOK /\ OutcomeKnown /\ [Next]_vars => TypeOK'
<1> SUFFICES ASSUME TypeOK, OutcomeKnown, [Next]_vars PROVE TypeOK' OBVIOUS
<1>1. CASE UNCHANGED vars BY <1>1 DEF vars, TypeOK
<1>2. CASE Next BY <1>2, OrchType, DlType, NoteType, WatcherType, ReqType, EnvType DEF Next
<1> QED BY <1>1, <1>2

\* Only the downloader, the receive of its report, a crash and a cancel change dl.
LEMMA DlFrame ==
    ASSUME [Next]_vars
    PROVE  \/ dl' = dl
           \/ \E i \in Instances : DlNext(i) \/ NoteNext(i) \/ Crash(i)
           \/ \E r \in Requests : CancelSignals(r)
<1>1. CASE UNCHANGED vars BY <1>1 DEF vars
<1>2. ASSUME NEW i \in Instances, OrchNext(i) \/ WatcherNext(i) PROVE dl' = dl
  BY <1>2 DEF OrchNext, OrchList, OrchSelect, OrchUpsert, OrchDbFails,
     WatcherNext, WatcherSeesImport, WatcherRemoves
<1>3. ASSUME NEW r \in Requests, UINext(r) PROVE dl' = dl \/ CancelSignals(r)
  BY <1>3 DEF UINext, RequestRetry, RequestCancel, RequestDelete, RequestReset,
     RequestPurge, Request, RetryMarks, RetryFinds, RetryWipes, RequeueLists,
     RequeueSelects, RequeueUpserts, CancelMarks, DeletesPutio,
     DeleteFinds, DeleteWipes, DeletesRow, Resets, Purges, ReqFails
<1>4. CASE EnvNext
  BY <1>4 DEF EnvNext, RemoteCompletes, RemoteRemoved, ArrImports
<1> QED BY <1>1, <1>2, <1>3, <1>4 DEF Next

LEMMA InitOutcome == Init => OutcomeKnown
BY DEF Init, OutcomeKnown, IdleDl

LEMMA OutcomeStep == TypeOK /\ OutcomeKnown /\ [Next]_vars => OutcomeKnown'
<1> SUFFICES ASSUME TypeOK, OutcomeKnown, [Next]_vars,
                    NEW j \in Instances, dl'[j].pc \in {"return", "report"}
             PROVE  dl'[j].out \in Outcomes
  BY DEF OutcomeKnown
<1>0. dl \in [Instances -> DlStates] BY DEF TypeOK
<1>1. CASE dl' = dl BY <1>1 DEF OutcomeKnown
<1>2. ASSUME NEW i \in Instances, DlNext(i) PROVE dl'[j].out \in Outcomes
  <2> USE <1>0 DEF DlStates, OutcomeKnown
  <2>1. CASE i # j
    BY <1>2, <2>1 DEF DlNext, DlReceivesPolled, DlReceivesRequeued, DlGrabs, DlGrabFails,
       DlOpenFails, DlOpens, DlCopies, DlCopyBreaks, DlSiblingFails, DlUnregisters,
       Returns, Sticks
  <2>2. CASE i = j
    BY <1>2, <2>2 DEF DlNext, DlReceivesPolled, DlReceivesRequeued, DlGrabs, DlGrabFails,
       DlOpenFails, DlOpens, DlCopies, DlCopyBreaks, DlSiblingFails, DlUnregisters,
       Returns, Sticks, Received, Outcomes
  <2> QED BY <2>1, <2>2
<1>3. ASSUME NEW i \in Instances, NoteNext(i) PROVE dl'[j].out \in Outcomes
  BY <1>0, <1>3, <1>1 DEF NoteNext, NoteReceives, NoteReceivesImported, NoteHandles,
     NoteDbFails, IdleDl, OutcomeKnown
<1>4. ASSUME NEW i \in Instances, Crash(i) PROVE dl'[j].out \in Outcomes
  BY <1>0, <1>4 DEF Crash, IdleDl, OutcomeKnown
<1>5. ASSUME NEW r \in Requests, CancelSignals(r) PROVE dl'[j].out \in Outcomes
  BY <1>0, <1>5 DEF CancelSignals, OutcomeKnown, DlStates
<1> QED BY <1>1, <1>2, <1>3, <1>4, <1>5, DlFrame

\* Every reachable state is well typed, for any processes, transfers, requests,
\* commands and faults.
THEOREM TypeCorrect == Spec => []TypeOK
BY InitType, InitOutcome, TypeStep, OutcomeStep, PTL DEF Spec

-----------------------------------------------------------------------------
(* Holders, one kind at a time *)

Held(t) ==
    \/ \E i \in Instances : OrchHolds(i, t)
    \/ \E r \in Requests : ReqHolds(r, t)
    \/ \E i \in Instances : DlHolds(i, t)
    \/ \E i \in Instances : NoteHolds(i, t)

LEMMA HeldMeansHolders == \A t : Held(t) <=> Holders(t) # {}
BY DEF Held, Holders

-----------------------------------------------------------------------------
(* A claimed row has a holder, whatever the UI commands do *)

ClaimHeld == \A t \in Transfers : status[t] = "downloading" => Held(t)

NoFaultLosesAClaim == Faults \cap {"db", "client", "crash"} = {}

LEMMA UpdateClaims ==
    ASSUME TypeOK, NEW t \in Transfers, NEW u, NEW s, s # "downloading",
           UpdateTransferStatus(u, s), status'[t] = "downloading"
    PROVE  status[t] = "downloading" /\ t # u
BY DEF UpdateTransferStatus, TypeOK

LEMMA DeleteClaims ==
    ASSUME NEW t \in Transfers, NEW T, DeleteRows(T), status'[t] = "downloading"
    PROVE  status[t] = "downloading"
BY DEF DeleteRows

LEMMA ClaimClaims ==
    ASSUME TypeOK, NEW t \in Transfers, NEW u, Claim(u), status'[t] = "downloading"
    PROVE  t = u \/ status[t] = "downloading"
BY DEF Claim, TypeOK

LEMMA ClaimHeldStep ==
    ASSUME NoFaultLosesAClaim, TypeOK, OutcomeKnown, ClaimHeld, [Next]_vars
    PROVE  ClaimHeld'
<1> SUFFICES ASSUME NEW t \in Transfers, status'[t] = "downloading"
             PROVE  Held(t)'
  BY DEF ClaimHeld
<1> USE DEF Held, OrchHolds, ReqHolds, DlHolds, NoteHolds
<1>h. status[t] = "downloading" => Held(t) BY DEF ClaimHeld
<1>f. "db" \notin Faults /\ "client" \notin Faults /\ "crash" \notin Faults
  BY DEF NoFaultLosesAClaim
<1>t. /\ orch \in [Instances -> OrchStates]
      /\ dl \in [Instances -> DlStates]
      /\ note \in [Instances -> NoteStates]
      /\ req \in [Requests -> ReqStates]
  BY DEF TypeOK
<1>s. CASE UNCHANGED vars BY <1>s, <1>h DEF vars, table
<1>1. ASSUME NEW i \in Instances, OrchNext(i) PROVE Held(t)'
  <2> USE <1>h, <1>t
  <2>1. CASE OrchList(i) BY <2>1 DEF OrchList, table
  <2>2. CASE OrchSelect(i) BY <2>2 DEF OrchSelect, table
  <2>3. CASE OrchUpsert(i)
    BY <2>3, ClaimClaims DEF OrchUpsert, table, OrchStates
  <2>4. CASE OrchDbFails(i) BY <2>4, <1>f DEF OrchDbFails
  <2> QED BY <1>1, <2>1, <2>2, <2>3, <2>4 DEF OrchNext
<1>2. ASSUME NEW i \in Instances, DlNext(i) PROVE Held(t)'
  <2> USE <1>h, <1>t DEF table, DlStates, Returns, Sticks
  <2>1. CASE DlReceivesPolled(i) BY <2>1 DEF DlReceivesPolled, Received
  <2>2. ASSUME NEW r \in Requests, DlReceivesRequeued(i, r) PROVE Held(t)'
    BY <2>2 DEF DlReceivesRequeued, Received
  <2>3. CASE DlGrabFails(i) BY <2>3 DEF DlGrabFails
  <2>4. CASE DlOpenFails(i)
    <3>1. /\ Returns(i, "missing") \/ Returns(i, "error")
          /\ dl[i].pc = "open"
          /\ UNCHANGED <<status, orch, note, req>>
      BY <2>4 DEF DlOpenFails
    <3> QED BY <3>1
  <2>5. CASE DlOpens(i) BY <2>5 DEF DlOpens
  <2>6. CASE DlCopies(i) BY <2>6 DEF DlCopies
  <2>7. CASE DlCopyBreaks(i) BY <2>7 DEF DlCopyBreaks
  <2>8. CASE DlSiblingFails(i)
    <3>1. /\ Sticks(i) \/ \E out \in Outcomes : Returns(i, out)
          /\ dl[i].pc = "copy"
          /\ UNCHANGED <<status, orch, note, req>>
      BY <2>8 DEF DlSiblingFails, Outcomes
    <3> QED BY <3>1
  <2>9. CASE DlUnregisters(i) BY <2>9 DEF DlUnregisters
  <2>10. CASE DlGrabs(i) BY <2>10 DEF DlGrabs
  <2> QED BY <1>2, <2>1, <2>2, <2>3, <2>4, <2>5, <2>6, <2>7, <2>8, <2>9, <2>10 DEF DlNext
<1>3. ASSUME NEW i \in Instances, NoteNext(i) PROVE Held(t)'
  <2> USE <1>h, <1>t DEF table
  <2>1. CASE NoteReceives(i)
    <3>1. note'[i].ev \in Outcomes /\ note'[i].cur = dl[i].cur
      BY <2>1 DEF NoteReceives, OutcomeKnown
    <3>2. /\ UNCHANGED <<status, orch, req>>
          /\ \A j \in Instances \ {i} : note'[j] = note[j] /\ dl'[j] = dl[j]
          /\ note[i].ev = "idle"
      BY <2>1 DEF NoteReceives
    <3> QED BY <3>1, <3>2 DEF Outcomes
  <2>2. ASSUME NEW u \in Transfers, NoteReceivesImported(i, u) PROVE Held(t)'
    BY <2>2 DEF NoteReceivesImported, Outcomes
  <2>3. CASE NoteHandles(i)
    <3>1. CASE note[i].ev = "imported"
      BY <2>3, <3>1 DEF NoteHandles, HandleDownloadError, HandleTransferMissing,
         HandleDownloadFinished, HandleTransferImported, Outcomes
    <3>2. CASE note[i].ev # "imported"
      <4>1. status[t] = "downloading" /\ t # note[i].cur
        BY <2>3, <3>2, UpdateClaims DEF NoteHandles, HandleDownloadError,
           HandleTransferMissing, HandleDownloadFinished, HandleTransferImported
      <4> QED BY <2>3, <4>1 DEF NoteHandles
    <3> QED BY <3>1, <3>2
  <2>4. CASE NoteDbFails(i) BY <2>4, <1>f DEF NoteDbFails
  <2> QED BY <1>3, <2>1, <2>2, <2>3, <2>4 DEF NoteNext
<1>4. ASSUME NEW i \in Instances, WatcherNext(i) PROVE Held(t)'
  BY <1>4, <1>h DEF WatcherNext, WatcherSeesImport, WatcherRemoves, table
<1>5. ASSUME NEW r \in Requests, UINext(r) PROVE Held(t)'
  <2> USE <1>h, <1>t DEF table, Goto, Ends, DoneReq, NewReq, ReqStates
  <2>1. CASE RequestRetry(r) \/ RequestCancel(r) \/ RequestDelete(r)
             \/ RequestReset(r) \/ RequestPurge(r)
    BY <2>1 DEF RequestRetry, RequestCancel, RequestDelete, RequestReset,
       RequestPurge, Request
  <2>2. CASE RetryMarks(r) BY <2>2, UpdateClaims DEF RetryMarks
  <2>3. CASE RetryFinds(r) BY <2>3 DEF RetryFinds
  <2>4. CASE RetryWipes(r) BY <2>4 DEF RetryWipes
  <2>5. CASE RequeueLists(r) BY <2>5 DEF RequeueLists
  <2>6. CASE RequeueSelects(r) BY <2>6 DEF RequeueSelects
  <2>7. CASE RequeueUpserts(r) BY <2>7, ClaimClaims DEF RequeueUpserts
  <2>8. CASE CancelSignals(r)
    <3>1. \/ UNCHANGED dl
          \/ dl' = [dl EXCEPT ![req[r].inst].cancelled = TRUE]
      BY <2>8 DEF CancelSignals
    <3>2. ASSUME NEW i \in Instances
          PROVE  dl'[i].pc = dl[i].pc /\ dl'[i].cur = dl[i].cur
      <4>1. dl[i] \in DlStates BY <1>t
      <4>2. dl'[i] = dl[i] \/ dl'[i] = [dl[i] EXCEPT !.cancelled = TRUE]
        BY <3>1, <1>t
      <4> QED BY <4>1, <4>2 DEF DlStates
    <3> QED BY <2>8, <3>2 DEF CancelSignals
  <2>9. CASE CancelMarks(r) BY <2>9, UpdateClaims DEF CancelMarks
  <2>10. CASE DeletesPutio(r) BY <2>10 DEF DeletesPutio, DeleteGoesOn
  <2>11. CASE DeleteFinds(r) BY <2>11 DEF DeleteFinds, DeleteGoesOn
  <2>12. CASE DeleteWipes(r) BY <2>12 DEF DeleteWipes, DeleteGoesOn
  <2>13. CASE DeletesRow(r) BY <2>13, DeleteClaims DEF DeletesRow, DeleteGoesOn
  <2>14. CASE Resets(r) BY <2>14, DeleteClaims DEF Resets
  <2>15. CASE Purges(r) BY <2>15 DEF Purges
  <2>16. CASE ReqFails(r) BY <2>16, <1>f DEF ReqFails
  <2> QED
    BY <1>5, <2>1, <2>2, <2>3, <2>4, <2>5, <2>6, <2>7, <2>8, <2>9, <2>10,
       <2>11, <2>12, <2>13, <2>14, <2>15, <2>16 DEF UINext
<1>6. CASE EnvNext
  BY <1>6, <1>h, <1>f DEF EnvNext, RemoteCompletes, RemoteRemoved, ArrImports, Crash, table
<1> QED BY <1>s, <1>1, <1>2, <1>3, <1>4, <1>5, <1>6 DEF Next

LEMMA HolderReportsOrWaits == \A t : Held(t) => WillReport(t) \/ BehindStuck(t)
<1> SUFFICES ASSUME NEW t, Held(t), ~ BehindStuck(t) PROVE WillReport(t) OBVIOUS
<1>1. ASSUME NEW i \in Instances, OrchHolds(i, t) \/ DlHolds(i, t) PROVE WillReport(t)
  BY <1>1 DEF WillReport, BehindStuck
<1>2. ASSUME NEW r \in Requests, ReqHolds(r, t) PROVE WillReport(t)
  BY <1>2 DEF WillReport, BehindStuck
<1>3. ASSUME NEW i \in Instances, NoteHolds(i, t) PROVE WillReport(t)
  BY <1>3 DEF WillReport
<1> QED BY <1>1, <1>2, <1>3 DEF Held

LEMMA ClaimHeldInvariant ==
    ASSUME NoFaultLosesAClaim
    PROVE  Spec => [](TypeOK /\ ClaimHeld)
<1>1. Init => ClaimHeld BY DEF Init, ClaimHeld
<1>2. TypeOK /\ OutcomeKnown /\ ClaimHeld /\ [Next]_vars => ClaimHeld'
  BY ClaimHeldStep
<1> QED BY <1>1, <1>2, InitType, InitOutcome, TypeStep, OutcomeStep, PTL DEF Spec

\* As long as no process crashes, no statement fails and no client goes away
\* while its retry is queued, every claimed row has a goroutine that will
\* report on it or stands behind a worker that is blocked for ever, in any
\* interleaving of polls, retries, cancels and deletes.
THEOREM ClaimsAreHeld ==
    ASSUME NoFaultLosesAClaim
    PROVE  Spec => []ClaimHasHolder
<1>1. ClaimHeld => ClaimHasHolder BY HolderReportsOrWaits DEF ClaimHeld, ClaimHasHolder
<1> QED BY <1>1, ClaimHeldInvariant, PTL

\* What blocks a worker: a stream that breaks, a cancellation, or another file that fails.
NothingBlocks == "copy" \notin Faults /\ "cancel" \notin UICommands /\ MultiFile = {}

\* Then no worker is blocked, nor is anything cancelled.
NoneStuck ==
    /\ \A i \in Instances : ~ Stuck(i) /\ ~ dl[i].cancelled
    /\ \A r \in Requests : req[r].pc # "cancel_signal"

LEMMA NoneStuckStep ==
    ASSUME NothingBlocks, TypeOK, NoneStuck, [Next]_vars
    PROVE  NoneStuck'
<1>t. dl \in [Instances -> DlStates] /\ req \in [Requests -> ReqStates] BY DEF TypeOK
<1>n. /\ "copy" \notin Faults /\ "cancel" \notin UICommands /\ MultiFile = {}
      /\ \A i \in Instances : dl[i].pc # "stuck" /\ dl[i].cancelled = FALSE
      /\ \A r \in Requests : req[r].pc # "cancel_signal"
  BY <1>t DEF NothingBlocks, NoneStuck, Stuck, DlStates
<1> USE <1>t, <1>n DEF DlStates, ReqStates
<1>s. ASSUME UNCHANGED <<dl, req>> PROVE NoneStuck' BY <1>s DEF NoneStuck, Stuck
<1>1. ASSUME NEW i \in Instances, OrchNext(i) \/ NoteNext(i) \/ WatcherNext(i)
      PROVE  UNCHANGED <<dl, req>> \/ (UNCHANGED req /\ dl' = [dl EXCEPT ![i] = IdleDl])
  BY <1>1 DEF OrchNext, OrchList, OrchSelect, OrchUpsert, OrchDbFails, NoteNext, NoteReceives,
     NoteReceivesImported, NoteHandles, NoteDbFails, WatcherNext, WatcherSeesImport,
     WatcherRemoves
<1>2. ASSUME NEW i \in Instances, UNCHANGED req, dl' = [dl EXCEPT ![i] = IdleDl]
      PROVE  NoneStuck'
  BY <1>2 DEF IdleDl, NoneStuck, Stuck
<1>3. ASSUME NEW i \in Instances, DlNext(i) PROVE NoneStuck'
  <2> USE DEF Received, NoneStuck, Stuck, Returns
  <2>1. CASE DlReceivesPolled(i) BY <2>1 DEF DlReceivesPolled
  <2>2. ASSUME NEW r \in Requests, DlReceivesRequeued(i, r) PROVE NoneStuck'
    BY <2>2 DEF DlReceivesRequeued, DoneReq, NewReq
  <2>3. CASE DlGrabs(i) BY <2>3 DEF DlGrabs
  <2>4. CASE DlGrabFails(i) BY <2>4 DEF DlGrabFails
  <2>5. CASE DlOpenFails(i) BY <2>5 DEF DlOpenFails
  <2>6. CASE DlOpens(i) BY <2>6 DEF DlOpens
  <2>7. CASE DlCopies(i) BY <2>7 DEF DlCopies
  <2>8. ~ DlCopyBreaks(i) BY DEF DlCopyBreaks
  <2>9. ~ DlSiblingFails(i) BY DEF DlSiblingFails
  <2>10. CASE DlUnregisters(i) BY <2>10 DEF DlUnregisters
  <2> QED BY <1>3, <2>1, <2>2, <2>3, <2>4, <2>5, <2>6, <2>7, <2>8, <2>9, <2>10 DEF DlNext
<1>4. ASSUME NEW r \in Requests, UINext(r) PROVE NoneStuck'
  <2> DEFINE Moves == /\ \A q \in Requests : q # r => req'[q] = req[q]
                      /\ req'[r].pc # "cancel_signal"
  <2>m. ASSUME UNCHANGED dl, Moves PROVE NoneStuck' BY <2>m DEF NoneStuck, Stuck
  <2>2. ~ RequestCancel(r) /\ ~ CancelSignals(r) BY DEF RequestCancel, CancelSignals
  <2>1. ASSUME RequestRetry(r) \/ RequestDelete(r) \/ RequestReset(r) \/ RequestPurge(r)
      PROVE  NoneStuck'
    <3>1. ASSUME RequestRetry(r) PROVE UNCHANGED dl /\ Moves BY <3>1 DEF RequestRetry, Request
    <3>2. ASSUME RequestDelete(r) PROVE UNCHANGED dl /\ Moves BY <3>2 DEF RequestDelete, Request
    <3>3. ASSUME RequestReset(r) PROVE UNCHANGED dl /\ Moves BY <3>3 DEF RequestReset, Request
    <3>4. ASSUME RequestPurge(r) PROVE UNCHANGED dl /\ Moves BY <3>4 DEF RequestPurge, Request
    <3> HIDE DEF Moves
    <3> QED BY <2>1, <2>m, <3>1, <3>2, <3>3, <3>4
  <2>3. ASSUME RetryMarks(r) \/ RetryFinds(r) \/ RetryWipes(r) PROVE NoneStuck'
    <3>1. ASSUME RetryMarks(r) PROVE UNCHANGED dl /\ Moves BY <3>1 DEF RetryMarks, Goto
    <3>2. ASSUME RetryFinds(r) PROVE UNCHANGED dl /\ Moves BY <3>2 DEF RetryFinds, Goto
    <3>3. ASSUME RetryWipes(r) PROVE UNCHANGED dl /\ Moves BY <3>3 DEF RetryWipes, Goto
    <3> HIDE DEF Moves
    <3> QED BY <2>3, <2>m, <3>1, <3>2, <3>3
  <2>4. ASSUME RequeueLists(r) \/ RequeueSelects(r) \/ RequeueUpserts(r) PROVE NoneStuck'
    <3>1. ASSUME RequeueLists(r) PROVE UNCHANGED dl /\ Moves
      BY <3>1 DEF RequeueLists, Goto, Ends, DoneReq, NewReq
    <3>2. ASSUME RequeueSelects(r) PROVE UNCHANGED dl /\ Moves
      BY <3>2 DEF RequeueSelects, Goto, Ends, DoneReq, NewReq
    <3>3. ASSUME RequeueUpserts(r) PROVE UNCHANGED dl /\ Moves
      BY <3>3 DEF RequeueUpserts, Goto, Ends, DoneReq, NewReq
    <3> HIDE DEF Moves
    <3> QED BY <2>4, <2>m, <3>1, <3>2, <3>3
  <2>5. ASSUME DeletesPutio(r) \/ DeleteFinds(r) \/ DeleteWipes(r) \/ DeletesRow(r)
      PROVE  NoneStuck'
    <3>1. ASSUME DeletesPutio(r) PROVE UNCHANGED dl /\ Moves
      BY <3>1 DEF DeletesPutio, DeleteGoesOn, DoneReq, NewReq
    <3>2. ASSUME DeleteFinds(r) PROVE UNCHANGED dl /\ Moves
      <4>1. UNCHANGED dl /\ (Goto(r, "delete_wipe") \/ DeleteGoesOn(r, "local"))
        BY <3>2 DEF DeleteFinds
      <4>2. Goto(r, "delete_wipe") => Moves BY DEF Goto
      <4>3. DeleteGoesOn(r, "local") => Moves BY DEF DeleteGoesOn, DoneReq, NewReq
      <4> HIDE DEF Moves
      <4> QED BY <4>1, <4>2, <4>3
    <3>3. ASSUME DeleteWipes(r) PROVE UNCHANGED dl /\ Moves
      BY <3>3 DEF DeleteWipes, DeleteGoesOn, DoneReq, NewReq
    <3>4. ASSUME DeletesRow(r) PROVE UNCHANGED dl /\ Moves
      BY <3>4 DEF DeletesRow, DeleteGoesOn, DoneReq, NewReq
    <3> HIDE DEF Moves
    <3> QED BY <2>5, <2>m, <3>1, <3>2, <3>3, <3>4
  <2>6. ASSUME CancelMarks(r) \/ Resets(r) \/ Purges(r) \/ ReqFails(r) PROVE NoneStuck'
    <3>1. ASSUME CancelMarks(r) PROVE UNCHANGED dl /\ Moves
      BY <3>1 DEF CancelMarks, Ends, DoneReq, NewReq
    <3>2. ASSUME Resets(r) PROVE UNCHANGED dl /\ Moves BY <3>2 DEF Resets, Ends, DoneReq, NewReq
    <3>3. ASSUME Purges(r) PROVE UNCHANGED dl /\ Moves BY <3>3 DEF Purges, Ends, DoneReq, NewReq
    <3>4. ASSUME ReqFails(r) PROVE UNCHANGED dl /\ Moves
      BY <3>4 DEF ReqFails, Ends, DoneReq, NewReq
    <3> HIDE DEF Moves
    <3> QED BY <2>6, <2>m, <3>1, <3>2, <3>3, <3>4
  <2> QED BY <1>4, <2>1, <2>2, <2>3, <2>4, <2>5, <2>6 DEF UINext
<1>5. ASSUME NEW i \in Instances, Crash(i) PROVE NoneStuck'
  <2>1. \A j \in Instances : dl'[j] \in {dl[j], IdleDl} BY <1>5 DEF Crash
  <2>2. \A r \in Requests : req'[r] \in {req[r], DoneReq} BY <1>5 DEF Crash
  <2> QED BY <2>1, <2>2 DEF NoneStuck, Stuck, IdleDl, DoneReq, NewReq
<1>6. EnvNext => UNCHANGED <<dl, req>> \/ \E i \in Instances : Crash(i)
  BY DEF EnvNext, RemoteCompletes, RemoteRemoved, ArrImports
<1>7. UNCHANGED vars => UNCHANGED <<dl, req>> BY DEF vars
<1> QED BY <1>s, <1>1, <1>2, <1>3, <1>4, <1>5, <1>6, <1>7 DEF Next

\* Where nothing blocks a worker, and no fault loses a claim, every claimed row has a
\* goroutine that will report on it: also one it has to queue for, and for any processes,
\* transfers, retries, deletions, resets and purges (transfer.go:185-206, main.go:482-498).
THEOREM ClaimsAreReported ==
    ASSUME NoFaultLosesAClaim, NothingBlocks
    PROVE  Spec => [](\A t \in Transfers : status[t] = "downloading" => WillReport(t))
<1>1. Init => NoneStuck
  BY DEF Init, NoneStuck, Stuck, IdleDl, NewReq
<1>2. TypeOK /\ NoneStuck /\ [Next]_vars => NoneStuck' BY NoneStuckStep
<1>3. ClaimHeld /\ NoneStuck => \A t \in Transfers : status[t] = "downloading" => WillReport(t)
  BY HolderReportsOrWaits DEF ClaimHeld, NoneStuck, BehindStuck
<1> QED BY <1>1, <1>2, <1>3, ClaimHeldInvariant, PTL DEF Spec

-----------------------------------------------------------------------------
(* A transfer is in one hand only, while no command rewrites rows *)

NoCommands == \A r \in Requests : req[r].pc \in {"new", "done"}

OneHolder == \A t \in Transfers, i, j \in Instances :
    /\ OrchHolds(i, t) /\ OrchHolds(j, t) => i = j
    /\ DlHolds(i, t) /\ DlHolds(j, t) => i = j
    /\ NoteHolds(i, t) /\ NoteHolds(j, t) => i = j
    /\ ~(OrchHolds(i, t) /\ DlHolds(j, t))
    /\ ~(OrchHolds(i, t) /\ NoteHolds(j, t))
    /\ ~(DlHolds(i, t) /\ NoteHolds(j, t))

HolderClaimed == \A t \in Transfers, i \in Instances :
    OrchHolds(i, t) \/ DlHolds(i, t) \/ NoteHolds(i, t) =>
        status[t] = "downloading" /\ locked[t]

CustodyInv == NoCommands /\ OneHolder /\ HolderClaimed

LEMMA CustodySuffices == CustodyInv => SingleCustody
<1> SUFFICES ASSUME CustodyInv, NEW t \in Transfers
             PROVE  /\ \A a, b \in Holders(t) : a = b
                    /\ Holders(t) # {} => status[t] = "downloading" /\ locked[t]
  BY DEF SingleCustody
<1>1. \A r \in Requests : ~ReqHolds(r, t)
  BY DEF CustodyInv, NoCommands, ReqHolds
<1>2. ASSUME NEW a \in Holders(t), NEW b \in Holders(t) PROVE a = b
  <2> USE <1>1, <1>2 DEF CustodyInv, OneHolder
  <2>1. \/ \E i \in Instances : OrchHolds(i, t) /\ a = <<"orch", i>>
        \/ \E i \in Instances : DlHolds(i, t) /\ a = <<"dl", i>>
        \/ \E i \in Instances : NoteHolds(i, t) /\ a = <<"note", i>>
    BY DEF Holders
  <2>2. \/ \E i \in Instances : OrchHolds(i, t) /\ b = <<"orch", i>>
        \/ \E i \in Instances : DlHolds(i, t) /\ b = <<"dl", i>>
        \/ \E i \in Instances : NoteHolds(i, t) /\ b = <<"note", i>>
    BY DEF Holders
  <2> QED BY <2>1, <2>2
<1>3. Holders(t) # {} => status[t] = "downloading" /\ locked[t]
  BY <1>1, HeldMeansHolders DEF Held, CustodyInv, HolderClaimed
<1> QED BY <1>2, <1>3

\* Without commands no request does anything.
LEMMA NoUISteps ==
    ASSUME UICommands = {}, NoCommands, NEW r \in Requests
    PROVE  ~UINext(r) /\ \A i \in Instances : ~DlReceivesRequeued(i, r)
<1>1. req[r].pc \in {"new", "done"} BY DEF NoCommands
<1>2. ~UINext(r)
  BY <1>1 DEF UINext, RequestRetry, RequestCancel, RequestDelete, RequestReset,
     RequestPurge, RetryMarks, RetryFinds, RetryWipes, RequeueLists, RequeueSelects,
     RequeueUpserts, CancelSignals, CancelMarks, DeletesPutio,
     DeleteFinds, DeleteWipes, DeletesRow, Resets, Purges, ReqFails
<1> QED BY <1>1, <1>2 DEF DlReceivesRequeued

LEMMA CustodyStep ==
    ASSUME UICommands = {}, TypeOK, OutcomeKnown, CustodyInv, [Next]_vars
    PROVE  CustodyInv'
<1>u. NoCommands BY DEF CustodyInv
<1>t. /\ status \in [Transfers -> RowStates] /\ locked \in [Transfers -> BOOLEAN]
      /\ orch \in [Instances -> OrchStates]
      /\ dl \in [Instances -> DlStates]
      /\ note \in [Instances -> NoteStates]
  BY DEF TypeOK
<1>c. OneHolder /\ HolderClaimed BY DEF CustodyInv
<1> USE DEF OneHolder, HolderClaimed, OrchHolds, DlHolds, NoteHolds
<1>s. CASE UNCHANGED vars BY <1>s DEF vars, table, CustodyInv, NoCommands
<1>1. ASSUME NEW i \in Instances, OrchNext(i) PROVE CustodyInv'
  <2> USE <1>c, <1>t
  <2>0. /\ NoCommands'
        /\ UNCHANGED <<dl, note>>
        /\ \A j \in Instances \ {i} : orch'[j] = orch[j]
    BY <1>1, <1>u DEF OrchNext, OrchList, OrchSelect, OrchUpsert, OrchDbFails, NoCommands
  <2>1. CASE OrchUpsert(i) /\ Claimable(orch[i].cur)
    <3>1. /\ ~OrchHolds(i, orch[i].cur)
          /\ orch'[i].cur = orch[i].cur
          /\ \A t \in Transfers \ {orch[i].cur} :
                status'[t] = status[t] /\ locked'[t] = locked[t]
          /\ orch[i].cur \in Transfers =>
                status'[orch[i].cur] = "downloading" /\ locked'[orch[i].cur]
      BY <2>1 DEF OrchUpsert, Claim, OrchStates
    <3>2. orch[i].cur \in Transfers =>
            \A j \in Instances : /\ ~OrchHolds(j, orch[i].cur)
                                 /\ ~DlHolds(j, orch[i].cur)
                                 /\ ~NoteHolds(j, orch[i].cur)
      BY <2>1 DEF Claimable
    <3> QED BY <2>0, <3>1, <3>2 DEF CustodyInv
  <2>2. CASE ~(OrchUpsert(i) /\ Claimable(orch[i].cur))
    <3>1. UNCHANGED table /\ orch'[i].pc # "send"
      BY <1>1, <2>2 DEF OrchNext, OrchList, OrchSelect, OrchUpsert, OrchDbFails,
         OrchAfter, IdleOrch
    <3> QED BY <2>0, <3>1 DEF CustodyInv, table
  <2> QED BY <2>1, <2>2
<1>2. ASSUME NEW i \in Instances, DlNext(i) PROVE CustodyInv'
  <2> USE <1>c, <1>t
  <2>0. /\ ~\E r \in Requests : DlReceivesRequeued(i, r)
        /\ NoCommands'
        /\ UNCHANGED <<status, locked, note>>
    BY <1>2, <1>u, NoUISteps DEF DlNext, DlReceivesPolled, DlGrabs, DlGrabFails, DlOpenFails,
       DlOpens, DlCopies, DlCopyBreaks, DlSiblingFails, DlUnregisters, NoCommands, table
  <2>1. CASE DlReceivesPolled(i)
    <3>1. /\ dl'[i].pc = "grab" /\ dl'[i].cur = orch[i].cur /\ dl[i].pc = "idle"
          /\ orch[i].pc = "send" /\ orch'[i].pc # "send"
          /\ \A j \in Instances \ {i} : orch'[j] = orch[j] /\ dl'[j] = dl[j]
      BY <2>1 DEF DlReceivesPolled, Received, OrchAfter
    <3> QED BY <2>0, <3>1 DEF CustodyInv
  <2>2. CASE ~DlReceivesPolled(i)
    <3>1. /\ UNCHANGED orch
          /\ dl[i].pc # "idle"
          /\ \/ \E out \in Outcomes : Returns(i, out)
             \/ Sticks(i)
             \/ \E pc \in {"open", "copy"} : dl' = [dl EXCEPT ![i].pc = pc]
             \/ dl' = [dl EXCEPT ![i].pc = "report", ![i].cancelled = FALSE]
      BY <1>2, <2>0, <2>2 DEF DlNext, DlGrabs, DlGrabFails, DlOpenFails, DlOpens,
         DlCopies, DlCopyBreaks, DlSiblingFails, DlUnregisters, Outcomes
    <3>2. dl[i] \in DlStates OBVIOUS
    <3>3. /\ dl'[i].cur = dl[i].cur
          /\ \A j \in Instances \ {i} : dl'[j] = dl[j]
      BY <3>1, <3>2 DEF Returns, Sticks, DlStates
    <3> QED BY <2>0, <3>1, <3>3 DEF CustodyInv
  <2> QED BY <2>1, <2>2
<1>3. ASSUME NEW i \in Instances, NoteNext(i) PROVE CustodyInv'
  <2> USE <1>c, <1>t
  <2>0. NoCommands' /\ UNCHANGED orch /\ \A j \in Instances \ {i} : note'[j] = note[j]
    BY <1>3, <1>u DEF NoteNext, NoteReceives, NoteReceivesImported, NoteHandles,
       NoteDbFails, NoCommands
  <2>1. CASE NoteReceives(i)
    <3>1. /\ note'[i].ev \in Outcomes /\ note'[i].cur = dl[i].cur
          /\ dl[i].pc = "report" /\ dl'[i].pc = "idle"
          /\ \A j \in Instances \ {i} : dl'[j] = dl[j]
          /\ UNCHANGED <<status, locked>>
      BY <2>1 DEF NoteReceives, OutcomeKnown, IdleDl, table
    <3> QED BY <2>0, <3>1 DEF CustodyInv
  <2>2. ASSUME NEW u \in Transfers, NoteReceivesImported(i, u) PROVE CustodyInv'
    <3>1. note'[i].ev \notin Outcomes /\ UNCHANGED <<dl, status, locked>>
      BY <2>2 DEF NoteReceivesImported, Outcomes, table
    <3> QED BY <2>0, <3>1 DEF CustodyInv
  <2>3. CASE NoteHandles(i)
    <3>1. /\ note'[i].ev \notin Outcomes
          /\ UNCHANGED dl
          /\ \/ UNCHANGED table
             \/ /\ note[i].ev \in Outcomes
                /\ \E s : UpdateTransferStatus(note[i].cur, s)
      BY <2>3 DEF NoteHandles, HandleDownloadError, HandleTransferMissing,
         HandleDownloadFinished, HandleTransferImported, Outcomes, IdleNote
    <3>2. \A t \in Transfers \ {note[i].cur} :
             status'[t] = status[t] /\ locked'[t] = locked[t]
      BY <3>1 DEF UpdateTransferStatus, table
    <3>3. CASE UNCHANGED table BY <2>0, <3>1, <3>3 DEF CustodyInv, table
    <3>4. CASE note[i].ev \in Outcomes
      <4>1. OneHolder' BY <2>0, <3>1
      <4>2. HolderClaimed' BY <2>0, <3>1, <3>2, <3>4
      <4> QED BY <2>0, <4>1, <4>2 DEF CustodyInv
    <3> QED BY <3>1, <3>3, <3>4
  <2>4. CASE NoteDbFails(i)
    <3>1. note'[i].ev \notin Outcomes /\ UNCHANGED <<dl, status, locked>>
      BY <2>4 DEF NoteDbFails, Outcomes, IdleNote, table
    <3> QED BY <2>0, <3>1 DEF CustodyInv
  <2> QED BY <1>3, <2>1, <2>2, <2>3, <2>4 DEF NoteNext
<1>4. ASSUME NEW i \in Instances, WatcherNext(i) PROVE CustodyInv'
  <2>1. UNCHANGED <<status, locked, orch, dl, note, req>>
    BY <1>4 DEF WatcherNext, WatcherSeesImport, WatcherRemoves, table
  <2> QED BY <2>1 DEF CustodyInv, NoCommands
<1>5. ASSUME NEW r \in Requests, UINext(r) PROVE CustodyInv'
  BY <1>5, <1>u, NoUISteps
<1>6. CASE EnvNext
  <2>1. CASE ~\E i \in Instances : Crash(i)
    <3>1. UNCHANGED <<status, locked, orch, dl, note, req>>
      BY <1>6, <2>1 DEF EnvNext, RemoteCompletes, RemoteRemoved, ArrImports, table
    <3> QED BY <3>1 DEF CustodyInv, NoCommands
  <2>2. ASSUME NEW i \in Instances, Crash(i) PROVE CustodyInv'
    <3>1. /\ orch'[i].pc = "idle" /\ dl'[i].pc = "idle" /\ note'[i].ev \notin Outcomes
          /\ \A j \in Instances \ {i} :
                orch'[j] = orch[j] /\ dl'[j] = dl[j] /\ note'[j] = note[j]
          /\ UNCHANGED <<status, locked>>
      BY <2>2, <1>t DEF Crash, IdleOrch, IdleDl, IdleNote, Outcomes, table
    <3>2. NoCommands'
      BY <2>2, <1>u DEF Crash, NoCommands, DoneReq, NewReq
    <3> QED BY <1>c, <3>1, <3>2 DEF CustodyInv
  <2> QED BY <2>1, <2>2
<1> QED BY <1>s, <1>1, <1>2, <1>3, <1>4, <1>5, <1>6 DEF Next

LEMMA InitCustody == Init => CustodyInv
BY DEF Init, CustodyInv, NoCommands, OneHolder, HolderClaimed, OrchHolds, DlHolds,
       NoteHolds, IdleOrch, IdleDl, IdleNote, NewReq, Outcomes

\* Claims are exclusive with any number of processes polling one database,
\* whatever fails and whenever a process dies, until a UI command rewrites rows.
THEOREM CustodyIsSingle ==
    ASSUME UICommands = {}
    PROVE  Spec => []SingleCustody
<1>1. TypeOK /\ OutcomeKnown /\ CustodyInv /\ [Next]_vars => CustodyInv'
  BY CustodyStep
<1> QED
  BY <1>1, CustodySuffices, InitType, InitOutcome, InitCustody, TypeStep, OutcomeStep,
     PTL DEF Spec

-----------------------------------------------------------------------------
(* The rows of the table, under every command and every fault *)

\* How a step changes the table, if it does.
LEMMA TableShape ==
    ASSUME [Next]_vars, ~UNCHANGED table
    PROVE  \/ \E i \in Instances : OrchUpsert(i) /\ Claimable(orch[i].cur) /\ Claim(orch[i].cur)
           \/ \E r \in Requests : /\ RequeueUpserts(r)
                                  /\ Claimable(req[r].cur) /\ Claim(req[r].cur)
           \/ \E t, s : s # "downloading" /\ UpdateTransferStatus(t, s)
           \/ \E T : DeleteRows(T)
<1>s. ~UNCHANGED vars BY DEF vars, table
<1>1. ASSUME NEW i \in Instances, OrchNext(i)
      PROVE  OrchUpsert(i) /\ Claimable(orch[i].cur) /\ Claim(orch[i].cur)
  BY <1>1 DEF OrchNext, OrchList, OrchSelect, OrchUpsert, OrchDbFails
<1>2. ASSUME NEW i \in Instances PROVE ~DlNext(i)
  BY DEF DlNext, DlReceivesPolled, DlReceivesRequeued, DlGrabs, DlGrabFails, DlOpenFails, DlOpens,
     DlCopies, DlCopyBreaks, DlSiblingFails, DlUnregisters
<1>3. ASSUME NEW i \in Instances, NoteNext(i)
      PROVE  \E t, s : s # "downloading" /\ UpdateTransferStatus(t, s)
  BY <1>3 DEF NoteNext, NoteReceives, NoteReceivesImported, NoteHandles, NoteDbFails,
     HandleDownloadError, HandleTransferMissing, HandleDownloadFinished,
     HandleTransferImported
<1>4. ASSUME NEW i \in Instances PROVE ~WatcherNext(i)
  BY DEF WatcherNext, WatcherSeesImport, WatcherRemoves
<1>5. ASSUME NEW r \in Requests, UINext(r)
      PROVE  \/ /\ RequeueUpserts(r)
                /\ Claimable(req[r].cur) /\ Claim(req[r].cur)
             \/ \E t, s : s # "downloading" /\ UpdateTransferStatus(t, s)
             \/ \E T : DeleteRows(T)
  BY <1>5 DEF UINext, RequestRetry, RequestCancel, RequestDelete, RequestReset,
     RequestPurge, Request, RetryMarks, RetryFinds, RetryWipes, RequeueLists,
     RequeueSelects, RequeueUpserts, CancelSignals, CancelMarks,
     DeletesPutio, DeleteFinds, DeleteWipes, DeletesRow, Resets, Purges, ReqFails
<1>6. ~EnvNext BY DEF EnvNext, RemoteCompletes, RemoteRemoved, ArrImports, Crash
<1> QED BY <1>s, <1>1, <1>2, <1>3, <1>4, <1>5, <1>6 DEF Next

\* No command, fault or interleaving leaves a row locked that is not being
\* downloaded, or one being downloaded open to a second claim.
THEOREM LockFollowsStatus == Spec => []LockMatchesStatus
<1>1. Init => LockMatchesStatus BY DEF Init, LockMatchesStatus
<1>2. TypeOK /\ LockMatchesStatus /\ [Next]_vars => LockMatchesStatus'
  <2> SUFFICES ASSUME TypeOK, LockMatchesStatus, [Next]_vars PROVE LockMatchesStatus'
    OBVIOUS
  <2> USE DEF LockMatchesStatus
  <2>1. CASE UNCHANGED table BY <2>1 DEF table
  <2>2. ASSUME NEW t, Claim(t) PROVE LockMatchesStatus'
    BY <2>2 DEF Claim, TypeOK
  <2>3. ASSUME NEW t, NEW s, s # "downloading", UpdateTransferStatus(t, s)
        PROVE  LockMatchesStatus'
    BY <2>3 DEF UpdateTransferStatus, TypeOK
  <2>4. ASSUME NEW T, DeleteRows(T) PROVE LockMatchesStatus'
    BY <2>4 DEF DeleteRows, TypeOK
  <2> QED BY <2>1, <2>2, <2>3, <2>4, TableShape
<1> QED BY <1>1, <1>2, InitType, InitOutcome, TypeStep, OutcomeStep, PTL DEF Spec

\* A row the user deleted comes back by a claim only, never by a late report.
THEOREM RowsComeByClaim == Spec => RowsAppearByClaim
<1>1. ASSUME TypeOK, [Next]_vars, NEW t \in Transfers, status[t] = "none", status'[t] # "none"
      PROVE  /\ status'[t] = "downloading"
             /\ \/ \E i \in Instances : ~OrchHolds(i, t) /\ OrchHolds(i, t)'
                \/ \E r \in Requests : ~ReqHolds(r, t) /\ ReqHolds(r, t)'
  <2> USE <1>1
  <2>1. ~UNCHANGED table BY DEF table
  <2>2. ASSUME NEW u, NEW s PROVE ~UpdateTransferStatus(u, s)
    BY DEF UpdateTransferStatus, TypeOK
  <2>3. ASSUME NEW T PROVE ~DeleteRows(T)
    BY DEF DeleteRows
  <2>4. ASSUME NEW i \in Instances, OrchUpsert(i), Claimable(orch[i].cur), Claim(orch[i].cur)
        PROVE  status'[t] = "downloading" /\ ~OrchHolds(i, t) /\ OrchHolds(i, t)'
    <3>1. orch[i].cur = t /\ status'[t] = "downloading" BY <2>4 DEF Claim, TypeOK
    <3>2. orch[i].pc = "upsert" /\ orch' = [orch EXCEPT ![i].pc = "send"]
      BY <2>4 DEF OrchUpsert
    <3>3. orch[i] \in OrchStates BY DEF TypeOK
    <3>4. orch'[i] = [orch[i] EXCEPT !.pc = "send"] BY <3>2 DEF TypeOK
    <3> QED BY <3>1, <3>2, <3>3, <3>4 DEF OrchHolds, OrchStates
  <2>5. ASSUME NEW r \in Requests, RequeueUpserts(r), Claimable(req[r].cur), Claim(req[r].cur)
        PROVE  status'[t] = "downloading" /\ ~ReqHolds(r, t) /\ ReqHolds(r, t)'
    <3>1. req[r].cur = t /\ status'[t] = "downloading" BY <2>5 DEF Claim, TypeOK
    <3>2. req[r].pc = "requeue_upsert" /\ req' = [req EXCEPT ![r].pc = "requeue_send"]
      BY <2>5 DEF RequeueUpserts, Goto
    <3>3. req[r] \in ReqStates BY DEF TypeOK
    <3>4. req'[r] = [req[r] EXCEPT !.pc = "requeue_send"] BY <3>2 DEF TypeOK
    <3> QED BY <3>1, <3>2, <3>3, <3>4 DEF ReqHolds, ReqStates
  <2> QED BY <2>1, <2>2, <2>3, <2>4, <2>5, TableShape
<1>2. TypeOK /\ [Next]_vars =>
        [\A t \in Transfers : status[t] = "none" /\ status'[t] # "none" =>
           /\ status'[t] = "downloading"
           /\ \/ \E i \in Instances : ~OrchHolds(i, t) /\ OrchHolds(i, t)'
              \/ \E r \in Requests : ~ReqHolds(r, t) /\ ReqHolds(r, t)']_vars
  BY <1>1
<1> QED BY <1>2, InitType, InitOutcome, TypeStep, OutcomeStep, PTL DEF Spec, RowsAppearByClaim

-----------------------------------------------------------------------------
(* Import watchers *)

\* As long as no process dies, whatever the UI and other processes do, every
\* row that waits for its import has a watcher.
THEOREM WaitingIsWatched ==
    ASSUME "crash" \notin Faults
    PROVE  Spec => []WaitingHasWatcher
<1>1. Init => WaitingHasWatcher BY DEF Init, WaitingHasWatcher
<1>2. TypeOK /\ WaitingHasWatcher /\ [Next]_vars => WaitingHasWatcher'
  <2> SUFFICES ASSUME TypeOK, WaitingHasWatcher, [Next]_vars, NEW t \in Transfers,
                      status'[t] = "downloaded", NameOf[t] \notin history'
               PROVE  \E i \in Instances : waiting'[i][t] > 0
    BY DEF WaitingHasWatcher
  <2>t. waiting \in [Instances -> [Transfers -> Nat]] BY DEF TypeOK
  <2>h. history \subseteq history'
    <3>1. ASSUME NEW i \in Instances, OrchNext(i) \/ DlNext(i) \/ NoteNext(i) \/ WatcherNext(i)
          PROVE  UNCHANGED history
      BY <3>1 DEF OrchNext, OrchList, OrchSelect, OrchUpsert, OrchDbFails, DlNext,
         DlReceivesPolled, DlReceivesRequeued, DlGrabs, DlGrabFails, DlOpenFails, DlOpens, DlCopies,
         DlCopyBreaks, DlSiblingFails, DlUnregisters, NoteNext, NoteReceives,
         NoteReceivesImported, NoteHandles, NoteDbFails, WatcherNext, WatcherSeesImport,
         WatcherRemoves
    <3>2. ASSUME NEW r \in Requests, UINext(r) PROVE UNCHANGED history
      BY <3>2 DEF UINext, RequestRetry, RequestCancel, RequestDelete, RequestReset,
         RequestPurge, Request, RetryMarks, RetryFinds, RetryWipes, RequeueLists,
         RequeueSelects, RequeueUpserts, CancelSignals, CancelMarks,
         DeletesPutio, DeleteFinds, DeleteWipes, DeletesRow, Resets, Purges, ReqFails
    <3>3. CASE EnvNext
      BY <3>3 DEF EnvNext, RemoteCompletes, RemoteRemoved, ArrImports, Crash
    <3> QED BY <3>1, <3>2, <3>3 DEF Next, vars
  <2>1. NameOf[t] \notin history BY <2>h
  \* A watcher goes only once it sees the import, a row becomes downloaded
  \* only as its watcher starts.
  <2>2. ASSUME NEW j \in Instances, NoteHandles(j), note[j].ev = "finished", note[j].cur = t
        PROVE  waiting'[j][t] > 0
    <3>1. waiting' = [waiting EXCEPT ![j][t] = waiting[j][t] + 1]
      BY <2>2 DEF NoteHandles, HandleDownloadError, HandleTransferMissing,
         HandleDownloadFinished, HandleTransferImported
    <3>2. waiting'[j][t] = waiting[j][t] + 1 /\ waiting[j][t] \in Nat BY <2>t, <3>1
    <3> QED BY <3>2
  <2>3. ASSUME NEW j \in Instances, waiting[j][t] > 0 PROVE waiting'[j][t] > 0
    <3>1. ASSUME NEW i \in Instances, OrchNext(i) \/ DlNext(i) PROVE UNCHANGED waiting
      BY <3>1 DEF OrchNext, OrchList, OrchSelect, OrchUpsert, OrchDbFails, DlNext,
         DlReceivesPolled, DlReceivesRequeued, DlGrabs, DlGrabFails, DlOpenFails, DlOpens, DlCopies,
         DlCopyBreaks, DlSiblingFails, DlUnregisters, watchers
    <3>2. ASSUME NEW i \in Instances, NoteNext(i) PROVE waiting'[j][t] > 0
      <4>1. \/ UNCHANGED waiting
            \/ waiting' = [waiting EXCEPT ![i][note[i].cur] = waiting[i][note[i].cur] + 1]
        BY <3>2 DEF NoteNext, NoteReceives, NoteReceivesImported, NoteHandles, NoteDbFails,
           HandleDownloadError, HandleTransferMissing, HandleDownloadFinished,
           HandleTransferImported, watchers
      <4>2. waiting[j][t] \in Nat BY <2>t
      <4>3. CASE waiting' = [waiting EXCEPT ![i][note[i].cur] = waiting[i][note[i].cur] + 1]
        <5>1. CASE i = j /\ note[i].cur = t BY <2>t, <2>3, <4>2, <4>3, <5>1
        <5>2. CASE ~(i = j /\ note[i].cur = t)
          <6>1. waiting'[j][t] = waiting[j][t] BY <2>t, <4>3, <5>2
          <6> QED BY <2>3, <6>1
        <5> QED BY <5>1, <5>2
      <4> QED BY <2>3, <4>1, <4>3
    <3>3. ASSUME NEW i \in Instances, WatcherNext(i) PROVE waiting'[j][t] > 0
      <4>1. PICK u \in Transfers : WatcherSeesImport(i, u) \/ WatcherRemoves(i, u)
        BY <3>3 DEF WatcherNext
      <4>2. CASE WatcherSeesImport(i, u)
        <5>1. u # t /\ waiting' = [waiting EXCEPT ![i][u] = waiting[i][u] - 1]
          BY <2>1, <4>2 DEF WatcherSeesImport
        <5>2. waiting'[j][t] = waiting[j][t] BY <2>t, <5>1
        <5> QED BY <2>3, <5>2
      <4>3. CASE WatcherRemoves(i, u) BY <2>3, <4>3 DEF WatcherRemoves
      <4> QED BY <4>1, <4>2, <4>3
    <3>4. ASSUME NEW r \in Requests, UINext(r) PROVE UNCHANGED waiting
      BY <3>4 DEF UINext, RequestRetry, RequestCancel, RequestDelete, RequestReset,
         RequestPurge, Request, RetryMarks, RetryFinds, RetryWipes, RequeueLists,
         RequeueSelects, RequeueUpserts, CancelSignals, CancelMarks,
         DeletesPutio, DeleteFinds, DeleteWipes, DeletesRow, Resets, Purges, ReqFails,
         watchers
    <3>5. CASE EnvNext
      BY <2>3, <3>5 DEF EnvNext, RemoteCompletes, RemoteRemoved, ArrImports, Crash, watchers
    <3>6. CASE UNCHANGED vars BY <2>3, <3>6 DEF vars, watchers
    <3> QED BY <2>3, <3>1, <3>2, <3>3, <3>4, <3>5, <3>6 DEF Next
  <2>4. CASE status[t] = "downloaded"
    BY <2>1, <2>3, <2>4 DEF WaitingHasWatcher
  <2>5. CASE status[t] # "downloaded"
    <3>1. ~UNCHANGED table BY <2>5 DEF table
    <3>2. \E j \in Instances : NoteHandles(j) /\ note[j].ev = "finished" /\ note[j].cur = t
      <4>1. \/ \E j \in Instances : NoteNext(j)
            \/ \E r \in Requests : UINext(r) /\ \E T : DeleteRows(T)
            \/ \E u, s : s # "downloaded" /\ UpdateTransferStatus(u, s)
            \/ \E u : Claim(u)
        <5>1. ASSUME NEW r \in Requests, UINext(r)
              PROVE  \/ \E T : DeleteRows(T)
                     \/ \E u, s : s # "downloaded" /\ UpdateTransferStatus(u, s)
                     \/ \E u : Claim(u)
          BY <3>1, <5>1 DEF UINext, RequestRetry, RequestCancel, RequestDelete, RequestReset,
             RequestPurge, Request, RetryMarks, RetryFinds, RetryWipes, RequeueLists,
             RequeueSelects, RequeueUpserts, CancelSignals, CancelMarks,
             DeletesPutio, DeleteFinds, DeleteWipes, DeletesRow, Resets, Purges, ReqFails
        <5>2. ASSUME NEW i \in Instances, OrchNext(i) \/ DlNext(i) \/ WatcherNext(i)
              PROVE  \E u : Claim(u)
          BY <3>1, <5>2 DEF OrchNext, OrchList, OrchSelect, OrchUpsert, OrchDbFails, DlNext,
             DlReceivesPolled, DlReceivesRequeued, DlGrabs, DlGrabFails, DlOpenFails, DlOpens,
             DlCopies, DlCopyBreaks, DlSiblingFails, DlUnregisters, WatcherNext,
             WatcherSeesImport, WatcherRemoves
        <5>3. ~EnvNext
          BY <3>1 DEF EnvNext, RemoteCompletes, RemoteRemoved, ArrImports, Crash
        <5>4. ~UNCHANGED vars BY <3>1 DEF vars, table
        <5> QED BY <5>1, <5>2, <5>3, <5>4 DEF Next
      <4>2. ASSUME NEW T PROVE ~DeleteRows(T) BY <2>5 DEF DeleteRows
      <4>3. ASSUME NEW u, NEW s, s # "downloaded" PROVE ~UpdateTransferStatus(u, s)
        BY <2>5, <4>3 DEF UpdateTransferStatus, TypeOK
      <4>4. ASSUME NEW u PROVE ~Claim(u) BY <2>5 DEF Claim, TypeOK
      <4>5. PICK j \in Instances : NoteNext(j) BY <4>1, <4>2, <4>3, <4>4
      <4>6. NoteHandles(j) /\ note[j].ev = "finished"
        BY <3>1, <4>3, <4>5 DEF NoteNext, NoteReceives, NoteReceivesImported, NoteHandles,
           NoteDbFails, HandleDownloadError, HandleTransferMissing, HandleTransferImported,
           HandleDownloadFinished
      <4>7. UpdateTransferStatus(note[j].cur, "downloaded")
        BY <4>6 DEF NoteHandles, HandleDownloadError, HandleTransferMissing,
           HandleDownloadFinished, HandleTransferImported
      <4>8. note[j].cur = t BY <2>5, <4>7 DEF UpdateTransferStatus, TypeOK
      <4> QED BY <4>6, <4>8
    <3> QED BY <2>2, <3>2
  <2> QED BY <2>4, <2>5
<1> QED BY <1>1, <1>2, InitType, InitOutcome, TypeStep, OutcomeStep, PTL DEF Spec

-----------------------------------------------------------------------------
(* The assumption of the theorems below: a release has a name of its own *)

NamesDiffer == \A t, u \in Transfers : NameOf[t] = NameOf[u] => t = u

-----------------------------------------------------------------------------
(* The local copy agrees with what the row and the goroutines say of it *)

\* Nothing of the release was ever whole, or all of it is (or was imported).
Fresh(t) == disk[NameOf[t]] \in {"none", "partial"} /\ NameOf[t] \notin history
Kept(t) == disk[NameOf[t]] \in {"complete", "imported"} \/ NameOf[t] \in history

Fits(out, t) ==
    /\ out = "finished" => Kept(t)
    /\ out \in {"error", "missing"} => Fresh(t)

RowFits(t) ==
    /\ status[t] \in {"none", "pending", "failed"} => Fresh(t)
    /\ status[t] = "downloaded" => Kept(t)

HandFits(i, t) ==
    /\ OrchHolds(i, t) => Fresh(t)
    /\ dl[i].pc \in {"grab", "open", "copy", "stuck"} /\ dl[i].cur = t => Fresh(t)
    /\ dl[i].pc \in {"return", "report"} /\ dl[i].cur = t => Fits(dl[i].out, t)
    /\ NoteHolds(i, t) => Fits(note[i].ev, t)

WatcherFits(i, t) ==
    /\ waiting[i][t] > 0 \/ removing[i][t] > 0 => status[t] = "downloaded"
    /\ removing[i][t] > 0 => NameOf[t] \in history

HistoryFits == \A n \in history : disk[n] \in {"imported", "none"}

HandKnown(i) ==
    /\ orch[i].pc \in {"upsert", "send"} => orch[i].cur \in Transfers
    /\ dl[i].pc # "idle" => dl[i].cur \in Transfers

CopyInv ==
    /\ \A i \in Instances : HandKnown(i)
    /\ \A t \in Transfers : RowFits(t)
    /\ \A i \in Instances, t \in Transfers : HandFits(i, t) /\ WatcherFits(i, t)
    /\ HistoryFits

\* Nobody removes or truncates a release under its writer.
Unspoiled == \A i \in Instances : dl[i].pc = "copy" => i \notin spoiled

IInv == TypeOK /\ OutcomeKnown /\ CustodyInv /\ CopyInv /\ Unspoiled

LEMMA InitCopy == Init => CopyInv
BY NameAssumption DEF Init, CopyInv, HandKnown, RowFits, HandFits, WatcherFits,
       HistoryFits, Fits, Fresh, Kept, OrchHolds, NoteHolds, IdleOrch, IdleDl, IdleNote,
       NoWatchers, Outcomes

LEMMA InitUnspoiled == Init => Unspoiled
BY DEF Init, Unspoiled, IdleDl

-----------------------------------------------------------------------------
(* Each goroutine's step keeps the copies in agreement *)

\* The transfers whose copy, row and watchers a step leaves alone still fit.
LEMMA FrameFits ==
    ASSUME UNCHANGED <<disk, history>>, NEW t
    PROVE  /\ Fresh(t)' <=> Fresh(t)
           /\ Kept(t)' <=> Kept(t)
           /\ \A out : Fits(out, t)' <=> Fits(out, t)
<1>1. Fresh(t)' <=> Fresh(t) BY DEF Fresh
<1>2. Kept(t)' <=> Kept(t) BY DEF Kept
<1> QED BY <1>1, <1>2 DEF Fits

LEMMA OrchCopies ==
    ASSUME IInv, NEW i \in Instances, OrchNext(i)
    PROVE  CopyInv'
<1>t. /\ status \in [Transfers -> RowStates]
      /\ orch \in [Instances -> OrchStates]
  BY DEF IInv, TypeOK
<1>c. CopyInv BY DEF IInv
<1>0. /\ UNCHANGED <<disk, history, dl, note, waiting, removing>>
      /\ \A j \in Instances \ {i} : orch'[j] = orch[j]
  BY <1>t, OrchNext(i) DEF OrchNext, OrchList, OrchSelect, OrchUpsert, OrchDbFails, files, watchers
<1>f. \A t : /\ Fresh(t)' <=> Fresh(t)
             /\ Kept(t)' <=> Kept(t)
             /\ \A out : Fits(out, t)' <=> Fits(out, t)
  BY <1>0, FrameFits
<1>h. HistoryFits' BY <1>0, <1>c DEF CopyInv, HistoryFits
<1>k. \A j \in Instances : HandKnown(j)'
  <2>1. orch'[i].pc \in {"upsert", "send"} => orch'[i].cur \in Transfers
    <3>1. CASE OrchSelect(i)
      BY <1>t, <3>1 DEF OrchSelect, OrchStates, OrchAfter
    <3>2. CASE OrchUpsert(i)
      BY <1>t, <1>c, <3>2 DEF OrchUpsert, OrchStates, OrchAfter, CopyInv, HandKnown
    <3>3. CASE OrchList(i) \/ OrchDbFails(i)
      BY <1>t, <3>3 DEF OrchList, OrchDbFails, IdleOrch
    <3> QED BY <3>1, <3>2, <3>3 DEF OrchNext
  <2> QED BY <1>0, <1>c, <2>1 DEF CopyInv, HandKnown
<1>1. CASE OrchUpsert(i) /\ Claimable(orch[i].cur)
  <2> DEFINE t0 == orch[i].cur
  <2>1. /\ t0 \in Transfers
        /\ status[t0] \in {"none", "pending", "failed"}
        /\ status' = [status EXCEPT ![t0] = "downloading"]
        /\ orch'[i].cur = t0
    BY <1>1, <1>c, <1>t DEF OrchUpsert, Claimable, Claim, CopyInv, HandKnown, OrchStates
  <2>2. Fresh(t0) BY <1>c, <2>1 DEF CopyInv, RowFits
  <2> HIDE DEF t0
  <2>3. ASSUME NEW t \in Transfers PROVE RowFits(t)'
    BY <1>c, <1>t, <1>f, <2>1 DEF CopyInv, RowFits
  <2>4. ASSUME NEW j \in Instances, NEW t \in Transfers PROVE HandFits(j, t)'
    BY <1>c, <1>0, <1>f, <2>1, <2>2 DEF CopyInv, HandFits, OrchHolds, NoteHolds
  <2>5. ASSUME NEW j \in Instances, NEW t \in Transfers PROVE WatcherFits(j, t)'
    BY <1>c, <1>0, <1>t, <2>1 DEF CopyInv, WatcherFits
  <2> QED BY <1>h, <1>k, <2>3, <2>4, <2>5 DEF CopyInv
<1>2. CASE ~(OrchUpsert(i) /\ Claimable(orch[i].cur))
  <2>1. UNCHANGED status /\ orch'[i].pc # "send"
    BY <1>2, <1>t, OrchNext(i) DEF OrchNext, OrchList, OrchSelect, OrchUpsert, OrchDbFails,
       OrchAfter, IdleOrch, table, files
  <2>2. ASSUME NEW t \in Transfers PROVE RowFits(t)'
    BY <1>c, <1>f, <2>1 DEF CopyInv, RowFits
  <2>3. ASSUME NEW j \in Instances, NEW t \in Transfers PROVE HandFits(j, t)'
    BY <1>c, <1>0, <1>f, <2>1 DEF CopyInv, HandFits, OrchHolds, NoteHolds
  <2>4. ASSUME NEW j \in Instances, NEW t \in Transfers PROVE WatcherFits(j, t)'
    BY <1>c, <1>0, <2>1 DEF CopyInv, WatcherFits
  <2> QED BY <1>h, <1>k, <2>2, <2>3, <2>4 DEF CopyInv
<1> QED BY <1>1, <1>2

\* A step of the downloader after it received a transfer touches nothing but
\* that transfer's copy, and leaves it as the downloader's state says.
LEMMA DlShape ==
    ASSUME UICommands = {}, "listing" \notin Faults, IInv, NEW i \in Instances, NEW t,
           t = dl[i].cur,
           DlNext(i), ~DlReceivesPolled(i)
    PROVE  /\ dl[i].pc # "idle"
           /\ UNCHANGED <<status, history, orch, note, waiting, removing>>
           /\ \A j \in Instances \ {i} : dl'[j] = dl[j]
           /\ dl'[i].cur = t
           /\ dl'[i].pc # "idle"
           /\ \A n \in Names \ {NameOf[t]} : disk'[n] = disk[n]
           /\ UNCHANGED disk \/ NameOf[t] \notin history
           /\ HandFits(i, t)'
<1> DEFINE n == NameOf[t]
<1>t. /\ disk \in [Names -> DiskStates]
      /\ dl[i] \in DlStates
      /\ dl \in [Instances -> DlStates]
  BY DEF IInv, TypeOK
<1>c. CopyInv /\ CustodyInv /\ Unspoiled BY DEF IInv
<1>r. \A r \in Requests : ~DlReceivesRequeued(i, r) BY <1>c, NoUISteps DEF CustodyInv
<1>1. /\ dl[i].pc # "idle"
      /\ UNCHANGED <<status, history, orch, note, waiting, removing>>
      /\ \/ \E out \in Outcomes : Returns(i, out)
         \/ Sticks(i)
         \/ \E pc \in {"open", "copy"} : dl' = [dl EXCEPT ![i].pc = pc]
         \/ dl' = [dl EXCEPT ![i].pc = "report", ![i].cancelled = FALSE]
  BY DlNext(i), ~DlReceivesPolled(i), <1>r DEF DlNext, DlGrabs, DlGrabFails, DlOpenFails, DlOpens,
     DlCopies, DlCopyBreaks, DlSiblingFails, DlUnregisters, Outcomes, table, watchers
<1>2. /\ dl'[i].cur = t
      /\ dl'[i].pc # "idle"
      /\ \A j \in Instances \ {i} : dl'[j] = dl[j]
  BY <1>1, <1>t DEF Returns, Sticks, DlStates
<1>k. t \in Transfers /\ n \in Names
  BY <1>1, <1>c, NameAssumption DEF CopyInv, HandKnown
<1>h. /\ ~NoteHolds(i, t) /\ ~NoteHolds(i, t)'
      /\ ~OrchHolds(i, t) /\ ~OrchHolds(i, t)'
  <2>1. DlHolds(i, t) BY <1>1 DEF DlHolds
  <2>2. ~NoteHolds(i, t) /\ ~OrchHolds(i, t)
    BY <1>c, <1>k, <2>1 DEF CustodyInv, OneHolder
  <2> QED BY <1>1, <2>2 DEF NoteHolds, OrchHolds
\* While it downloads.
<1>3. CASE dl[i].pc \in {"grab", "open", "copy"}
  <2>1. Fresh(t) BY <1>3, <1>c, <1>k DEF CopyInv, HandFits
  <2>2. /\ \/ UNCHANGED disk
           \/ \E d \in {"none", "partial", "complete"} : disk' = [disk EXCEPT ![n] = d]
        /\ dl'[i].pc # "report"
    <3>1. ~DlUnregisters(i) BY <1>3 DEF DlUnregisters
    <3>2. \/ \E out \in Outcomes : Returns(i, out)
          \/ Sticks(i)
          \/ \E pc \in {"open", "copy"} : dl' = [dl EXCEPT ![i].pc = pc]
      BY DlNext(i), ~DlReceivesPolled(i), <1>r, <3>1 DEF DlNext, DlGrabs, DlGrabFails, DlOpenFails,
         DlOpens, DlCopies, DlCopyBreaks, DlSiblingFails, Outcomes
    <3>3. dl'[i].pc # "report" BY <1>t, <3>2 DEF Returns, Sticks, DlStates
    <3>4. \/ UNCHANGED disk
          \/ \E d \in {"none", "partial", "complete"} : disk' = [disk EXCEPT ![n] = d]
      BY DlNext(i), ~DlReceivesPolled(i), <1>r, <3>1 DEF DlNext, DlGrabs, DlGrabFails, DlOpenFails,
         DlOpens, DlCopies, DlCopyBreaks, DlSiblingFails, Wipe, Truncate, files
    <3> QED BY <3>3, <3>4
  <2>3. CASE DlCopies(i)
    <3>1. /\ dl'[i].pc = "return" /\ dl'[i].out = "finished"
          /\ disk'[n] = "complete"
      BY <2>3, <1>c, <1>t, <1>k DEF DlCopies, ListedShort, Returns, DlStates, Unspoiled
    <3>2. Fits("finished", t)' BY <3>1 DEF Fits, Kept
    <3>3. HandFits(i, t)' BY <1>2, <1>h, <3>1, <3>2 DEF HandFits
    <3> HIDE DEF n
    <3>4. \A m \in Names \ {n} : disk'[m] = disk[m] BY <2>2, <1>t
    <3> QED BY <1>1, <1>2, <2>1, <3>3, <3>4 DEF Fresh, n
  <2>4. CASE ~DlCopies(i)
    <3>1. disk'[n] \in {"none", "partial"}
      <4>1. UNCHANGED disk \/ disk' = [disk EXCEPT ![n] = "none"]
                           \/ disk' = [disk EXCEPT ![n] = "partial"]
        BY DlNext(i), ~DlReceivesPolled(i), <1>r, <1>3, <2>4 DEF DlNext, DlGrabs, DlGrabFails,
           DlOpenFails, DlOpens, DlCopyBreaks, DlSiblingFails, DlUnregisters, Wipe, Truncate, files
      <4> QED BY <4>1, <1>t, <1>k, <2>1 DEF Fresh
    <3>2. Fresh(t)' BY <1>1, <2>1, <3>1 DEF Fresh
    <3>3. dl'[i].pc = "return" => dl'[i].out \in {"error", "missing"}
      BY DlNext(i), ~DlReceivesPolled(i), <1>r, <1>t, <1>3, <2>4 DEF DlNext, DlGrabs, DlGrabFails,
         DlOpenFails, DlOpens, DlCopyBreaks, DlSiblingFails, DlUnregisters, Returns,
         Sticks, DlStates
    <3>4. dl'[i].pc = "return" => Fits(dl[i].out, t)' BY <3>2, <3>3 DEF Fits
    <3>5. HandFits(i, t)' BY <1>2, <1>h, <2>2, <3>2, <3>4 DEF HandFits
    <3> HIDE DEF n
    <3>6. \A m \in Names \ {n} : disk'[m] = disk[m] BY <2>2, <1>t
    <3> QED BY <1>1, <1>2, <2>1, <3>5, <3>6 DEF Fresh, n
  <2> QED BY <2>3, <2>4
\* Once it is done with it.
<1>4. CASE dl[i].pc \notin {"grab", "open", "copy"}
  <2>1. DlUnregisters(i)
    BY DlNext(i), ~DlReceivesPolled(i), <1>r, <1>4 DEF DlNext, DlGrabs, DlGrabFails, DlOpenFails,
       DlOpens, DlCopies, DlCopyBreaks, DlSiblingFails
  <2>2. /\ dl'[i].pc = "report" /\ dl'[i].out = dl[i].out /\ dl[i].pc = "return"
        /\ UNCHANGED disk
    BY <2>1, <1>t DEF DlUnregisters, DlStates, files
  <2>3. Fits(dl[i].out, t) BY <2>2, <1>c, <1>k DEF CopyInv, HandFits
  <2>4. Fits(dl[i].out, t)' BY <1>1, <2>2, <2>3, FrameFits
  <2>5. HandFits(i, t)' BY <1>2, <1>h, <2>2, <2>4 DEF HandFits
  <2> QED BY <1>1, <1>2, <2>2, <2>5
<1> QED BY <1>3, <1>4

LEMMA DlKeepsCopies ==
    ASSUME UICommands = {}, "listing" \notin Faults, NamesDiffer, IInv, NEW i \in Instances,
           DlNext(i)
    PROVE  CopyInv'
<1>t. /\ orch \in [Instances -> OrchStates]
      /\ dl \in [Instances -> DlStates]
  BY DEF IInv, TypeOK
<1>c. CopyInv /\ CustodyInv BY DEF IInv
<1>1. CASE DlReceivesPolled(i)
  <2>1. /\ UNCHANGED <<status, disk, history, note, waiting, removing>>
        /\ orch[i].pc = "send" /\ orch'[i].pc \notin {"send", "upsert"}
        /\ dl'[i].pc = "grab" /\ dl'[i].cur = orch[i].cur
        /\ \A j \in Instances \ {i} : orch'[j] = orch[j] /\ dl'[j] = dl[j]
    BY <1>1, <1>t DEF DlReceivesPolled, Received, OrchAfter, table, files, watchers
  <2>2. \A t : /\ Fresh(t)' <=> Fresh(t)
               /\ Kept(t)' <=> Kept(t)
               /\ \A out : Fits(out, t)' <=> Fits(out, t)
    BY <2>1, FrameFits
  <2>3. ASSUME NEW j \in Instances PROVE HandKnown(j)'
    BY <1>c, <2>1 DEF CopyInv, HandKnown
  <2>4. ASSUME NEW t \in Transfers PROVE RowFits(t)'
    BY <1>c, <2>1, <2>2 DEF CopyInv, RowFits
  <2>5. ASSUME NEW j \in Instances, NEW t \in Transfers PROVE HandFits(j, t)'
    <3>1. CASE j = i
      <4>1. orch'[i].cur = orch'[i].cur /\ ~OrchHolds(i, t)' BY <2>1 DEF OrchHolds
      <4>2. dl'[i].cur = t => Fresh(t)'
        BY <1>c, <2>1, <2>2 DEF CopyInv, HandFits, OrchHolds
      <4>3. NoteHolds(i, t)' => Fits(note[i].ev, t)'
        BY <1>c, <2>1, <2>2 DEF CopyInv, HandFits, NoteHolds
      <4> QED BY <2>1, <3>1, <4>1, <4>2, <4>3 DEF HandFits
    <3>2. CASE j # i
      <4>1. HandFits(j, t) BY <1>c DEF CopyInv
      <4> QED BY <2>1, <2>2, <3>2, <4>1 DEF HandFits, OrchHolds, NoteHolds
    <3> QED BY <3>1, <3>2
  <2>6. ASSUME NEW j \in Instances, NEW t \in Transfers PROVE WatcherFits(j, t)'
    BY <1>c, <2>1 DEF CopyInv, WatcherFits
  <2>7. HistoryFits' BY <1>c, <2>1 DEF CopyInv, HistoryFits
  <2> QED BY <2>3, <2>4, <2>5, <2>6, <2>7 DEF CopyInv
<1>2. CASE ~DlReceivesPolled(i)
  <2>1. PICK u : u = dl[i].cur OBVIOUS
  <2>2. /\ dl[i].pc # "idle"
        /\ UNCHANGED <<status, history, orch, note, waiting, removing>>
        /\ \A j \in Instances \ {i} : dl'[j] = dl[j]
        /\ dl'[i].cur = u /\ dl'[i].pc # "idle"
        /\ \A n \in Names \ {NameOf[u]} : disk'[n] = disk[n]
        /\ UNCHANGED disk \/ NameOf[u] \notin history
        /\ HandFits(i, u)'
    BY <1>2, <2>1, DlShape
  <2>3. u \in Transfers /\ DlHolds(i, u)
    BY <1>c, <2>1, <2>2 DEF CopyInv, HandKnown, DlHolds
  <2>4. status[u] = "downloading" BY <1>c, <2>3 DEF CustodyInv, HolderClaimed
  <2>5. ASSUME NEW t \in Transfers, t # u
        PROVE  /\ Fresh(t)' <=> Fresh(t)
               /\ Kept(t)' <=> Kept(t)
               /\ \A out : Fits(out, t)' <=> Fits(out, t)
    <3>1. disk'[NameOf[t]] = disk[NameOf[t]]
      BY <2>2, <2>3, <2>5, NameAssumption DEF NamesDiffer
    <3>2. Fresh(t)' <=> Fresh(t) BY <2>2, <3>1 DEF Fresh
    <3>3. Kept(t)' <=> Kept(t) BY <2>2, <3>1 DEF Kept
    <3> QED BY <3>2, <3>3 DEF Fits
  <2>6. ASSUME NEW j \in Instances PROVE HandKnown(j)'
    BY <1>c, <2>2, <2>3 DEF CopyInv, HandKnown
  <2>7. ASSUME NEW t \in Transfers PROVE RowFits(t)'
    BY <1>c, <2>2, <2>4, <2>5 DEF CopyInv, RowFits
  <2>8. ASSUME NEW j \in Instances, NEW t \in Transfers PROVE HandFits(j, t)'
    <3>1. CASE t = u /\ j = i BY <2>2, <3>1
    <3>2. CASE t = u /\ j # i
      <4>1. ~OrchHolds(j, t) /\ ~DlHolds(j, t) /\ ~NoteHolds(j, t)
        BY <1>c, <2>3, <3>2 DEF CustodyInv, OneHolder
      <4>2. dl'[j] = dl[j] BY <2>2, <3>2
      <4> QED BY <2>2, <4>1, <4>2 DEF HandFits, OrchHolds, NoteHolds, DlHolds
    <3>3. CASE t # u
      <4>1. HandFits(j, t) BY <1>c DEF CopyInv
      <4>2. j = i \/ dl'[j] = dl[j] BY <2>2
      <4> QED BY <2>1, <2>2, <2>5, <3>3, <4>1, <4>2 DEF HandFits, OrchHolds, NoteHolds
    <3> QED BY <3>1, <3>2, <3>3
  <2>9. ASSUME NEW j \in Instances, NEW t \in Transfers PROVE WatcherFits(j, t)'
    BY <1>c, <2>2 DEF CopyInv, WatcherFits
  <2>10. HistoryFits'
    <3>1. ASSUME NEW n \in history PROVE n \in Names
      BY <3>1 DEF IInv, TypeOK
    <3> QED BY <1>c, <2>2, <3>1 DEF CopyInv, HistoryFits
  <2> QED BY <2>6, <2>7, <2>8, <2>9, <2>10 DEF CopyInv
<1> QED BY <1>1, <1>2

LEMMA NoteCopies ==
    ASSUME IInv, NEW i \in Instances, NoteNext(i)
    PROVE  CopyInv'
<1>t. /\ status \in [Transfers -> RowStates]
      /\ waiting \in [Instances -> [Transfers -> Nat]]
      /\ note \in [Instances -> NoteStates]
      /\ dl \in [Instances -> DlStates]
  BY DEF IInv, TypeOK
<1>c. CopyInv /\ CustodyInv /\ OutcomeKnown BY DEF IInv
<1>0. /\ UNCHANGED <<disk, history, orch, removing>>
      /\ \A j \in Instances \ {i} : note'[j] = note[j]
  BY <1>t, NoteNext(i) DEF NoteNext, NoteReceives, NoteReceivesImported, NoteHandles,
     NoteDbFails, files, watchers
<1>f. \A t : /\ Fresh(t)' <=> Fresh(t)
             /\ Kept(t)' <=> Kept(t)
             /\ \A out : Fits(out, t)' <=> Fits(out, t)
  BY <1>0, FrameFits
<1>h. HistoryFits' BY <1>0, <1>c DEF CopyInv, HistoryFits
<1>1. CASE NoteReceives(i)
  <2>1. /\ UNCHANGED <<status, waiting>>
        /\ \A j \in Instances \ {i} : dl'[j] = dl[j]
        /\ dl'[i].pc = "idle" /\ dl[i].pc = "report"
        /\ note'[i].ev = dl[i].out /\ note'[i].cur = dl[i].cur
    BY <1>1, <1>t DEF NoteReceives, IdleDl, table, files, watchers
  <2>2. ASSUME NEW j \in Instances PROVE HandKnown(j)'
    BY <1>c, <1>0, <2>1 DEF CopyInv, HandKnown
  <2>3. ASSUME NEW t \in Transfers PROVE RowFits(t)'
    BY <1>c, <1>f, <2>1 DEF CopyInv, RowFits
  <2>4. ASSUME NEW j \in Instances, NEW t \in Transfers PROVE HandFits(j, t)'
    <3>1. HandFits(j, t) BY <1>c DEF CopyInv
    <3>2. CASE j = i
      BY <1>0, <1>f, <2>1, <3>1, <3>2 DEF HandFits, OrchHolds, NoteHolds
    <3>3. CASE j # i
      BY <1>0, <1>f, <2>1, <3>1, <3>3 DEF HandFits, OrchHolds, NoteHolds
    <3> QED BY <3>2, <3>3
  <2>5. ASSUME NEW j \in Instances, NEW t \in Transfers PROVE WatcherFits(j, t)'
    BY <1>c, <1>0, <2>1 DEF CopyInv, WatcherFits
  <2> QED BY <1>h, <2>2, <2>3, <2>4, <2>5 DEF CopyInv
<1>2. CASE ~NoteReceives(i)
  <2>1. UNCHANGED dl /\ note'[i].ev \notin Outcomes
    BY <1>2, <1>t, NoteNext(i) DEF NoteNext, NoteReceivesImported, NoteHandles, NoteDbFails,
       IdleNote, Outcomes
  <2>2. ASSUME NEW j \in Instances PROVE HandKnown(j)'
    BY <1>c, <1>0, <2>1 DEF CopyInv, HandKnown
  <2>3. ASSUME NEW j \in Instances, NEW t \in Transfers PROVE HandFits(j, t)'
    BY <1>c, <1>0, <1>f, <2>1 DEF CopyInv, HandFits, OrchHolds, NoteHolds
  <2>4. CASE UNCHANGED <<status, waiting>>
    <3>1. ASSUME NEW t \in Transfers PROVE RowFits(t)'
      BY <1>c, <1>f, <2>4 DEF CopyInv, RowFits
    <3>2. ASSUME NEW j \in Instances, NEW t \in Transfers PROVE WatcherFits(j, t)'
      BY <1>c, <1>0, <2>4 DEF CopyInv, WatcherFits
    <3> QED BY <1>h, <2>2, <2>3, <3>1, <3>2 DEF CopyInv
  <2>5. ASSUME ~UNCHANGED <<status, waiting>> PROVE CopyInv'
    <3>1. NoteHandles(i) /\ note[i].ev \in Outcomes
      BY <1>2, <2>5, NoteNext(i) DEF NoteNext, NoteReceivesImported, NoteHandles, NoteDbFails,
         HandleDownloadError, HandleTransferMissing, HandleDownloadFinished,
         HandleTransferImported, Outcomes, table, files, watchers
    <3>2. PICK u : u = note[i].cur OBVIOUS
    <3>3. u \in Transfers => status[u] = "downloading"
      BY <1>c, <3>1, <3>2 DEF CustodyInv, HolderClaimed, NoteHolds
    <3>4. /\ \A t \in Transfers \ {u} : status'[t] = status[t]
          /\ u \in Transfers =>
               \/ note[i].ev = "finished" /\ status'[u] = "downloaded"
               \/ note[i].ev # "finished" /\ status'[u] \in {"failed", "missing"}
                  /\ UNCHANGED waiting
      BY <1>t, <3>1, <3>2, <3>3 DEF NoteHandles, HandleDownloadError,
         HandleTransferMissing, HandleDownloadFinished, HandleTransferImported,
         UpdateTransferStatus, Outcomes
    <3>5. ASSUME NEW j \in Instances, NEW t \in Transfers, t # u \/ UNCHANGED waiting
          PROVE  waiting'[j][t] = waiting[j][t]
      BY <1>t, <3>1, <3>2, <3>5 DEF NoteHandles, HandleDownloadError,
         HandleTransferMissing, HandleDownloadFinished, HandleTransferImported
    <3>6. u \in Transfers => Fits(note[i].ev, u)
      BY <1>c, <3>1, <3>2 DEF CopyInv, HandFits, NoteHolds
    <3>7. ASSUME NEW t \in Transfers PROVE RowFits(t)'
      BY <1>c, <1>f, <3>1, <3>4, <3>6 DEF CopyInv, RowFits, Fits, Outcomes
    <3>8. ASSUME NEW j \in Instances, NEW t \in Transfers PROVE WatcherFits(j, t)'
      BY <1>c, <1>0, <3>3, <3>4, <3>5 DEF CopyInv, WatcherFits
    <3> QED BY <1>h, <2>2, <2>3, <3>7, <3>8 DEF CopyInv
  <2> QED BY <2>4, <2>5
<1> QED BY <1>1, <1>2

LEMMA WatcherCopies ==
    ASSUME NamesDiffer, IInv, NEW i \in Instances, WatcherNext(i)
    PROVE  CopyInv'
<1>t. /\ disk \in [Names -> DiskStates]
      /\ waiting \in [Instances -> [Transfers -> Nat]]
      /\ removing \in [Instances -> [Transfers -> Nat]]
  BY DEF IInv, TypeOK
<1>c. CopyInv BY DEF IInv
<1>0. UNCHANGED <<status, history, orch, dl, note>>
  BY WatcherNext(i) DEF WatcherNext, WatcherSeesImport, WatcherRemoves, table, files
<1>k. \A j \in Instances : HandKnown(j)' BY <1>c, <1>0 DEF CopyInv, HandKnown
<1>1. ASSUME NEW u \in Transfers, WatcherSeesImport(i, u) PROVE CopyInv'
  <2>1. UNCHANGED disk BY <1>1 DEF WatcherSeesImport, files
  <2>2. \A t : /\ Fresh(t)' <=> Fresh(t)
               /\ Kept(t)' <=> Kept(t)
               /\ \A out : Fits(out, t)' <=> Fits(out, t)
    BY <1>0, <2>1, FrameFits
  <2>3. waiting[i][u] > 0 /\ NameOf[u] \in history /\ status[u] = "downloaded"
    BY <1>1, <1>c DEF WatcherSeesImport, CopyInv, WatcherFits
  <2>4. ASSUME NEW j \in Instances, NEW t \in Transfers
        PROVE  \/ j = i /\ t = u
               \/ waiting'[j][t] = waiting[j][t] /\ removing'[j][t] = removing[j][t]
    BY <1>1, <1>t DEF WatcherSeesImport
  <2>5. ASSUME NEW t \in Transfers PROVE RowFits(t)'
    BY <1>c, <1>0, <2>2 DEF CopyInv, RowFits
  <2>6. ASSUME NEW j \in Instances, NEW t \in Transfers PROVE HandFits(j, t)'
    BY <1>c, <1>0, <2>2 DEF CopyInv, HandFits, OrchHolds, NoteHolds
  <2>7. ASSUME NEW j \in Instances, NEW t \in Transfers PROVE WatcherFits(j, t)'
    BY <1>c, <1>0, <2>3, <2>4 DEF CopyInv, WatcherFits
  <2>8. HistoryFits' BY <1>c, <1>0, <2>1 DEF CopyInv, HistoryFits
  <2> QED BY <1>k, <2>5, <2>6, <2>7, <2>8 DEF CopyInv
<1>2. ASSUME NEW u \in Transfers, WatcherRemoves(i, u) PROVE CopyInv'
  <2>1. /\ disk' = [disk EXCEPT ![NameOf[u]] = "none"]
        /\ UNCHANGED waiting
    BY <1>2 DEF WatcherRemoves, Wipe
  <2>2. NameOf[u] \in history /\ status[u] = "downloaded"
    BY <1>2, <1>c DEF WatcherRemoves, CopyInv, WatcherFits
  <2>3. ASSUME NEW t \in Transfers
        PROVE  Fresh(t) => Fresh(t)'
    BY <1>0, <1>t, <2>1, <2>2, NameAssumption DEF Fresh
  <2>4. ASSUME NEW t \in Transfers
        PROVE  Kept(t) => Kept(t)'
    <3>1. CASE t = u BY <1>0, <2>2, <3>1 DEF Kept
    <3>2. CASE t # u
      <4>1. NameOf[t] # NameOf[u] BY <3>2 DEF NamesDiffer
      <4> QED BY <1>0, <1>t, <2>1, <4>1, NameAssumption DEF Kept
    <3> QED BY <3>1, <3>2
  <2>5. ASSUME NEW t \in Transfers, NEW out PROVE Fits(out, t) => Fits(out, t)'
    BY <2>3, <2>4 DEF Fits
  <2>6. ASSUME NEW t \in Transfers PROVE RowFits(t)'
    BY <1>c, <1>0, <2>3, <2>4 DEF CopyInv, RowFits
  <2>7. ASSUME NEW j \in Instances, NEW t \in Transfers PROVE HandFits(j, t)'
    <3>1. HandFits(j, t) BY <1>c DEF CopyInv
    <3>2. /\ Fits(dl[j].out, t) => Fits(dl[j].out, t)'
          /\ Fits(note[j].ev, t) => Fits(note[j].ev, t)'
      BY <1>0, <2>3, <2>4 DEF Fits
    <3> QED BY <1>0, <2>3, <3>1, <3>2 DEF HandFits, OrchHolds, NoteHolds
  <2>8. ASSUME NEW j \in Instances, NEW t \in Transfers PROVE WatcherFits(j, t)'
    <3>1. PICK k : removing' = [removing EXCEPT ![i][u] = k]
      BY <1>2 DEF WatcherRemoves
    <3>2. removing'[j][t] = removing[j][t] \/ (j = i /\ t = u)
      BY <1>t, <3>1
    <3> QED BY <1>c, <1>0, <2>1, <2>2, <3>2 DEF CopyInv, WatcherFits
  <2>9. HistoryFits'
    <3>1. ASSUME NEW n \in history PROVE n \in Names
      BY <3>1 DEF IInv, TypeOK
    <3> QED BY <1>c, <1>0, <1>t, <2>1, <3>1 DEF CopyInv, HistoryFits
  <2> QED BY <1>k, <2>6, <2>7, <2>8, <2>9 DEF CopyInv
<1> QED BY <1>1, <1>2, WatcherNext(i) DEF WatcherNext

LEMMA EnvCopies ==
    ASSUME IInv, EnvNext
    PROVE  CopyInv'
<1>t. /\ disk \in [Names -> DiskStates]
      /\ orch \in [Instances -> OrchStates]
      /\ dl \in [Instances -> DlStates]
      /\ note \in [Instances -> NoteStates]
      /\ waiting \in [Instances -> [Transfers -> Nat]]
      /\ removing \in [Instances -> [Transfers -> Nat]]
  BY DEF IInv, TypeOK
<1>c. CopyInv BY DEF IInv
<1>1. ASSUME NEW n \in Names, ArrImports(n) PROVE CopyInv'
  <2>1. /\ disk[n] = "complete" /\ disk' = [disk EXCEPT ![n] = "imported"]
        /\ history' = history \cup {n}
        /\ UNCHANGED <<status, orch, dl, note, waiting, removing>>
    BY <1>1 DEF ArrImports, table, files, watchers
  <2>2. ASSUME NEW t \in Transfers PROVE Fresh(t) => Fresh(t)'
    BY <1>t, <2>1, NameAssumption DEF Fresh
  <2>3. ASSUME NEW t \in Transfers PROVE Kept(t) => Kept(t)'
    BY <1>t, <2>1, NameAssumption DEF Kept
  <2>4. ASSUME NEW t \in Transfers PROVE RowFits(t)'
    BY <1>c, <2>1, <2>2, <2>3 DEF CopyInv, RowFits
  <2>5. ASSUME NEW j \in Instances, NEW t \in Transfers PROVE HandFits(j, t)'
    <3>1. HandFits(j, t) BY <1>c DEF CopyInv
    <3>2. /\ Fits(dl[j].out, t) => Fits(dl[j].out, t)'
          /\ Fits(note[j].ev, t) => Fits(note[j].ev, t)'
      BY <2>1, <2>2, <2>3 DEF Fits
    <3> QED BY <2>1, <2>2, <3>1, <3>2 DEF HandFits, OrchHolds, NoteHolds
  <2>6. ASSUME NEW j \in Instances, NEW t \in Transfers PROVE WatcherFits(j, t)'
    BY <1>c, <2>1 DEF CopyInv, WatcherFits
  <2>7. HistoryFits'
    <3>1. ASSUME NEW m \in history PROVE m \in Names
      BY <3>1 DEF IInv, TypeOK
    <3> QED BY <1>c, <1>t, <2>1, <3>1 DEF CopyInv, HistoryFits
  <2>8. ASSUME NEW j \in Instances PROVE HandKnown(j)'
    BY <1>c, <2>1 DEF CopyInv, HandKnown
  <2> QED BY <2>4, <2>5, <2>6, <2>7, <2>8 DEF CopyInv
<1>2. CASE ~\E n \in Names : ArrImports(n)
  <2>1. UNCHANGED <<status, disk, history>>
    BY <1>2, EnvNext DEF EnvNext, RemoteCompletes, RemoteRemoved, Crash, table, files
  <2>2. \A t : /\ Fresh(t)' <=> Fresh(t)
               /\ Kept(t)' <=> Kept(t)
               /\ \A out : Fits(out, t)' <=> Fits(out, t)
    BY <2>1, FrameFits
  <2>3. ASSUME NEW j \in Instances
        PROVE  \/ /\ orch'[j] = orch[j] /\ dl'[j] = dl[j] /\ note'[j] = note[j]
                  /\ waiting'[j] = waiting[j] /\ removing'[j] = removing[j]
               \/ /\ orch'[j] = IdleOrch /\ dl'[j] = IdleDl /\ note'[j] = IdleNote
                  /\ waiting'[j] = NoWatchers /\ removing'[j] = NoWatchers
    BY <1>2, <1>t, EnvNext DEF EnvNext, RemoteCompletes, RemoteRemoved, Crash, watchers
  <2>4. ASSUME NEW t \in Transfers PROVE RowFits(t)'
    BY <1>c, <2>1, <2>2 DEF CopyInv, RowFits
  <2>5. ASSUME NEW j \in Instances, NEW t \in Transfers PROVE HandFits(j, t)'
    <3>1. HandFits(j, t) BY <1>c DEF CopyInv
    <3> QED BY <2>2, <2>3, <3>1 DEF HandFits, OrchHolds, NoteHolds, IdleOrch, IdleDl,
            IdleNote, Outcomes
  <2>6. ASSUME NEW j \in Instances, NEW t \in Transfers PROVE WatcherFits(j, t)'
    BY <1>c, <2>1, <2>3 DEF CopyInv, WatcherFits, NoWatchers
  <2>7. ASSUME NEW j \in Instances PROVE HandKnown(j)'
    BY <1>c, <2>3 DEF CopyInv, HandKnown, IdleOrch, IdleDl
  <2>8. HistoryFits' BY <1>c, <2>1 DEF CopyInv, HistoryFits
  <2> QED BY <2>4, <2>5, <2>6, <2>7, <2>8 DEF CopyInv
<1> QED BY <1>1, <1>2

\* The one who has a transfer in hand is the only one to write its release.
LEMMA WritesAlone ==
    ASSUME NamesDiffer, IInv, NEW t \in Transfers, NEW i \in Instances, DlHolds(i, t)
    PROVE  Copying(NameOf[t]) \subseteq {i}
<1> SUFFICES ASSUME NEW j \in Instances, dl[j].pc = "copy", NameOf[dl[j].cur] = NameOf[t]
             PROVE  j = i
  BY DEF Copying
<1>1. dl[j].cur \in Transfers BY DEF IInv, CopyInv, HandKnown
<1>2. DlHolds(j, t) BY <1>1 DEF NamesDiffer, DlHolds
<1> QED BY <1>2 DEF IInv, CustodyInv, OneHolder

LEMMA NobodyWrites ==
    ASSUME NamesDiffer, IInv, NEW t \in Transfers, status[t] # "downloading"
    PROVE  Copying(NameOf[t]) = {}
<1>1. ASSUME NEW j \in Instances, dl[j].pc = "copy", NameOf[dl[j].cur] = NameOf[t]
      PROVE  FALSE
  <2>1. dl[j].cur \in Transfers BY <1>1 DEF IInv, CopyInv, HandKnown
  <2>2. DlHolds(j, t) BY <1>1, <2>1 DEF NamesDiffer, DlHolds
  <2> QED BY <2>2 DEF IInv, CustodyInv, HolderClaimed
<1> QED BY <1>1 DEF Copying

LEMMA UnspoiledStep ==
    ASSUME UICommands = {}, "listing" \notin Faults, NamesDiffer, IInv, [Next]_vars
    PROVE  Unspoiled'
<1>t. /\ dl \in [Instances -> DlStates]
      /\ dl' \in [Instances -> DlStates]
  BY TypeStep DEF IInv, TypeOK
<1>c. CopyInv /\ CustodyInv /\ Unspoiled BY DEF IInv
<1>1. ASSUME NEW i \in Instances, DlNext(i) PROVE Unspoiled'
  <2>1. CASE DlReceivesPolled(i)
    BY <1>c, <1>t, <2>1 DEF DlReceivesPolled, Received, Unspoiled, files
  <2>2. ASSUME ~DlReceivesPolled(i) PROVE Unspoiled'
    <3>1. PICK t : t = dl[i].cur OBVIOUS
    <3>2. dl[i].pc # "idle" /\ \A j \in Instances \ {i} : dl'[j] = dl[j]
      BY <1>1, <2>2, <3>1, DlShape
    <3>3. t \in Transfers /\ DlHolds(i, t)
      BY <1>c, <3>1, <3>2 DEF CopyInv, HandKnown, DlHolds
    <3>4. Copying(NameOf[t]) \subseteq {i} BY <3>3, WritesAlone
    <3>5. spoiled' \subseteq spoiled \cup {i}
      BY <1>1, <1>c, <2>2, <3>1, <3>4, NoUISteps DEF DlNext, DlGrabs, DlGrabFails, DlOpenFails,
         DlOpens, DlCopies, DlCopyBreaks, DlSiblingFails, DlUnregisters, CustodyInv, Wipe,
         Truncate, files
    <3>6. dl'[i].pc = "copy" => i \notin spoiled'
      <4>1. CASE DlOpens(i) BY <4>1 DEF DlOpens, Truncate
      <4>2. CASE ~DlOpens(i)
        <5>1. dl'[i].pc # "copy"
          BY <1>1, <1>c, <1>t, <2>2, <4>2, NoUISteps DEF DlNext, DlGrabs, DlGrabFails, DlOpenFails,
             DlCopies, DlCopyBreaks, DlSiblingFails, DlUnregisters, CustodyInv, Returns,
             Sticks, DlStates
        <5> QED BY <5>1
      <4> QED BY <4>1, <4>2
    <3> QED BY <1>c, <3>2, <3>5, <3>6 DEF Unspoiled
  <2> QED BY <2>1, <2>2
<1>2. ASSUME NEW i \in Instances, WatcherNext(i) PROVE Unspoiled'
  <2>1. ASSUME NEW t \in Transfers, WatcherRemoves(i, t) PROVE Unspoiled'
    <3>1. status[t] = "downloaded"
      BY <1>c, <2>1 DEF WatcherRemoves, CopyInv, WatcherFits
    <3>2. Copying(NameOf[t]) = {} BY <3>1, NobodyWrites
    <3> QED BY <1>c, <2>1, <3>2 DEF WatcherRemoves, Wipe, Unspoiled
  <2>2. ASSUME NEW t \in Transfers, WatcherSeesImport(i, t) PROVE Unspoiled'
    BY <1>c, <2>2 DEF WatcherSeesImport, Unspoiled, files
  <2> QED BY <1>2, <2>1, <2>2 DEF WatcherNext
<1>3. ASSUME NEW i \in Instances, OrchNext(i) PROVE Unspoiled'
  BY <1>c, <1>3 DEF OrchNext, OrchList, OrchSelect, OrchUpsert, OrchDbFails, Unspoiled, files
<1>4. ASSUME NEW i \in Instances, NoteNext(i) PROVE Unspoiled'
  BY <1>c, <1>t, <1>4 DEF NoteNext, NoteReceives, NoteReceivesImported, NoteHandles,
     NoteDbFails, IdleDl, Unspoiled, files
<1>5. CASE EnvNext
  BY <1>c, <1>t, <1>5 DEF EnvNext, RemoteCompletes, RemoteRemoved, ArrImports, Crash, IdleDl,
     Unspoiled, files
<1>6. CASE UNCHANGED vars BY <1>c, <1>6 DEF vars, Unspoiled
<1> QED BY <1>c, <1>1, <1>2, <1>3, <1>4, <1>5, <1>6, NoUISteps DEF Next, CustodyInv

LEMMA CopyStep ==
    ASSUME UICommands = {}, "listing" \notin Faults, NamesDiffer, IInv, [Next]_vars
    PROVE  CopyInv'
<1>1. CASE UNCHANGED vars
  BY <1>1 DEF vars, IInv, CopyInv, HandKnown, RowFits, HandFits, WatcherFits,
     HistoryFits, Fits, Fresh, Kept, OrchHolds, NoteHolds
<1>2. NoCommands BY DEF IInv, CustodyInv
<1> QED BY <1>1, <1>2, OrchCopies, DlKeepsCopies, NoteCopies, WatcherCopies, EnvCopies,
           NoUISteps DEF Next

\* The inductive invariant behind what is said of local copies.
LEMMA IInvInvariant ==
    ASSUME UICommands = {}, "listing" \notin Faults, NamesDiffer
    PROVE  Spec => []IInv
<1>1. Init => IInv BY InitType, InitOutcome, InitCustody, InitCopy, InitUnspoiled DEF IInv
<1>2. IInv /\ [Next]_vars => IInv'
  BY TypeStep, OutcomeStep, CustodyStep, CopyStep, UnspoiledStep DEF IInv
<1> QED BY <1>1, <1>2, PTL DEF Spec

-----------------------------------------------------------------------------
(* What a row says, and what may be deleted *)

\* With any number of processes and any faults, a row says downloaded only
\* while its release is on disk or was imported.
THEOREM DownloadedStaysLocal ==
    ASSUME UICommands = {}, "listing" \notin Faults, NamesDiffer
    PROVE  Spec => []DownloadedIsLocal
<1>1. IInv => DownloadedIsLocal
  BY DEF IInv, CopyInv, RowFits, Kept, DownloadedIsLocal
<1> QED BY <1>1, IInvInvariant, PTL

\* A step of the pipeline leaves a whole copy alone, unless *arr moves it.
LEMMA WholeIsSafe ==
    ASSUME UICommands = {}, "listing" \notin Faults, NamesDiffer, IInv, [Next]_vars,
           NEW n \in Names,
           disk[n] = "complete"
    PROVE  disk'[n] \in {"complete", "imported"}
<1>t. disk \in [Names -> DiskStates] BY DEF IInv, TypeOK
<1>c. CopyInv /\ NoCommands BY DEF IInv, CustodyInv
<1>1. ASSUME NEW i \in Instances, OrchNext(i) PROVE UNCHANGED disk
  BY <1>1 DEF OrchNext, OrchList, OrchSelect, OrchUpsert, OrchDbFails, files
<1>2. ASSUME NEW i \in Instances, DlNext(i), ~UNCHANGED disk PROVE disk'[n] = disk[n]
  <2>1. ~DlReceivesPolled(i) BY <1>2 DEF DlReceivesPolled, files
  <2>2. PICK u : u = dl[i].cur OBVIOUS
  <2>3. dl[i].pc # "idle" /\ (n # NameOf[u] => disk'[n] = disk[n])
    BY <1>2, <2>1, <2>2, DlShape
  <2>4. u \in Transfers BY <1>c, <2>2, <2>3 DEF CopyInv, HandKnown
  <2>5. dl[i].pc \in {"grab", "open", "copy"}
    BY <1>2, <1>c, <2>1, NoUISteps DEF DlNext, DlGrabs, DlGrabFails, DlOpenFails, DlOpens,
       DlCopies, DlCopyBreaks, DlSiblingFails, DlUnregisters, files
  <2>6. Fresh(u) BY <1>c, <2>2, <2>4, <2>5 DEF CopyInv, HandFits
  <2> QED BY <2>3, <2>6 DEF Fresh
<1>3. ASSUME NEW i \in Instances, NoteNext(i) PROVE UNCHANGED disk
  BY <1>3 DEF NoteNext, NoteReceives, NoteReceivesImported, NoteHandles, NoteDbFails, files
<1>4. ASSUME NEW i \in Instances, WatcherNext(i), ~UNCHANGED disk PROVE disk'[n] = disk[n]
  <2>1. PICK u \in Transfers : WatcherRemoves(i, u)
    BY <1>4 DEF WatcherNext, WatcherSeesImport, files
  <2>2. NameOf[u] \in history
    BY <1>c, <2>1 DEF WatcherRemoves, CopyInv, WatcherFits
  <2>3. NameOf[u] # n BY <1>c, <2>2 DEF CopyInv, HistoryFits
  <2> QED BY <1>t, <2>1, <2>3 DEF WatcherRemoves, Wipe
<1>5. ASSUME EnvNext PROVE disk'[n] \in {disk[n], "imported"}
  BY <1>5, <1>t DEF EnvNext, RemoteCompletes, RemoteRemoved, ArrImports, Crash, files
<1>6. CASE UNCHANGED vars BY <1>6 DEF vars
<1> QED BY <1>c, <1>1, <1>2, <1>3, <1>4, <1>5, <1>6, NoUISteps DEF Next

\* The removal of releases with missing files and the cleanup after imports
\* delete no whole release that was not imported, on any schedule.
THEOREM WholeIsKeptUntilImported ==
    ASSUME UICommands = {}, "listing" \notin Faults, NamesDiffer
    PROVE  Spec => OnlyImportedIsDeleted
<1>1. IInv /\ [Next]_vars =>
        [\A n \in Names : disk[n] = "complete" => disk'[n] # "none"]_vars
  BY WholeIsSafe
<1> QED BY <1>1, IInvInvariant, PTL DEF Spec, OnlyImportedIsDeleted

-----------------------------------------------------------------------------
(* The pipeline implements TransferLifecycle *)

LEMMA LifecycleInit == Init => Lifecycle!Init
BY NameAssumption DEF Init, Lifecycle!Init, PhaseOf, CopyOf

\* How the abstract state moves when one row, or one file, changes.
LEMMA PhaseMoves ==
    ASSUME TypeOK, NEW t \in Transfers, NEW s \in RowStates,
           status' = [status EXCEPT ![t] = s], UNCHANGED disk,
           NEW from, PhaseOf(status[t]) \in from
    PROVE  Lifecycle!Moves(t, from, PhaseOf(s))
BY DEF TypeOK, Lifecycle!Moves

LEMMA CopyMoves ==
    ASSUME NamesDiffer, TypeOK, NEW t \in Transfers, NEW d,
           disk' = [disk EXCEPT ![NameOf[t]] = d]
    PROVE  [u \in Transfers |-> CopyOf(disk'[NameOf[u]])] =
              [[u \in Transfers |-> CopyOf(disk[NameOf[u]])] EXCEPT ![t] = CopyOf(d)]
<1>1. disk'[NameOf[t]] = d
  BY NameAssumption DEF TypeOK
<1>2. ASSUME NEW u \in Transfers, u # t
      PROVE  disk'[NameOf[u]] = disk[NameOf[u]]
  BY <1>2, NameAssumption DEF TypeOK, NamesDiffer
<1>3. ASSUME NEW u \in Transfers
      PROVE  CopyOf(disk'[NameOf[u]]) =
                IF u = t THEN CopyOf(d) ELSE CopyOf(disk[NameOf[u]])
  BY <1>1, <1>2
<1> QED BY <1>3

LEMMA Stutters ==
    ASSUME UNCHANGED <<status, disk>>
    PROVE  UNCHANGED Lifecycle!vars
BY DEF Lifecycle!vars

LEMMA LifecycleStep ==
    ASSUME UICommands = {}, "listing" \notin Faults, NamesDiffer, IInv, [Next]_vars
    PROVE  [Lifecycle!Next]_(Lifecycle!vars)
<1>t. /\ TypeOK
      /\ status \in [Transfers -> RowStates]
      /\ disk \in [Names -> DiskStates]
  BY DEF IInv, TypeOK
<1>c. CopyInv /\ CustodyInv /\ NoCommands BY DEF IInv, CustodyInv
<1>s. CASE UNCHANGED vars BY <1>s, Stutters DEF vars, table, files
<1>1. ASSUME NEW i \in Instances, OrchNext(i), ~UNCHANGED <<status, disk>>
      PROVE  Lifecycle!Next
  <2>1. /\ OrchUpsert(i) /\ Claimable(orch[i].cur)
        /\ status' = [status EXCEPT ![orch[i].cur] = "downloading"]
        /\ UNCHANGED disk
    BY <1>1 DEF OrchNext, OrchList, OrchSelect, OrchUpsert, OrchDbFails, Claim, table, files
  <2>2. PICK t \in Transfers : t = orch[i].cur
    BY <1>c, <2>1 DEF OrchUpsert, CopyInv, HandKnown
  <2>3. PhaseOf(status[t]) \in {"unclaimed", "failed"}
    BY <2>1, <2>2 DEF Claimable, PhaseOf
  <2>4. PhaseOf("downloading") = "claimed" BY DEF PhaseOf
  <2>5. "downloading" \in RowStates BY DEF RowStates
  <2>6. Lifecycle!Moves(t, {"unclaimed", "failed"}, PhaseOf("downloading"))
    BY <1>t, <2>1, <2>2, <2>3, <2>5, PhaseMoves
  <2> QED BY <2>4, <2>6 DEF Lifecycle!Next, Lifecycle!Take
<1>2. ASSUME NEW i \in Instances, DlNext(i), ~UNCHANGED <<status, disk>>
      PROVE  Lifecycle!Next
  <2>1. ~DlReceivesPolled(i) BY <1>2 DEF DlReceivesPolled, table, files
  <2>2. PICK t : t = dl[i].cur OBVIOUS
  <2>3. dl[i].pc # "idle" /\ UNCHANGED status
    BY <1>2, <2>1, <2>2, DlShape
  <2>4. t \in Transfers BY <1>c, <2>2, <2>3 DEF CopyInv, HandKnown
  <2>5. /\ dl[i].pc \in {"grab", "open", "copy"}
        /\ \E d \in {"none", "partial", "complete"} : disk' = [disk EXCEPT ![NameOf[t]] = d]
    BY <1>2, <1>c, <2>1, <2>2, <2>3, NoUISteps DEF DlNext, DlGrabs, DlGrabFails, DlOpenFails,
       DlOpens,
       DlCopies, DlCopyBreaks, DlSiblingFails, DlUnregisters, Wipe, Truncate, files
  <2>6. PICK d \in {"none", "partial", "complete"} : disk' = [disk EXCEPT ![NameOf[t]] = d]
    BY <2>5
  <2>7. status[t] = "downloading" /\ Fresh(t)
    BY <1>c, <2>2, <2>3, <2>4, <2>5 DEF CustodyInv, HolderClaimed, DlHolds, CopyInv, HandFits
  <2>8. /\ PhaseOf(status[t]) = "claimed"
        /\ CopyOf(disk[NameOf[t]]) \in {"absent", "partial"}
        /\ CopyOf(d) \in {"absent", "partial", "whole"}
    BY <2>7 DEF PhaseOf, CopyOf, Fresh
  <2>9. [u \in Transfers |-> CopyOf(disk'[NameOf[u]])] =
           [[u \in Transfers |-> CopyOf(disk[NameOf[u]])] EXCEPT ![t] = CopyOf(d)]
    BY <1>t, <2>4, <2>6, CopyMoves
  <2>10. Lifecycle!Write(t) BY <2>3, <2>4, <2>8, <2>9 DEF Lifecycle!Write
  <2> QED BY <2>4, <2>10 DEF Lifecycle!Next
<1>3. ASSUME NEW i \in Instances, NoteNext(i), ~UNCHANGED <<status, disk>>
      PROVE  Lifecycle!Next
  <2>1. NoteHandles(i) /\ UNCHANGED disk
    BY <1>3 DEF NoteNext, NoteReceives, NoteReceivesImported, NoteHandles, NoteDbFails, table, files
  <2>2. PICK t : t = note[i].cur OBVIOUS
  <2>3. PICK s \in {"failed", "missing", "downloaded"} :
           /\ UpdateTransferStatus(t, s)
           /\ note[i].ev \in Outcomes
           /\ s = "downloaded" => note[i].ev = "finished"
    BY <1>3, <2>1, <2>2 DEF NoteHandles, HandleDownloadError, HandleTransferMissing,
       HandleDownloadFinished, HandleTransferImported, Outcomes, table, files
  <2>4. t \in Transfers
    BY <1>3, <1>t, <2>1, <2>3 DEF UpdateTransferStatus
  <2>5. status[t] = "downloading"
    BY <1>c, <2>2, <2>3, <2>4 DEF CustodyInv, HolderClaimed, NoteHolds
  <2>6. status' = [status EXCEPT ![t] = s]
    BY <2>3, <2>5 DEF UpdateTransferStatus
  <2>7. s \in RowStates BY DEF RowStates
  <2>8. PhaseOf(status[t]) = "claimed" BY <2>5 DEF PhaseOf
  <2>9. Lifecycle!Moves(t, {"claimed"}, PhaseOf(s))
    BY <1>t, <2>1, <2>4, <2>6, <2>7, <2>8, PhaseMoves
  <2>10. CASE s = "failed"
    <3>1. PhaseOf(s) = "failed" BY <2>10 DEF PhaseOf
    <3> QED BY <2>4, <2>9, <3>1 DEF Lifecycle!Next, Lifecycle!Fail
  <2>11. CASE s = "missing"
    <3>1. PhaseOf(s) = "missing" BY <2>11 DEF PhaseOf
    <3> QED BY <2>4, <2>9, <3>1 DEF Lifecycle!Next, Lifecycle!Lose
  <2>12. CASE s = "downloaded"
    <3>1. PhaseOf(s) = "kept" BY <2>12 DEF PhaseOf
    <3>2. Kept(t)
      BY <1>c, <2>2, <2>3, <2>4, <2>12 DEF CopyInv, HandFits, NoteHolds, Fits
    <3>3. disk[NameOf[t]] \in {"complete", "imported", "none"}
      BY <1>c, <3>2 DEF CopyInv, HistoryFits, Kept
    <3>4. CopyOf(disk[NameOf[t]]) # "partial" BY <3>3 DEF CopyOf
    <3> QED BY <2>4, <2>9, <3>1, <3>4 DEF Lifecycle!Next, Lifecycle!Keep
  <2> QED BY <2>10, <2>11, <2>12
<1>4. ASSUME NEW i \in Instances, WatcherNext(i), ~UNCHANGED <<status, disk>>
      PROVE  Lifecycle!Next
  <2>1. PICK t \in Transfers : WatcherRemoves(i, t)
    BY <1>4 DEF WatcherNext, WatcherSeesImport, table, files
  <2>2. UNCHANGED status /\ disk' = [disk EXCEPT ![NameOf[t]] = "none"]
    BY <2>1 DEF WatcherRemoves, Wipe, table, files
  <2>3. status[t] = "downloaded" /\ NameOf[t] \in history
    BY <1>c, <2>1 DEF WatcherRemoves, CopyInv, WatcherFits
  <2>4. disk[NameOf[t]] = "imported"
    BY <1>4, <1>t, <1>c, <2>2, <2>3 DEF CopyInv, HistoryFits
  <2>5. /\ PhaseOf(status[t]) = "kept"
        /\ CopyOf(disk[NameOf[t]]) = "taken"
        /\ CopyOf("none") = "absent"
    BY <2>3, <2>4 DEF PhaseOf, CopyOf
  <2>6. [u \in Transfers |-> CopyOf(disk'[NameOf[u]])] =
           [[u \in Transfers |-> CopyOf(disk[NameOf[u]])] EXCEPT ![t] = CopyOf("none")]
    BY <1>t, <2>2, CopyMoves
  <2>7. Lifecycle!Clean(t) BY <2>2, <2>5, <2>6 DEF Lifecycle!Clean
  <2> QED BY <2>7 DEF Lifecycle!Next
<1>5. ASSUME EnvNext PROVE [Lifecycle!Next]_(Lifecycle!vars)
  <2>1. ASSUME NEW n \in Names, ArrImports(n) PROVE [Lifecycle!Next]_(Lifecycle!vars)
    <3>1. /\ disk[n] = "complete" /\ disk' = [disk EXCEPT ![n] = "imported"]
          /\ UNCHANGED status
      BY <2>1 DEF ArrImports, table, files
    <3>2. CASE \E t \in Transfers : NameOf[t] = n
      <4>1. PICK t \in Transfers : NameOf[t] = n BY <3>2
      <4>2. CopyOf(disk[NameOf[t]]) = "whole" /\ CopyOf("imported") = "taken"
        BY <3>1, <4>1 DEF CopyOf
      <4>3. [u \in Transfers |-> CopyOf(disk'[NameOf[u]])] =
               [[u \in Transfers |-> CopyOf(disk[NameOf[u]])] EXCEPT ![t] = CopyOf("imported")]
        BY <1>t, <3>1, <4>1, CopyMoves
      <4>4. Lifecycle!Import(t) BY <3>1, <4>2, <4>3 DEF Lifecycle!Import
      <4> QED BY <4>4 DEF Lifecycle!Next
    <3>3. CASE ~\E t \in Transfers : NameOf[t] = n
      <4>1. ASSUME NEW t \in Transfers PROVE disk'[NameOf[t]] = disk[NameOf[t]]
        BY <1>t, <3>1, <3>3, NameAssumption
      <4> QED BY <3>1, <4>1 DEF Lifecycle!vars
    <3> QED BY <3>2, <3>3
  <2>2. CASE ~\E n \in Names : ArrImports(n)
    <3>1. UNCHANGED <<status, disk>>
      BY <1>5, <2>2 DEF EnvNext, RemoteCompletes, RemoteRemoved, Crash, table, files
    <3> QED BY <3>1, Stutters
  <2> QED BY <2>1, <2>2
<1> QED BY <1>c, <1>s, <1>1, <1>2, <1>3, <1>4, <1>5, NoUISteps, Stutters DEF Next

\* The pipeline with its goroutines, processes and faults implements the life
\* of a transfer in TransferLifecycle.
THEOREM PipelineImplementsLifecycle ==
    ASSUME UICommands = {}, "listing" \notin Faults, NamesDiffer
    PROVE  Spec => LifecycleSpec
<1>1. IInv /\ [Next]_vars => [Lifecycle!Next]_(Lifecycle!vars)
  BY LifecycleStep
<1> QED BY <1>1, LifecycleInit, IInvInvariant, PTL DEF Spec, LifecycleSpec, Lifecycle!Spec
=============================================================================
