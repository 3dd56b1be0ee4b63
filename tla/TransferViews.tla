---------------------------- MODULE TransferViews ----------------------------
(***************************************************************************)
(* The web UI's read model (internal/svc/transfers/service.go, timeline.go) *)
(* while the pipeline goes on: List and Get ask Put.io first, then read the *)
(* downloads table, then look at the disk, and what they show is put        *)
(* together from three moments.                                            *)
(*                                                                         *)
(* A viewer stands for a browser that asks again and again; what it was    *)
(* shown last stays on its screen.                                         *)
(***************************************************************************)
EXTENDS TransferReports

CONSTANT Viewers

VARIABLES
    reading,   \* the request of each viewer: how far it is and what it has read
    shown      \* the stage each viewer was last shown of each transfer

viewVars == <<reading, shown>>
allVars == <<vars, viewVars>>

\* The happy path of the timeline, and the stages beside it.
PipelineStages == << "queued_on_putio", "downloading_on_putio", "ready_for_local",
                     "downloading_local", "local_complete", "waiting_import",
                     "imported", "seeding", "cleaned_up" >>
Stages == {PipelineStages[n] : n \in DOMAIN PipelineStages} \cup
          {"failed_local", "failed_putio", "missing_on_putio", "orphaned", "none"}

StageWeight(s) == IF \E n \in DOMAIN PipelineStages : PipelineStages[n] = s
                  THEN CHOOSE n \in DOMAIN PipelineStages : PipelineStages[n] = s
                  ELSE 0

\* The stages that a timeline shows as reached: those up to the current one, or a
\* failure by itself.
BuildTimeline(s) == IF StageWeight(s) = 0 THEN {s}
                    ELSE {PipelineStages[n] : n \in 1 .. StageWeight(s)}

\* What a request holds of a transfer that Put.io did not list.
\* It leaves out one whose folder or file it fails to look up (client.go:71-76, 109-114).
Absent == [status |-> "absent", size |-> 0, downloaded |-> 0, message |-> FALSE]
ReadOnPutio(t) ==
    ListedOnPutio(t) \cup
        (IF remote[t] = "gone" \/ "api" \in Faults THEN {Absent} ELSE {})
EveryListing ==
    {Absent}
    \cup [status : FetchingAs, size : {0, Size}, downloaded : 0 .. Size, message : BOOLEAN]
    \cup [status : AvailableAs, size : {Size}, downloaded : 0 .. Size, message : {FALSE}]

NoReading == [pc |-> "idle", cur |-> NoTransfer,
              listed |-> [t \in Transfers |-> Absent],
              rows |-> [t \in Transfers |-> "none"]]

ViewTypeOK ==
    /\ reading \in [Viewers -> [pc : {"idle", "records", "views", "record", "detail", "orphan"},
                                cur : MaybeTransfer,
                                listed : [Transfers -> EveryListing],
                                rows : [Transfers -> RowStates]]]
    /\ shown \in [Viewers -> [Transfers -> Stages]]

InitV ==
    /\ Init
    /\ reading = [v \in Viewers |-> NoReading]
    /\ shown = [v \in Viewers |-> [t \in Transfers |-> "none"]]

-----------------------------------------------------------------------------
(* The stages *)

\* Mutant: a file that is there counts in full.
LocalBytesByName(p, t) ==
    IF p.status \in AvailableAs /\ disk[NameOf[t]] # "none" THEN 0 .. Size ELSE {0}

\* The bytes on disk of the files Put.io listed, which are none when it failed to.
LocalBytes(p, t) ==
    (IF "api" \in Faults THEN {0} ELSE {}) \cup
    IF p.status \in AvailableAs
    THEN CASE disk[NameOf[t]] = "none" -> {0}
           [] disk[NameOf[t]] = "partial" -> 0 .. Size - 1
           [] disk[NameOf[t]] = "complete" -> {Size}
           [] disk[NameOf[t]] = "imported" -> 0 .. Size
    ELSE {0}

\* Mutant: the disk is believed rather than the row.
BuildViewOfDisk(p, s, b) ==
    ComputeStatus(p, IF b < Size /\ s = "downloaded" THEN "downloading" ELSE s, b)

BuildView(p, s, b) == ComputeStatus(p, s, b)

\* Mutant: the status of the row is shown as it is.
BuildOrphanViewOfRow(s) == s

\* A row without a transfer.
BuildOrphanView(s) == MissingPhaseStatus(s)

-----------------------------------------------------------------------------
(* The requests *)

Goes(v, r) == reading' = [reading EXCEPT ![v] = r]

ListsTransfers(v, pc, cur) ==
    /\ reading[v].pc = "idle"
    /\ \E f \in [Transfers -> UNION {ReadOnPutio(t) : t \in Transfers}] :
          /\ \A t \in Transfers : f[t] \in ReadOnPutio(t)
          /\ Goes(v, [NoReading EXCEPT !.pc = pc, !.cur = cur, !.listed = f])
    /\ UNCHANGED shown

List(v) == ListsTransfers(v, "records", NoTransfer)

\* A table that cannot be read is as if it were empty.
LoadRecords(v) ==
    /\ reading[v].pc = "records"
    /\ \E rows \in {status} \cup (IF "db" \in Faults THEN {NoReading.rows} ELSE {}) :
          Goes(v, [reading[v] EXCEPT !.pc = "views", !.rows = rows])
    /\ UNCHANGED shown

BuildViews(v) ==
    LET r == reading[v] IN
    /\ r.pc = "views"
    /\ \E bytes \in [Transfers -> 0 .. Size] :
          /\ \A t \in Transfers : bytes[t] \in LocalBytes(r.listed[t], t)
          /\ shown' = [shown EXCEPT ![v] = [t \in Transfers |->
                CASE r.listed[t] # Absent -> BuildView(r.listed[t], r.rows[t], bytes[t])
                  [] r.listed[t] = Absent /\ r.rows[t] # "none" -> BuildOrphanView(r.rows[t])
                  [] OTHER -> "none"]]
    /\ Goes(v, NoReading)

Get(v) == \E t \in Transfers : ListsTransfers(v, "record", t)

RecordOrEmpty(v) ==
    LET t == reading[v].cur IN
    /\ reading[v].pc = "record"
    /\ \E s \in RowRead(t) :
          Goes(v, [reading[v] EXCEPT !.rows[t] = s,
                       !.pc = IF reading[v].listed[t] = Absent THEN "orphan" ELSE "detail"])
    /\ UNCHANGED shown

BuildDetail(v) ==
    LET t == reading[v].cur
        r == reading[v] IN
    /\ r.pc = "detail"
    /\ \E b \in LocalBytes(r.listed[t], t) :
          shown' = [shown EXCEPT ![v][t] = BuildView(r.listed[t], r.rows[t], b)]
    /\ Goes(v, NoReading)

\* The row is read again, to tell whether it is there.
BuildOrphanDetail(v) ==
    LET t == reading[v].cur IN
    /\ reading[v].pc = "orphan"
    /\ \E s \in RowRead(t) :
          shown' = [shown EXCEPT ![v][t] = IF s = "none" THEN "none"
                                           ELSE BuildOrphanView(reading[v].rows[t])]
    /\ Goes(v, NoReading)

\* The request fails, or its client or its process goes away.
Abandons(v) ==
    /\ reading[v].pc # "idle"
    /\ Goes(v, NoReading)
    /\ UNCHANGED shown

Views(v) ==
    \/ List(v) \/ LoadRecords(v) \/ BuildViews(v)
    \/ Get(v) \/ RecordOrEmpty(v) \/ BuildDetail(v) \/ BuildOrphanDetail(v)
    \/ Abandons(v)

\* *arr imports what it has been offered (ViewsAgree).
ImportsWhatIsOffered ==
    \A n \in history' \ history : \E t \in Transfers : NameOf[t] = n /\ status[t] = "downloaded"

NextV ==
    \/ Next /\ ImportsWhatIsOffered /\ UNCHANGED viewVars
    \/ \E v \in Viewers : Views(v) /\ UNCHANGED vars

SpecV == InitV /\ [][NextV]_allVars

-----------------------------------------------------------------------------
(* Properties *)

\* A screen that says a release is complete or waits for its import is right, and stays
\* right until the import, though it was put together from three moments (status.go:19-22).
CompleteIsLocal == \A v \in Viewers, t \in Transfers :
    shown[v][t] \in {"local_complete", "waiting_import"} =>
        disk[NameOf[t]] \in {"complete", "imported"} \/ NameOf[t] \in history

\* Once Put.io has a transfer, no stage that its timeline showed as reached is taken back,
\* unless a failure is shown in between (timeline.go:34-61), or *arr moves the files away
\* after the request has read a row that still says downloading. Put.io answers every
\* lookup of a list ("api" is not among the faults): a list that leaves a transfer or its
\* files out shows a release as cleaned up, or one that is there as being downloaded.
StagesAdvance ==
    [][\A v \in Viewers, t \in Transfers :
          LET before == shown[v][t]
              after == shown'[v][t]
              overtaken == NameOf[t] \in history /\ reading[v].rows[t] = "downloading"
          IN  StageWeight(before) >= 3 /\ StageWeight(after) > 0 /\ ~overtaken
                  => BuildTimeline(before) \subseteq BuildTimeline(after)]_allVars

=============================================================================
