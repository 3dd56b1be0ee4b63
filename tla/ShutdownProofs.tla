------------------------------ MODULE ShutdownProofs ------------------------------
(***************************************************************************)
(* A process that closes its channels under its goroutines does no more    *)
(* harm than one that dies: theorems about Shutdown, for any number of     *)
(* processes and transfers, while no UI command runs.                      *)
(***************************************************************************)
EXTENDS Shutdown, TransferPipelineProofs

-----------------------------------------------------------------------------
(* The types of the shutdown, which rest on where the main goroutine is *)

MainInv == \A i \in Instances :
    /\ main[i] = "serving" => closed[i] = 0
    /\ main[i] = "closing" => closed[i] < Len(Channels)

SInv == STypeOK /\ MainInv

LEMMA SevenChannels == Len(Channels) = 7
BY DEF Channels

LEMMA OverTypes ==
    ASSUME SInv, NEW i \in Instances, Over(i)
    PROVE  SInv'
<1>1. /\ main' = [main EXCEPT ![i] = "serving"]
      /\ closed' = [closed EXCEPT ![i] = 0]
      /\ resting' = [resting EXCEPT ![i] = {}]
  BY DEF Over
<1>2. 0 \in 0 .. Len(Channels) BY SevenChannels
<1>3. STypeOK' BY <1>1, <1>2 DEF SInv, STypeOK
<1>4. MainInv' BY <1>1 DEF SInv, STypeOK, MainInv
<1> QED BY <1>3, <1>4 DEF SInv

LEMMA RestsTypes ==
    ASSUME SInv, NEW i \in Instances, NEW loop \in Loops, Rests(i, loop)
    PROVE  SInv'
<1>1. resting' \in [Instances -> SUBSET Loops] BY DEF Rests, SInv, STypeOK
<1> QED BY <1>1 DEF Rests, SInv, STypeOK, MainInv

LEMMA SInvStep == SInv /\ [NextS]_allVars => SInv'
<1> SUFFICES ASSUME SInv, [NextS]_allVars PROVE SInv' OBVIOUS
<1>1. CASE UNCHANGED shutVars BY <1>1 DEF shutVars, SInv, STypeOK, MainInv
<1>2. ASSUME NEW i \in Instances, ServerFails(i) PROVE SInv'
  BY <1>2, SevenChannels DEF ServerFails, SInv, STypeOK, MainInv
<1>3. ASSUME NEW i \in Instances, Closes(i) PROVE SInv'
  <2>1. /\ closed[i] \in 0 .. 6
        /\ closed' = [closed EXCEPT ![i] = closed[i] + 1]
    BY <1>3, SevenChannels DEF Closes, SInv, STypeOK, MainInv
  <2>2. closed' \in [Instances -> 0 .. Len(Channels)]
    BY <2>1, SevenChannels DEF SInv, STypeOK
  <2>3. /\ main'[i] = IF closed[i] + 1 = 7 THEN "flushing" ELSE "closing"
        /\ main' \in [Instances -> {"serving", "closing", "flushing"}]
        /\ \A j \in Instances \ {i} : main'[j] = main[j] /\ closed'[j] = closed[j]
        /\ closed'[i] = closed[i] + 1
    BY <1>3, <2>1, SevenChannels DEF Closes, SInv, STypeOK
  <2> QED BY <1>3, <2>1, <2>2, <2>3, SevenChannels DEF Closes, SInv, STypeOK, MainInv
<1>4. ASSUME NEW i \in Instances, Exits(i) \/ Killed(i) PROVE SInv'
  BY <1>4, OverTypes DEF Exits, Killed
<1>5. ASSUME NEW i \in Instances, Panics(i) PROVE SInv'
  <2>1. CASE DlReceivesNil(i) \/ DlSendPanics(i)
    BY <2>1, OverTypes DEF DlReceivesNil, DlSendPanics
  <2>2. CASE OrchSendPanics(i) \/ NoteReceivesNil(i)
    BY <2>2, RestsTypes DEF OrchSendPanics, NoteReceivesNil, Loops
  <2>3. CASE \E t \in Transfers : WatcherSendPanics(i, t)
    BY <2>3, <1>1 DEF WatcherSendPanics
  <2>4. CASE \E loop \in Loops : Restarts(i, loop)
    <3>1. resting' \in [Instances -> SUBSET Loops]
      BY <2>4 DEF Restarts, SInv, STypeOK
    <3> QED BY <2>4, <3>1 DEF Restarts, SInv, STypeOK, MainInv
  <2> QED BY <1>5, <2>1, <2>2, <2>3, <2>4 DEF Panics
<1>6. ASSUME NEW r \in Requests, ReqSendPanics(r) PROVE SInv'
  BY <1>1, <1>6 DEF ReqSendPanics
<1>7. CASE UNCHANGED allVars BY <1>1, <1>7 DEF allVars
<1> QED BY <1>1, <1>2, <1>3, <1>4, <1>5, <1>6, <1>7 DEF NextS

\* No channel is closed twice, and the bookkeeping of a shutdown is well typed, for any
\* number of processes and whatever they are doing (main.go:186-200).
THEOREM ShutdownTypes == SpecS => []STypeOK
<1>1. InitS => SInv
  BY SevenChannels DEF InitS, SInv, STypeOK, MainInv
<1>2. SInv => STypeOK BY DEF SInv
<1> QED BY <1>1, <1>2, SInvStep, PTL DEF SpecS

-----------------------------------------------------------------------------
(* Every step is one of the pipeline, or a recovered panic *)

LEMMA StepsOfShutdown ==
    ASSUME [NextS]_allVars
    PROVE  \/ [Next]_vars
           \/ \E i \in Instances : OrchSendPanics(i)
           \/ \E i \in Instances, t \in Transfers : WatcherSendPanics(i, t)
           \/ \E r \in Requests : ReqSendPanics(r)
<1>1. ASSUME NEW i \in Instances, Works(i) PROVE Next
  <2>1. OrchNext(i) \/ DlNext(i) \/ NoteNext(i) \/ WatcherNext(i)
    BY <1>1 DEF Works, NoteNext
  <2> QED BY <2>1 DEF Next
<1>2. ASSUME NEW i \in Instances, Crash(i) PROVE Next BY <1>2 DEF Next, EnvNext
<1>3. ASSUME NEW i \in Instances,
             ServerFails(i) \/ Closes(i) \/ Exits(i) \/ Killed(i)
      PROVE  [Next]_vars
  BY <1>2, <1>3 DEF ServerFails, Closes, Exits, Killed, Over
<1>4. ASSUME NEW i \in Instances, Panics(i)
      PROVE  \/ [Next]_vars
             \/ OrchSendPanics(i)
             \/ \E t \in Transfers : WatcherSendPanics(i, t)
  BY <1>2, <1>4 DEF Panics, DlReceivesNil, DlSendPanics, NoteReceivesNil, Restarts, Over
<1>5. CASE UNCHANGED allVars BY <1>5 DEF allVars
<1>6. ASSUME \/ \E r \in Requests : UINext(r)
             \/ \E t \in Transfers : RemoteCompletes(t) \/ RemoteRemoved(t)
             \/ \E n \in Names : ArrImports(n)
      PROVE  Next
  BY <1>6 DEF Next, EnvNext
<1> QED BY <1>1, <1>3, <1>4, <1>5, <1>6 DEF NextS

-----------------------------------------------------------------------------
(* A recovered panic keeps the invariant of the pipeline *)

LEMMA OrchPanicKeeps ==
    ASSUME IInv, NEW i \in Instances, OrchSendPanics(i)
    PROVE  IInv' /\ UNCHANGED <<status, disk>>
<1>1. /\ orch' = [orch EXCEPT ![i] = IdleOrch]
      /\ UNCHANGED <<remote, status, locked, disk, spoiled, history, dl, note,
                     waiting, removing, announcing, req>>
  BY DEF OrchSendPanics, table, files, watchers
<1>2. TypeOK' BY <1>1, IdleTypes DEF IInv, TypeOK
<1>3. OutcomeKnown' /\ Unspoiled' BY <1>1 DEF IInv, OutcomeKnown, Unspoiled
<1>4. \A j \in Instances, t \in Transfers : OrchHolds(j, t)' => OrchHolds(j, t)
  BY <1>1 DEF IInv, TypeOK, OrchHolds, IdleOrch
<1>5. CustodyInv'
  BY <1>1, <1>4 DEF IInv, CustodyInv, NoCommands, OneHolder, HolderClaimed, DlHolds, NoteHolds
<1>6. \A t : /\ Fresh(t)' <=> Fresh(t)
             /\ Kept(t)' <=> Kept(t)
             /\ \A out : Fits(out, t)' <=> Fits(out, t)
  BY <1>1, FrameFits
<1>7. CopyInv'
  <2>1. \A j \in Instances : HandKnown(j)'
    BY <1>1 DEF IInv, TypeOK, CopyInv, HandKnown, IdleOrch
  <2>2. ASSUME NEW j \in Instances, NEW t \in Transfers PROVE HandFits(j, t)'
    BY <1>1, <1>4, <1>6 DEF IInv, CopyInv, HandFits, NoteHolds
  <2> QED BY <1>1, <1>6, <2>1, <2>2 DEF IInv, CopyInv, RowFits, WatcherFits, HistoryFits
<1> QED BY <1>1, <1>2, <1>3, <1>5, <1>7 DEF IInv

LEMMA WatcherPanicKeeps ==
    ASSUME IInv, NEW i \in Instances, NEW u \in Transfers, WatcherSendPanics(i, u)
    PROVE  IInv' /\ UNCHANGED <<status, disk>>
<1>1. /\ announcing' = [announcing EXCEPT ![i][u] = announcing[i][u] - 1]
      /\ announcing[i][u] > 0
      /\ UNCHANGED <<remote, status, locked, disk, spoiled, history, orch, dl, note,
                     waiting, removing, req>>
  BY DEF WatcherSendPanics, table, files
<1>2. announcing' \in [Instances -> [Transfers -> Nat]]
  BY <1>1 DEF IInv, TypeOK
<1>3. TypeOK' BY <1>1, <1>2 DEF IInv, TypeOK
<1>4. OutcomeKnown' /\ Unspoiled' /\ CustodyInv'
  BY <1>1 DEF IInv, OutcomeKnown, Unspoiled, CustodyInv, NoCommands, OneHolder,
     HolderClaimed, OrchHolds, DlHolds, NoteHolds
<1>5. CopyInv'
  BY <1>1 DEF IInv, CopyInv, HandKnown, RowFits, HandFits, WatcherFits, HistoryFits, Fits,
     Fresh, Kept, OrchHolds, NoteHolds
<1> QED BY <1>1, <1>3, <1>4, <1>5 DEF IInv

\* No request is under way where there are no commands.
LEMMA NoReqPanics ==
    ASSUME IInv, NEW r \in Requests
    PROVE  ~ReqSendPanics(r)
BY DEF IInv, CustodyInv, NoCommands, ReqSendPanics

LEMMA IInvStepS ==
    ASSUME UICommands = {}, "listing" \notin Faults, NamesDiffer, IInv, [NextS]_allVars
    PROVE  IInv' /\ [Lifecycle!Next]_(Lifecycle!vars)
<1>1. CASE [Next]_vars
  <2>1. IInv' BY <1>1, TypeStep, OutcomeStep, CustodyStep, CopyStep, UnspoiledStep DEF IInv
  <2> QED BY <1>1, <2>1, LifecycleStep
<1>2. ASSUME NEW i \in Instances, OrchSendPanics(i)
      PROVE  IInv' /\ [Lifecycle!Next]_(Lifecycle!vars)
  BY <1>2, OrchPanicKeeps, Stutters
<1>3. ASSUME NEW i \in Instances, NEW t \in Transfers, WatcherSendPanics(i, t)
      PROVE  IInv' /\ [Lifecycle!Next]_(Lifecycle!vars)
  BY <1>3, WatcherPanicKeeps, Stutters
<1> QED BY <1>1, <1>2, <1>3, NoReqPanics, StepsOfShutdown

-----------------------------------------------------------------------------
(* What holds up to the end of every process, and across it *)

LEMMA IInvOfShutdown ==
    ASSUME UICommands = {}, "listing" \notin Faults, NamesDiffer
    PROVE  SpecS => []IInv
<1>1. InitS => IInv
  BY InitType, InitOutcome, InitCustody, InitCopy, InitUnspoiled DEF InitS, IInv
<1>2. IInv /\ [NextS]_allVars => IInv' BY IInvStepS
<1> QED BY <1>1, <1>2, PTL DEF SpecS

\* While channels close, goroutines panic and polls start again, no transfer is in two
\* hands, and one in hand is claimed.
THEOREM ShutdownKeepsCustody ==
    ASSUME UICommands = {}, "listing" \notin Faults, NamesDiffer
    PROVE  SpecS => []SingleCustody
<1>1. IInv => SingleCustody BY CustodySuffices DEF IInv
<1> QED BY <1>1, IInvOfShutdown, PTL

\* A report that a closed channel cuts off leaves no row that says downloaded of what is
\* not there.
THEOREM ShutdownKeepsDownloaded ==
    ASSUME UICommands = {}, "listing" \notin Faults, NamesDiffer
    PROVE  SpecS => []DownloadedIsLocal
<1>1. IInv => DownloadedIsLocal
  BY DEF IInv, CopyInv, RowFits, Kept, DownloadedIsLocal
<1> QED BY <1>1, IInvOfShutdown, PTL

\* A pipeline that shuts down, however its processes end, still takes every transfer
\* through the life that TransferLifecycle allows.
THEOREM ShutdownImplementsLifecycle ==
    ASSUME UICommands = {}, "listing" \notin Faults, NamesDiffer
    PROVE  SpecS => LifecycleSpec
<1>1. InitS => Lifecycle!Init BY LifecycleInit DEF InitS
<1>2. IInv /\ [NextS]_allVars => [Lifecycle!Next]_(Lifecycle!vars) BY IInvStepS
<1> QED BY <1>1, <1>2, IInvOfShutdown, PTL DEF SpecS, LifecycleSpec, Lifecycle!Spec

=============================================================================
