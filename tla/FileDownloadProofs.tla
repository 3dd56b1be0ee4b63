-------------------------- MODULE FileDownloadProofs --------------------------
(***************************************************************************)
(* Theorems about FileDownload: a download that ends well has every file   *)
(* whole on disk, and the workers, however they interleave, do what the    *)
(* downloader of TransferPipeline does, for any number of files and any    *)
(* MAX_PARALLEL.                                                           *)
(***************************************************************************)
EXTENDS FileDownload, FiniteSetTheorems, TLAPS

Actions(f) == Starts(f) \/ WorkerNext(f)

LEMMA StepCases ==
    ASSUME [Next]_vars
    PROVE  UNCHANGED vars \/ Removed \/ CancelDownload \/ \E f \in Files : Actions(f)
BY DEF Next, Actions

\* Every state of the workers has its type, under every fault.
THEOREM FileTypeCorrect == Spec => []TypeOK
<1>1. Init => TypeOK
  BY DEF Init, TypeOK, WorkerStates, FileStates
<1>2. TypeOK /\ [Next]_vars => TypeOK'
  <2> SUFFICES ASSUME TypeOK, [Next]_vars PROVE TypeOK'
    OBVIOUS
  <2>1. ASSUME NEW f \in Files, Actions(f) PROVE TypeOK'
    <3> USE DEF TypeOK, WorkerStates, FileStates, Errors, Goes, group
    <3>1. CASE Starts(f) BY <3>1 DEF Starts
    <3>2. CASE GetsUrl(f) BY <3>2 DEF GetsUrl
    <3>3. CASE UrlFails(f) BY <3>3 DEF UrlFails
    <3>4. CASE Wipes(f) BY <3>4 DEF Wipes, Nothing
    <3>5. CASE Gets(f) BY <3>5 DEF Gets
    <3>6. CASE MakesDir(f) BY <3>6 DEF MakesDir
    <3>7. CASE Creates(f) BY <3>7 DEF Creates
    <3>8. CASE Fails(f) BY <3>8 DEF Fails
    <3>9. CASE Copies(f) BY <3>9 DEF Copies
    <3>10. CASE CopyBreaks(f) BY <3>10 DEF CopyBreaks
    <3>11. CASE Joins(f) BY <3>11 DEF Joins
    <3> QED BY <2>1, <3>1, <3>2, <3>3, <3>4, <3>5, <3>6, <3>7, <3>8, <3>9, <3>10, <3>11
               DEF Actions, WorkerNext
  <2>2. CASE Removed BY <2>2 DEF Removed, TypeOK, group
  <2>3. CASE CancelDownload BY <2>3 DEF CancelDownload, TypeOK, group
  <2>4. CASE UNCHANGED vars BY <2>4 DEF vars, TypeOK, group
  <2> QED BY <2>1, <2>2, <2>3, <2>4, StepCases
<1> QED BY <1>1, <1>2, PTL DEF Spec

-----------------------------------------------------------------------------
(* What the workers, the errgroup and the disk know of each other *)

Ended == {"missed", "failed", "copied"}

\* The errgroup has the first error of the workers it has seen return.
JoinedFits ==
    /\ \A f \in joined : worker[f] \in Ended
    /\ err = "none" => \A f \in joined : worker[f] = "copied"
    /\ err = "missing" => \E f \in joined : worker[f] = "missed"
    /\ err = "error" => \E f \in joined : worker[f] = "failed"

Wiped == \E f \in Files : worker[f] = "missed"
Opened == \E f \in Files : worker[f] \in HasFile
Failed == \E f \in Files : worker[f] = "failed"

\* Files disappear only when a worker has removed the release.
FilesFit ==
    /\ \A f \in Files : worker[f] \in {"copy", "stuck"} => onDisk[f] # "absent" \/ Wiped
    /\ \A f \in Files : worker[f] = "copied" => onDisk[f] = "whole" \/ Wiped
    /\ ~ Opened => onDisk = IF Wiped THEN Nothing ELSE found
    /\ \A f \in Files : worker[f] = "create" => dir \/ Wiped

UrlCause == gone \/ cancelled \/ "api" \in Faults
Missing == \E f \in Files : worker[f] \in {"wipe", "missed"}

\* Every failure has a cause, the cancellation of the siblings an earlier failure.
CausesFit ==
    /\ err = "missing" => UrlCause
    /\ err = "none" /\ Missing => UrlCause
    /\ Missing \/ Failed => UrlCause \/ "io" \in Faults
    /\ Failed => Wiped \/ "io" \in Faults
    /\ \A f \in Files : worker[f] = "stuck" => cancelled \/ "copy" \in Faults \/ err # "none"

DInv == TypeOK /\ JoinedFits /\ FilesFit /\ CausesFit

LEMMA InitFits == Init => DInv
<1>1. Init => TypeOK BY DEF Init, TypeOK, WorkerStates, FileStates
<1>2. Init => JoinedFits BY DEF Init, JoinedFits
<1>3. Init => FilesFit BY DEF Init, FilesFit, Opened, Wiped, HasFile
<1>4. Init => CausesFit BY DEF Init, CausesFit, Missing, Failed
<1> QED BY <1>1, <1>2, <1>3, <1>4 DEF DInv

\* What a worker's step does, apart from the files: it moves on, or is joined.
LEMMA WorkerShape ==
    ASSUME TypeOK, NEW f \in Files, Actions(f)
    PROVE  /\ UNCHANGED <<gone, cancelled, found>>
           /\ \A g \in Files \ {f} : worker'[g] = worker[g]
           /\ \/ /\ UNCHANGED group
                 /\ worker[f] \notin Ended /\ worker[f] # "stuck"
                 /\ worker'[f] = "missed" <=> worker[f] = "wipe"
                 /\ worker[f] \in HasUrl => worker'[f] \in HasUrl
                 /\ worker[f] \in HasFile => worker'[f] \in HasFile
              \/ /\ worker' = worker /\ Joins(f)
<1> USE DEF TypeOK, Goes, group, Ended, HasUrl, HasFile
<1>1. CASE Starts(f) BY <1>1 DEF Starts
<1>2. CASE GetsUrl(f) BY <1>2 DEF GetsUrl
<1>3. CASE UrlFails(f) BY <1>3 DEF UrlFails
<1>4. CASE Wipes(f) BY <1>4 DEF Wipes
<1>5. CASE Gets(f) BY <1>5 DEF Gets
<1>6. CASE MakesDir(f) BY <1>6 DEF MakesDir
<1>7. CASE Creates(f) BY <1>7 DEF Creates
<1>8. CASE Fails(f) BY <1>8 DEF Fails
<1>9. CASE Copies(f) BY <1>9 DEF Copies
<1>10. CASE CopyBreaks(f) BY <1>10 DEF CopyBreaks
<1>11. CASE Joins(f) BY <1>11 DEF Joins
<1> QED BY Actions(f), <1>1, <1>2, <1>3, <1>4, <1>5, <1>6, <1>7, <1>8, <1>9, <1>10, <1>11
           DEF Actions, WorkerNext

LEMMA JoinedStep ==
    ASSUME TypeOK, JoinedFits, NEW f \in Files, Actions(f)
    PROVE  JoinedFits'
<1>1. CASE UNCHANGED group /\ worker[f] \notin Ended
  <2>1. f \notin joined BY <1>1 DEF JoinedFits
  <2>2. \A g \in joined : worker'[g] = worker[g]
    BY <2>1, WorkerShape DEF TypeOK
  <2> QED BY <1>1, <2>2 DEF JoinedFits, group
<1>2. CASE worker' = worker /\ Joins(f)
  <2>1. /\ worker[f] \in Ended /\ joined' = joined \cup {f}
        /\ err' = IF err # "none" \/ worker[f] = "copied" THEN err
                  ELSE IF worker[f] = "missed" THEN "missing" ELSE "error"
    BY <1>2 DEF Joins, Ended
  <2>2. CASE err # "none" BY <1>2, <2>1, <2>2 DEF JoinedFits
  <2>3. CASE err = "none" BY <1>2, <2>1, <2>3 DEF JoinedFits, Ended
  <2> QED BY <2>2, <2>3
<1> QED BY <1>1, <1>2, WorkerShape

\* What has happened to a file does not unhappen.
LEMMA Lasting ==
    ASSUME TypeOK, JoinedFits, NEW f \in Files, Actions(f)
    PROVE  /\ Wiped => Wiped'
           /\ Opened => Opened'
           /\ Failed => Failed'
           /\ Missing => Missing'
<1>1. ASSUME NEW g \in Files, worker[g] \in Ended PROVE worker'[g] = worker[g]
  BY <1>1, WorkerShape
<1>2. ASSUME NEW g \in Files, worker[g] \in HasFile PROVE worker'[g] \in HasFile
  BY <1>2, WorkerShape DEF HasFile
<1>3. ASSUME NEW g \in Files, worker[g] = "wipe" PROVE worker'[g] \in {"wipe", "missed"}
  BY <1>3, WorkerShape
<1> QED BY <1>1, <1>2, <1>3 DEF Wiped, Opened, Failed, Missing, Ended

LEMMA FilesStep ==
    ASSUME DInv, NEW f \in Files, Actions(f)
    PROVE  FilesFit'
<1>i. TypeOK /\ JoinedFits /\ FilesFit BY DEF DInv
<1>l. (Wiped => Wiped') /\ (Opened => Opened') BY <1>i, Lasting
<1>1. CASE worker[f] = "wipe"
  <2>1. Wipes(f)
    BY <1>1 DEF Actions, Starts, WorkerNext, GetsUrl, UrlFails, Gets, MakesDir, Creates, Fails,
       Copies, CopyBreaks, Joins
  <2>2. Wiped' /\ onDisk' = Nothing BY <1>i, <2>1 DEF Wipes, Goes, Wiped, TypeOK
  <2> QED BY <2>2 DEF FilesFit
<1>2. CASE worker[f] # "wipe"
  <2>0. ~ Wipes(f) BY <1>2 DEF Wipes
  <2>1. Wiped' => Wiped BY <1>i, <1>2, WorkerShape DEF Wiped
  <2>2. CASE Creates(f)
    <3>1. /\ worker' = [worker EXCEPT ![f] = "copy"] /\ UNCHANGED <<dir, found>>
          /\ onDisk' = [onDisk EXCEPT ![f] = "partial"]
      BY <2>2 DEF Creates, Goes
    <3>2. Opened' BY <1>i, <3>1 DEF Opened, HasFile, TypeOK
    <3> QED BY <1>i, <1>l, <3>1, <3>2 DEF FilesFit, TypeOK
  <2>3. CASE Copies(f)
    <3>1. /\ worker' = [worker EXCEPT ![f] = "copied"] /\ UNCHANGED <<dir, found>>
          /\ onDisk' = [onDisk EXCEPT ![f] = IF @ = "absent" THEN @ ELSE "whole"]
          /\ worker[f] = "copy"
      BY <2>3 DEF Copies, Goes
    <3>2. Opened' BY <1>i, <3>1 DEF Opened, HasFile, TypeOK
    <3> QED BY <1>i, <1>l, <3>1, <3>2 DEF FilesFit, TypeOK
  <2>4. CASE MakesDir(f)
    <3>1. /\ worker' = [worker EXCEPT ![f] = "create"] /\ dir' = TRUE
          /\ UNCHANGED <<onDisk, found>> /\ worker[f] = "mkdir"
      BY <2>4 DEF MakesDir, Goes
    <3> QED BY <1>i, <1>l, <2>1, <3>1 DEF FilesFit, TypeOK
  <2>5. CASE ~ (Creates(f) \/ Copies(f) \/ MakesDir(f))
    <3>1. /\ UNCHANGED <<dir, onDisk, found>>
          /\ worker' = worker \/ \E pc \in {"url", "get", "wipe", "mkdir", "failed", "stuck"} :
                worker' = [worker EXCEPT ![f] = pc] /\ (pc = "stuck" => worker[f] = "copy")
      BY <2>0, <2>5 DEF Actions, Starts, WorkerNext, GetsUrl, UrlFails, Gets, Fails, CopyBreaks,
         Joins, Goes
    <3>2. \A g \in Files : worker'[g] \in {"copy", "stuck"} => worker[g] \in {"copy", "stuck"}
      BY <1>i, <3>1 DEF TypeOK
    <3>3. \A g \in Files : worker'[g] \in {"copied", "create"} => worker'[g] = worker[g]
      BY <1>i, <3>1 DEF TypeOK
    <3> QED BY <1>i, <1>l, <2>1, <3>1, <3>2, <3>3 DEF FilesFit
  <2> QED BY <2>2, <2>3, <2>4, <2>5
<1> QED BY <1>1, <1>2

LEMMA CausesStep ==
    ASSUME DInv, NEW f \in Files, Actions(f)
    PROVE  CausesFit'
<1>i. TypeOK /\ JoinedFits /\ FilesFit /\ CausesFit BY DEF DInv
<1>l. /\ (Wiped => Wiped') /\ (Failed => Failed') /\ (Missing => Missing')
      /\ UNCHANGED <<gone, cancelled>>
  BY <1>i, Lasting, WorkerShape
<1>1. CASE UrlFails(f)
  <2>1. /\ worker' = [worker EXCEPT ![f] = "wipe"] /\ err' = err
        /\ gone \/ cancelled \/ err # "none" \/ "api" \in Faults
    BY <1>1 DEF UrlFails, CtxDone, Goes, group
  <2>2. Failed' => Failed BY <1>i, <2>1 DEF TypeOK, Failed
  <2>3. \A g \in Files : worker'[g] = "stuck" => worker[g] = "stuck"
    BY <1>i, <2>1 DEF TypeOK
  <2>4. err # "none" => UrlCause \/ "io" \in Faults
    BY <1>i DEF JoinedFits, CausesFit, TypeOK, Errors, Failed
  <2> QED BY <1>i, <1>l, <2>1, <2>2, <2>3, <2>4 DEF CausesFit, UrlCause
<1>2. CASE Fails(f)
  <2>1. /\ worker' = [worker EXCEPT ![f] = "failed"] /\ err' = err
        /\ "io" \in Faults \/ (worker[f] = "create" /\ ~ dir)
    BY <1>2 DEF Fails, Goes, group
  <2>2. "io" \in Faults \/ Wiped BY <1>i, <2>1 DEF FilesFit
  <2>3. Wiped => Missing BY DEF Wiped, Missing
  <2>4. Missing' => Missing BY <1>i, <2>1 DEF TypeOK, Missing
  <2>5. \A g \in Files : worker'[g] = "stuck" => worker[g] = "stuck"
    BY <1>i, <2>1 DEF TypeOK
  <2> QED BY <1>i, <1>l, <2>1, <2>2, <2>3, <2>4, <2>5 DEF CausesFit, UrlCause
<1>3. CASE CopyBreaks(f)
  <2>1. /\ worker' = [worker EXCEPT ![f] = "stuck"] /\ err' = err
        /\ cancelled \/ err # "none" \/ "copy" \in Faults
    BY <1>3 DEF CopyBreaks, CtxDone, Goes, group
  <2>2. (Failed' => Failed) /\ (Missing' => Missing)
    BY <1>i, <2>1 DEF TypeOK, Failed, Missing
  <2>3. \A g \in Files : worker'[g] = "stuck" => worker[g] = "stuck" \/ g = f
    BY <1>i, <2>1 DEF TypeOK
  <2> QED BY <1>i, <1>l, <2>1, <2>2, <2>3 DEF CausesFit, UrlCause
<1>4. CASE Joins(f)
  <2>1. /\ worker' = worker /\ f \in Files
        /\ err' = IF err # "none" \/ worker[f] = "copied" THEN err
                  ELSE IF worker[f] = "missed" THEN "missing" ELSE "error"
    BY <1>4 DEF Joins
  <2>2. (Failed' <=> Failed) /\ (Missing' <=> Missing) /\ (Wiped' <=> Wiped)
    BY <2>1 DEF Failed, Missing, Wiped
  <2>3. err' = "missing" => UrlCause
    BY <1>i, <2>1 DEF CausesFit, Missing
  <2>4. err' = "none" => err = "none" BY <2>1
  <2> QED BY <1>i, <1>l, <2>1, <2>2, <2>3, <2>4 DEF CausesFit, UrlCause
<1>5. CASE ~ (UrlFails(f) \/ Fails(f) \/ CopyBreaks(f) \/ Joins(f))
  <2>1. /\ err' = err
        /\ \E pc \in {"url", "get", "mkdir", "create", "copy", "missed", "copied"} :
              worker' = [worker EXCEPT ![f] = pc] /\ (pc = "missed" => worker[f] = "wipe")
    BY <1>5 DEF Actions, Starts, WorkerNext, GetsUrl, Wipes, Gets, MakesDir, Creates, Copies,
       Goes, group
  <2>2. (Failed' => Failed) /\ (Missing' => Missing)
    BY <1>i, <2>1 DEF TypeOK, Failed, Missing
  <2>3. \A g \in Files : worker'[g] = "stuck" => worker[g] = "stuck"
    BY <1>i, <2>1 DEF TypeOK
  <2> QED BY <1>i, <1>l, <2>1, <2>2, <2>3 DEF CausesFit, UrlCause
<1> QED BY <1>1, <1>2, <1>3, <1>4, <1>5

LEMMA DInvInvariant == Spec => []DInv
<1>1. DInv /\ TypeOK' /\ [Next]_vars => DInv'
  <2> SUFFICES ASSUME DInv, TypeOK', [Next]_vars PROVE DInv'
    OBVIOUS
  <2>1. ASSUME NEW f \in Files, Actions(f) PROVE DInv'
    BY <2>1, JoinedStep, FilesStep, CausesStep DEF DInv
  <2>2. CASE Removed
    <3>1. UNCHANGED <<cancelled, worker, joined, err, dir, onDisk, found>> /\ gone' = TRUE
      BY <2>2 DEF Removed, group
    <3>2. JoinedFits' /\ FilesFit'
      BY <3>1 DEF DInv, JoinedFits, FilesFit, Wiped, Opened
    <3>3. CausesFit' BY <3>1 DEF DInv, CausesFit, UrlCause, Missing, Failed, Wiped
    <3> QED BY <3>2, <3>3 DEF DInv
  <2>3. CASE CancelDownload
    <3>1. UNCHANGED <<gone, worker, joined, err, dir, onDisk, found>> /\ cancelled' = TRUE
      BY <2>3 DEF CancelDownload, group
    <3>2. JoinedFits' /\ FilesFit'
      BY <3>1 DEF DInv, JoinedFits, FilesFit, Wiped, Opened
    <3>3. CausesFit' BY <3>1 DEF DInv, CausesFit, UrlCause, Missing, Failed, Wiped
    <3> QED BY <3>2, <3>3 DEF DInv
  <2>4. CASE UNCHANGED vars
    BY <2>4 DEF vars, group, DInv, JoinedFits, FilesFit, CausesFit, UrlCause, Missing, Failed,
       Wiped, Opened
  <2> QED BY <2>1, <2>2, <2>3, <2>4, StepCases
<1> QED BY <1>1, InitFits, FileTypeCorrect, PTL DEF Spec

\* For any number of files and workers, under every fault, removal and cancellation: a
\* download that returns no error leaves every file of the release whole on disk.
THEOREM FinishedStaysWhole == Spec => []FinishedIsWhole
<1>1. DInv => FinishedIsWhole
  <2> SUFFICES ASSUME DInv, joined = Files, err = "none", NEW f \in Files
               PROVE  onDisk[f] = "whole"
    BY DEF FinishedIsWhole, Returned
  <2>1. \A g \in Files : worker[g] = "copied" BY DEF DInv, JoinedFits
  <2>2. ~ Wiped BY <2>1 DEF Wiped
  <2> QED BY <2>1, <2>2 DEF DInv, FilesFit
<1> QED BY <1>1, DInvInvariant, PTL

-----------------------------------------------------------------------------
(* How the downloader of TransferPipeline sees its own step                *)

LEMMA SeesNothing ==
    ASSUME UNCHANGED <<gone, cancelled, Phase, Disk, Spoiled, Outcome>>
    PROVE  UNCHANGED Pipeline!vars
BY DEF Pipeline!vars, Pipeline!table, Pipeline!files, Pipeline!watchers

LEMMA SeesRemoval ==
    ASSUME ~ gone, gone' = TRUE, UNCHANGED <<cancelled, Phase, Disk, Spoiled, Outcome>>
    PROVE  Pipeline!RemoteRemoved("t")
BY DEF Pipeline!RemoteRemoved, Pipeline!table, Pipeline!files, Pipeline!watchers

LEMMA SeesGrab ==
    ASSUME Phase = "grab", Phase' = "open", ~ cancelled, ~ gone,
           UNCHANGED <<gone, cancelled, Disk, Spoiled, Outcome>>
    PROVE  Pipeline!DlGrabs("p")
BY DEF Pipeline!DlGrabs, Pipeline!table, Pipeline!files, Pipeline!watchers

LEMMA SeesNoUrl ==
    ASSUME Phase = "grab", Phase' = "return", Outcome' = "missing", UrlCause,
           cancelled \in BOOLEAN, gone \in BOOLEAN, ~ Spoiled, ~ Spoiled', Disk' = "none",
           UNCHANGED <<gone, cancelled>>
    PROVE  Pipeline!DlGrabFails("p")
BY DEF Pipeline!DlGrabFails, Pipeline!UrlFails, Pipeline!Wipe, Pipeline!Copying,
       Pipeline!Returns, UrlCause, Pipeline!table, Pipeline!files, Pipeline!watchers

LEMMA SeesOpen ==
    ASSUME Phase = "open", Phase' = "copy", ~ Spoiled, ~ Spoiled', Disk' = "partial",
           UNCHANGED <<gone, cancelled, Outcome>>
    PROVE  Pipeline!DlOpens("p")
BY DEF Pipeline!DlOpens, Pipeline!Truncate, Pipeline!Copying, Pipeline!table, Pipeline!files,
       Pipeline!watchers

LEMMA SeesOpenFail ==
    ASSUME Phase = "open", Phase' = "return", ~ Spoiled, ~ Spoiled',
           cancelled \in BOOLEAN, gone \in BOOLEAN, UNCHANGED <<gone, cancelled>>,
           \/ "io" \in Faults /\ Outcome' = "error" /\ UNCHANGED Disk
           \/ "io" \in Faults /\ Outcome' = "error" /\ NumFiles > 1 /\ Disk' = "none"
           \/ UrlCause /\ Outcome' \in Errors /\ NumFiles > 1 /\ Disk' = "none"
    PROVE  Pipeline!DlOpenFails("p")
BY DEF Pipeline!DlOpenFails, Pipeline!UrlFails, Pipeline!Wipe, Pipeline!Copying, Errors,
       Pipeline!Returns, UrlCause, Pipeline!table, Pipeline!files, Pipeline!watchers

LEMMA SeesCopied ==
    ASSUME Phase = "copy", Phase' = "return", Outcome' = "finished", ~ cancelled,
           ~ Spoiled, ~ Spoiled', Disk' = "complete", UNCHANGED <<gone, cancelled>>
    PROVE  Pipeline!DlCopies("p")
BY DEF Pipeline!DlCopies, Pipeline!Returns, Pipeline!table, Pipeline!files, Pipeline!watchers

LEMMA SeesBreak ==
    ASSUME Phase = "copy", Phase' = "stuck", cancelled \/ "copy" \in Faults,
           UNCHANGED <<gone, cancelled, Disk, Spoiled, Outcome>>
    PROVE  Pipeline!DlCopyBreaks("p")
BY DEF Pipeline!DlCopyBreaks, Pipeline!Sticks, Pipeline!table, Pipeline!files,
       Pipeline!watchers

LEMMA SeesSiblingFail ==
    ASSUME Phase = "copy", NumFiles > 1, ~ Spoiled, Spoiled', Disk' \in {"none", "partial"},
           cancelled \in BOOLEAN, gone \in BOOLEAN, UNCHANGED <<gone, cancelled>>,
           \/ UrlCause /\ Phase' = "return" /\ Outcome' = "missing"
           \/ /\ UrlCause \/ "io" \in Faults
              /\ \/ Phase' = "return" /\ Outcome' = "error"
                 \/ Phase' = "stuck" /\ UNCHANGED Outcome
    PROVE  Pipeline!DlSiblingFails("p")
BY DEF Pipeline!DlSiblingFails, Pipeline!UrlFails, Pipeline!Copying, Pipeline!Returns,
       Pipeline!Sticks, UrlCause, Pipeline!table, Pipeline!files, Pipeline!watchers

-----------------------------------------------------------------------------
(* The phases of a download                                                *)

SomeUrl == \E f \in Files : worker[f] \in HasUrl
Bad == \E f \in Files : worker[f] \in {"missed", "failed"}

\* What the pipeline sees of a download, phase by phase.
PhaseIs ==
    /\ Returned \/ AllCopied => Phase = "return"
    /\ ~ (Returned \/ AllCopied) /\ Halted => Phase = "stuck"
    /\ ~ (Returned \/ AllCopied) /\ ~ Halted =>
          Phase = IF Opened THEN "copy" ELSE IF SomeUrl THEN "open" ELSE "grab"
DiskIs ==
    /\ Phase \in {"grab", "open"} => Disk = Copy(found)
    /\ Phase = "copy" => Disk = "partial"
    /\ Phase \in {"stuck", "return"} /\ AllCopied => Disk = "complete"
    /\ Phase \in {"stuck", "return"} /\ ~ AllCopied => Disk = Copy(onDisk)
SpoiledIs == Spoiled = (Phase \in {"stuck", "return"} /\ Opened /\ Bad)
OutcomeIs ==
    /\ Phase # "return" => Outcome = "none"
    /\ Phase = "return" /\ err = "none" => Outcome = "finished"
    /\ Phase = "return" /\ err # "none" => Outcome = err

\* In the state before a step and in the one after it.
LEMMA PhaseShape == PhaseIs /\ PhaseIs'
BY DEF PhaseIs, Phase, Opened, SomeUrl
LEMMA DiskShape == DiskIs /\ DiskIs'
BY DEF DiskIs, Disk
LEMMA SpoiledShape == SpoiledIs /\ SpoiledIs'
BY DEF SpoiledIs, Spoiled, Opened, Bad
LEMMA OutcomeShape == OutcomeIs /\ OutcomeIs'
BY DEF OutcomeIs, Outcome

LEMMA TwoFiles ==
    ASSUME NEW f \in Files, NEW g \in Files, f # g
    PROVE  NumFiles > 1
BY SizeAssumption DEF Files

LEMMA SomeFile == \E f \in Files : TRUE
<1>1. 1 \in Files BY SizeAssumption DEF Files
<1> QED BY <1>1

LEMMA BusyIsCounted == Cardinality(Busy) \in Nat
<1>1. IsFiniteSet(Files) BY SizeAssumption, FS_Interval DEF Files
<1>2. IsFiniteSet(Busy) BY <1>1, FS_Subset DEF Busy
<1> QED BY <1>2, FS_CardinalityType

\* Once the workers have come to an end, or a stop, nothing moves but the errgroup.
LEMMA NoStepAfter ==
    ASSUME DInv, NEW f \in Files, Actions(f), ~ AllCopied
    PROVE  ~ Returned /\ ~ Halted
<1>i. TypeOK /\ JoinedFits BY DEF DInv
<1>1. f \notin joined
  BY <1>i, WorkerShape DEF JoinedFits, Joins
<1>2. worker[f] # "stuck"
  BY <1>i, WorkerShape DEF Joins
<1>3. ~ (worker[f] = "waiting" /\ Cardinality(Busy) >= MaxParallel)
  <2>1. ASSUME worker[f] = "waiting" PROVE Cardinality(Busy) < MaxParallel
    BY <2>1 DEF Actions, Starts, WorkerNext, GetsUrl, UrlFails, Wipes, Gets, MakesDir, Creates,
       Fails, Copies, CopyBreaks, Joins
  <2> QED BY <2>1, BusyIsCounted, SizeAssumption
<1> QED BY <1>1, <1>2, <1>3 DEF Returned, Halted

\* A step that leaves the workers' places alone is a join, and no other step joins.
LEMMA JoinsOnly ==
    ASSUME TypeOK, NEW f \in Files, Actions(f), joined' # joined
    PROVE  Joins(f) /\ worker' = worker
BY WorkerShape DEF group

LEMMA SeesAfterCopied ==
    ASSUME DInv, NEW f \in Files, Actions(f), AllCopied
    PROVE  UNCHANGED Pipeline!vars
<1>i. TypeOK /\ JoinedFits BY DEF DInv
<1>1. Joins(f) /\ worker' = worker /\ worker[f] = "copied"
  BY <1>i, WorkerShape DEF AllCopied, Ended
<1>2. UNCHANGED <<gone, cancelled, err>> BY <1>1 DEF Joins
<1>3. AllCopied' BY <1>1 DEF AllCopied
<1>4. Phase = "return" /\ Phase' = "return" BY <1>3, PhaseShape DEF PhaseIs
<1>5. UNCHANGED Outcome BY <1>2, <1>4, OutcomeShape DEF OutcomeIs
<1>6. UNCHANGED Disk BY <1>3, <1>4, DiskShape DEF DiskIs
<1>7. ~ Bad /\ ~ Bad' BY <1>3 DEF AllCopied, Bad
<1>8. UNCHANGED Spoiled BY <1>7, SpoiledShape DEF SpoiledIs
<1> QED BY <1>2, <1>4, <1>5, <1>6, <1>8, SeesNothing

\* What holds around a step of a download that has not come to an end or a stop.
LEMMA Around ==
    ASSUME DInv, DInv', NEW f \in Files, Actions(f), ~ AllCopied
    PROVE  /\ ~ Returned /\ ~ Halted
           /\ ~ Spoiled /\ Outcome = "none" /\ Phase \in {"grab", "open", "copy"}
           /\ UNCHANGED <<gone, cancelled, found>>
           /\ cancelled \in BOOLEAN /\ gone \in BOOLEAN
           /\ Returned' => Joins(f) /\ worker' = worker
           /\ Returned' => \A g \in Files : worker'[g] \in Ended
           /\ Returned' /\ ~ AllCopied' =>
                 err' \in Errors /\ Outcome' = err' /\ Disk' = Copy(onDisk')
<1>1. ~ Returned /\ ~ Halted BY NoStepAfter
<1>2. Phase \in {"grab", "open", "copy"} BY <1>1, PhaseShape DEF PhaseIs
<1>3. ~ Spoiled /\ Outcome = "none"
  BY <1>2, SpoiledShape, OutcomeShape DEF SpoiledIs, OutcomeIs
<1>4. UNCHANGED <<gone, cancelled, found>> BY WorkerShape DEF DInv
<1>5. cancelled \in BOOLEAN /\ gone \in BOOLEAN BY DEF DInv, TypeOK
<1>6. Returned' => Joins(f) /\ worker' = worker
  BY <1>1, JoinsOnly DEF DInv, Returned
<1>7. Returned' => \A g \in Files : worker'[g] \in Ended
  BY DEF DInv, JoinedFits, Returned
<1>8. ASSUME Returned', ~ AllCopied'
      PROVE  err' \in Errors /\ Outcome' = err' /\ Disk' = Copy(onDisk')
  <2>1. err' # "none" BY <1>8 DEF DInv, JoinedFits, Returned, AllCopied
  <2>2. err' \in Errors BY <2>1 DEF DInv, TypeOK
  <2>3. Phase' = "return" BY <1>8, PhaseShape DEF PhaseIs
  <2> QED BY <1>8, <2>1, <2>2, <2>3, OutcomeShape, DiskShape DEF OutcomeIs, DiskIs
<1> QED BY <1>1, <1>2, <1>3, <1>4, <1>5, <1>6, <1>7, <1>8

\* No worker has a URL yet.
LEMMA SeesFromGrab ==
    ASSUME DInv, DInv', NEW f \in Files, Actions(f), ~ AllCopied, ~ SomeUrl
    PROVE  Pipeline!DlNext("p") \/ UNCHANGED Pipeline!vars
<1>a. /\ ~ Returned /\ ~ Halted /\ ~ Spoiled /\ Outcome = "none"
      /\ UNCHANGED <<gone, cancelled, found>>
      /\ cancelled \in BOOLEAN /\ gone \in BOOLEAN
  BY Around
<1>0. /\ Phase = "grab" /\ ~ Opened
  BY <1>a, PhaseShape DEF PhaseIs, Opened, SomeUrl, HasFile, HasUrl
<1>1. CASE SomeUrl'
  <2>1. GetsUrl(f)
    <3>1. worker[f] \notin HasUrl /\ worker'[f] \in HasUrl
      BY <1>1, WorkerShape DEF DInv, SomeUrl, Joins
    <3> QED BY <3>1 DEF Actions, Starts, WorkerNext, UrlFails, Wipes, Gets, MakesDir,
         Creates, Fails, Copies, CopyBreaks, Joins, Goes, HasUrl, DInv, TypeOK
  <2>2. /\ worker' = [worker EXCEPT ![f] = "get"] /\ ~ gone /\ ~ cancelled
    BY <2>1 DEF GetsUrl, Goes, CtxDone
  <2>3. worker'[f] = "get" /\ ~ Opened'
    BY <1>0, <2>2 DEF DInv, TypeOK, Opened, HasFile
  <2>4. ~ Returned' /\ ~ AllCopied' /\ ~ Halted'
    BY <2>3 DEF Returned, AllCopied, Halted, DInv, JoinedFits, Ended
  <2>5. Phase' = "open" BY <1>1, <2>3, <2>4, PhaseShape DEF PhaseIs
  <2>6. UNCHANGED <<Disk, Spoiled, Outcome>>
    BY <1>0, <1>a, <2>5, DiskShape, SpoiledShape, OutcomeShape
       DEF DiskIs, SpoiledIs, OutcomeIs, Copy
  <2>7. Pipeline!DlGrabs("p") BY <1>0, <1>a, <2>2, <2>5, <2>6, SeesGrab
  <2> QED BY <2>7 DEF Pipeline!DlNext
<1>2. CASE ~ SomeUrl'
  <2>1. ~ Opened' /\ ~ AllCopied' /\ ~ Halted'
    BY <1>2, SomeFile DEF SomeUrl, Opened, AllCopied, Halted, Stuck, HasUrl, HasFile
  <2>2. CASE Returned'
    <3>1. \A g \in Files : worker'[g] = "missed"
      BY <1>2, <2>2, Around DEF SomeUrl, HasUrl, Ended
    <3>2. Wiped' /\ ~ Failed' BY <3>1, SomeFile DEF Wiped, Failed
    <3>3. err' = "missing" /\ Outcome' = "missing" /\ Disk' = Copy(onDisk')
      BY <2>1, <2>2, <3>1, Around DEF Errors, DInv, JoinedFits, TypeOK
    <3>4. Disk' = "none" BY <2>1, <3>2, <3>3 DEF DInv, FilesFit, Copy
    <3>5. UrlCause BY <1>a, <3>3 DEF DInv, CausesFit, UrlCause
    <3>6. Phase' = "return" BY <2>2, PhaseShape DEF PhaseIs
    <3>7. ~ Spoiled' BY <2>1, SpoiledShape DEF SpoiledIs
    <3>8. Pipeline!DlGrabFails("p") BY <1>0, <1>a, <3>3, <3>4, <3>5, <3>6, <3>7, SeesNoUrl
    <3> QED BY <3>8 DEF Pipeline!DlNext
  <2>3. CASE ~ Returned'
    <3>1. Phase' = "grab" BY <1>2, <2>1, <2>3, PhaseShape DEF PhaseIs
    <3>2. UNCHANGED <<Disk, Spoiled, Outcome>>
      BY <1>0, <1>a, <3>1, DiskShape, SpoiledShape, OutcomeShape
         DEF DiskIs, SpoiledIs, OutcomeIs, Copy
    <3> QED BY <1>0, <1>a, <3>1, <3>2, SeesNothing
  <2> QED BY <2>2, <2>3
<1> QED BY <1>1, <1>2

\* Some worker has a URL and none a file.
LEMMA SeesFromOpen ==
    ASSUME DInv, DInv', NEW f \in Files, Actions(f), ~ AllCopied, SomeUrl, ~ Opened
    PROVE  Pipeline!DlNext("p") \/ UNCHANGED Pipeline!vars
<1>a. /\ ~ Returned /\ ~ Halted /\ ~ Spoiled /\ Outcome = "none"
      /\ UNCHANGED <<gone, cancelled, found>>
      /\ cancelled \in BOOLEAN /\ gone \in BOOLEAN
  BY Around
<1>0. Phase = "open" BY <1>a, PhaseShape DEF PhaseIs
<1>1. CASE Opened'
  <2>1. worker[f] \notin HasFile /\ worker'[f] \in HasFile
    BY <1>1, WorkerShape DEF DInv, Opened, Joins
  <2>2. Creates(f)
    BY <2>1 DEF Actions, Starts, WorkerNext, GetsUrl, UrlFails, Wipes, Gets, MakesDir, Fails,
       Copies, CopyBreaks, Joins, Goes, HasFile, DInv, TypeOK
  <2>3. worker'[f] = "copy" BY <2>2 DEF Creates, Goes, DInv, TypeOK
  <2>4. ~ Returned' /\ ~ AllCopied' /\ ~ Halted'
    BY <2>3 DEF Returned, AllCopied, Halted, DInv, JoinedFits, Ended
  <2>5. Phase' = "copy" BY <1>1, <2>4, PhaseShape DEF PhaseIs
  <2>6. Disk' = "partial" /\ ~ Spoiled' /\ UNCHANGED Outcome
    BY <1>0, <1>a, <2>5, DiskShape, SpoiledShape, OutcomeShape DEF DiskIs, SpoiledIs, OutcomeIs
  <2>7. Pipeline!DlOpens("p") BY <1>0, <1>a, <2>5, <2>6, SeesOpen
  <2> QED BY <2>7 DEF Pipeline!DlNext
<1>2. CASE ~ Opened'
  <2>1. ~ AllCopied' /\ ~ Halted'
    BY <1>2, SomeFile DEF Opened, AllCopied, Halted, Stuck, HasFile
  <2>2. PICK g \in Files : worker[g] \in HasUrl /\ worker'[g] \in HasUrl
    BY WorkerShape DEF SomeUrl, DInv
  <2>3. CASE ~ Returned'
    <3>1. Phase' = "open" BY <1>2, <2>1, <2>2, <2>3, PhaseShape DEF PhaseIs, SomeUrl
    <3>2. UNCHANGED <<Disk, Spoiled, Outcome>>
      BY <1>0, <1>a, <3>1, DiskShape, SpoiledShape, OutcomeShape
         DEF DiskIs, SpoiledIs, OutcomeIs, Copy
    <3> QED BY <1>0, <1>a, <3>1, <3>2, SeesNothing
  <2>4. CASE Returned'
    <3>1. worker'[g] = "failed" /\ Failed'
      BY <1>2, <2>2, <2>4, Around DEF Opened, HasFile, HasUrl, Ended, Failed
    <3>2. /\ Phase' = "return" /\ ~ Spoiled' /\ err' \in Errors /\ Outcome' = err'
          /\ Disk' = Copy(onDisk')
      BY <1>2, <2>1, <2>4, Around, PhaseShape, SpoiledShape DEF PhaseIs, SpoiledIs
    <3>3. CASE Wiped'
      <4>1. PICK h \in Files : worker'[h] = "missed" BY <3>3 DEF Wiped
      <4>2. NumFiles > 1 BY <3>1, <4>1, TwoFiles
      <4>3. Disk' = "none" BY <1>2, <3>2, <3>3 DEF DInv, FilesFit, Copy
      <4>4. UrlCause \/ "io" \in Faults
        BY <1>a, <3>1 DEF DInv, CausesFit, UrlCause
      <4>5. err' = "missing" => UrlCause BY <1>a DEF DInv, CausesFit, UrlCause
      <4>6. Pipeline!DlOpenFails("p")
        BY <1>0, <1>a, <3>2, <4>2, <4>3, <4>4, <4>5, SeesOpenFail DEF Errors
      <4> QED BY <4>6 DEF Pipeline!DlNext
    <3>4. CASE ~ Wiped'
      <4>1. Disk' = Copy(found) /\ Disk = Copy(found)
        BY <1>0, <1>2, <1>a, <3>2, <3>4, DiskShape DEF DInv, FilesFit, DiskIs
      <4>2. err' = "error"
        BY <3>2, <3>4 DEF DInv, JoinedFits, TypeOK, Wiped, Errors
      <4>3. "io" \in Faults BY <3>1, <3>4 DEF DInv, CausesFit
      <4>4. Pipeline!DlOpenFails("p")
        BY <1>0, <1>a, <3>2, <4>1, <4>2, <4>3, SeesOpenFail
      <4> QED BY <4>4 DEF Pipeline!DlNext
    <3> QED BY <3>3, <3>4
  <2> QED BY <2>3, <2>4
<1> QED BY <1>1, <1>2

\* Some worker has opened its file.
LEMMA SeesFromCopy ==
    ASSUME DInv, DInv', NEW f \in Files, Actions(f), ~ AllCopied, Opened
    PROVE  Pipeline!DlNext("p") \/ UNCHANGED Pipeline!vars
<1>a. /\ ~ Returned /\ ~ Halted /\ ~ Spoiled /\ Outcome = "none"
      /\ UNCHANGED <<gone, cancelled, found>>
      /\ cancelled \in BOOLEAN /\ gone \in BOOLEAN
  BY Around
<1>0. Phase = "copy" /\ Disk = "partial"
  BY <1>a, PhaseShape, DiskShape DEF PhaseIs, DiskIs
<1>1. Opened' BY Lasting DEF DInv
<1>2. CASE AllCopied'
  <2>1. Copies(f)
    <3>1. PICK g \in Files : worker[g] # "copied" /\ worker'[g] = "copied"
      BY <1>2 DEF AllCopied
    <3>2. g = f BY <3>1, WorkerShape DEF DInv
    <3> QED BY <3>1, <3>2 DEF Actions, Starts, WorkerNext, GetsUrl, UrlFails, Wipes, Gets, MakesDir,
         Creates, Fails, CopyBreaks, Joins, Goes, DInv, TypeOK
  <2>2. ~ cancelled /\ err' = "none" BY <2>1 DEF Copies, CtxDone, group
  <2>3. Phase' = "return" BY <1>2, PhaseShape DEF PhaseIs
  <2>4. Outcome' = "finished" /\ Disk' = "complete"
    BY <1>2, <2>2, <2>3, OutcomeShape, DiskShape DEF OutcomeIs, DiskIs
  <2>5. ~ Spoiled' BY <1>2, SpoiledShape DEF SpoiledIs, Bad, AllCopied
  <2>6. Pipeline!DlCopies("p") BY <1>0, <1>a, <2>2, <2>3, <2>4, <2>5, SeesCopied
  <2> QED BY <2>6 DEF Pipeline!DlNext
<1>3. CASE Returned' /\ ~ AllCopied'
  <2>1. PICK g \in Files : worker'[g] \in {"missed", "failed"}
    BY <1>3, Around DEF AllCopied, Ended
  <2>2. PICK h \in Files : worker'[h] \in HasFile BY <1>1 DEF Opened
  <2>3. NumFiles > 1 BY <2>1, <2>2, TwoFiles DEF HasFile
  <2>4. Phase' = "return" BY <1>3, PhaseShape DEF PhaseIs
  <2>5. Spoiled' BY <1>1, <2>1, <2>4, SpoiledShape DEF SpoiledIs, Bad
  <2>6. Outcome' = err' /\ err' \in Errors /\ Disk' \in {"none", "partial"}
    BY <1>3, Around DEF Copy
  <2>7. /\ err' = "missing" => UrlCause
        /\ UrlCause \/ "io" \in Faults
    BY <1>a, <2>1 DEF DInv, CausesFit, UrlCause, Missing, Failed
  <2>8. Pipeline!DlSiblingFails("p")
    BY <1>0, <1>a, <2>3, <2>4, <2>5, <2>6, <2>7, SeesSiblingFail DEF Errors
  <2> QED BY <2>8 DEF Pipeline!DlNext
<1>4. CASE Halted' /\ ~ Returned' /\ ~ AllCopied'
  <2>1. Phase' = "stuck" BY <1>4, PhaseShape DEF PhaseIs
  <2>2. UNCHANGED Outcome /\ Disk' = Copy(onDisk')
    BY <1>4, <1>a, <2>1, OutcomeShape, DiskShape DEF OutcomeIs, DiskIs
  <2>3. PICK h \in Files : worker'[h] = "stuck" BY <1>4 DEF Halted, Stuck
  <2>4. CASE Bad'
    <3>1. PICK g \in Files : worker'[g] \in {"missed", "failed"} BY <2>4 DEF Bad
    <3>2. NumFiles > 1 BY <2>3, <3>1, TwoFiles
    <3>3. Spoiled' BY <1>1, <2>1, <2>4, SpoiledShape DEF SpoiledIs
    <3>4. Disk' \in {"none", "partial"} BY <2>2 DEF Copy
    <3>5. UrlCause \/ "io" \in Faults
      BY <1>a, <3>1 DEF DInv, CausesFit, UrlCause, Missing, Failed
    <3>6. Pipeline!DlSiblingFails("p")
      BY <1>0, <1>a, <2>1, <2>2, <3>2, <3>3, <3>4, <3>5, SeesSiblingFail
    <3> QED BY <3>6 DEF Pipeline!DlNext
  <2>5. CASE ~ Bad'
    <3>1. ~ Wiped' /\ err' = "none"
      BY <2>5 DEF Bad, Wiped, DInv, JoinedFits, TypeOK, Errors
    <3>2. ~ Spoiled' BY <2>5, SpoiledShape DEF SpoiledIs
    <3>3. Disk' = "partial"
      <4>1. onDisk'[h] # "absent" BY <2>3, <3>1 DEF DInv, FilesFit
      <4> QED BY <2>2, <4>1 DEF Copy, Nothing
    <3>4. cancelled \/ "copy" \in Faults
      BY <1>a, <2>3, <3>1 DEF DInv, CausesFit
    <3>5. UNCHANGED <<gone, cancelled, Disk, Spoiled, Outcome>>
      BY <1>0, <1>a, <2>2, <3>2, <3>3, SpoiledShape DEF SpoiledIs
    <3>6. Pipeline!DlCopyBreaks("p") BY <1>0, <2>1, <3>4, <3>5, SeesBreak
    <3> QED BY <3>6 DEF Pipeline!DlNext
  <2> QED BY <2>4, <2>5
<1>5. CASE ~ Returned' /\ ~ AllCopied' /\ ~ Halted'
  <2>1. Phase' = "copy" BY <1>1, <1>5, PhaseShape DEF PhaseIs
  <2>2. UNCHANGED <<Disk, Spoiled, Outcome>>
    BY <1>0, <1>a, <2>1, DiskShape, SpoiledShape, OutcomeShape DEF DiskIs, SpoiledIs, OutcomeIs
  <2> QED BY <1>0, <1>a, <2>1, <2>2, SeesNothing
<1> QED BY <1>2, <1>3, <1>4, <1>5

LEMMA PipelineStep ==
    ASSUME DInv, DInv', [Next]_vars
    PROVE  [Pipeline!DlNext("p") \/ Pipeline!RemoteRemoved("t") \/ CancelDownload]_(Pipeline!vars)
<1>1. ASSUME NEW f \in Files, Actions(f)
      PROVE  Pipeline!DlNext("p") \/ UNCHANGED Pipeline!vars
  BY <1>1, SeesAfterCopied, SeesFromGrab, SeesFromOpen, SeesFromCopy
<1>2. CASE Removed
  <2>1. UNCHANGED <<cancelled, worker, joined, err, onDisk, found>> /\ ~ gone /\ gone' = TRUE
    BY <1>2 DEF Removed, group
  <2>2. UNCHANGED Phase
    BY <2>1 DEF Phase, Returned, AllCopied, Halted, Stuck, Busy, HasFile, HasUrl
  <2>3. UNCHANGED <<Disk, Spoiled, Outcome>>
    BY <2>1, <2>2 DEF Disk, Copy, AllCopied, Spoiled, Outcome
  <2> QED BY <2>1, <2>2, <2>3, SeesRemoval
<1>3. CASE UNCHANGED vars
  <2>1. UNCHANGED <<gone, cancelled, worker, joined, err, onDisk, found>>
    BY <1>3 DEF vars, group
  <2>2. UNCHANGED Phase
    BY <2>1 DEF Phase, Returned, AllCopied, Halted, Stuck, Busy, HasFile, HasUrl
  <2>3. UNCHANGED <<Disk, Spoiled, Outcome>>
    BY <2>1, <2>2 DEF Disk, Copy, AllCopied, Spoiled, Outcome
  <2> QED BY <2>1, <2>2, <2>3, SeesNothing
<1> QED BY <1>1, <1>2, <1>3, StepCases

\* However many files and workers there are and however they interleave, the pipeline sees
\* one of the steps of its downloader: which outcome, with which files left on disk.
THEOREM DownloadImplementsPipeline == Spec => DownloadsAsPipeline
<1>1. DInv /\ DInv' /\ [Next]_vars =>
        [Pipeline!DlNext("p") \/ Pipeline!RemoteRemoved("t") \/ CancelDownload]_(Pipeline!vars)
  BY PipelineStep
<1> QED BY <1>1, DInvInvariant, PTL DEF Spec, DownloadsAsPipeline

=============================================================================
