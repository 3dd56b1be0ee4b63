----------------------------- MODULE ImportCheck -----------------------------
(***************************************************************************)
(* One import watcher (Downloader.WatchForImported) and the *arr apps whose *)
(* histories it reads: cleanupAfterImport asks each configured app in turn, *)
(* CheckImported (internal/svc/arr) walks that app's history page by page,  *)
(* and the release is removed once a record of it is found.                *)
(*                                                                         *)
(* An app answers one page at a time and its history grows at the front in *)
(* between, so records move from page to page under the walk. Paths are    *)
(* sequences of name parts and "/", cleaned.                               *)
(***************************************************************************)
EXTENDS Naturals, Sequences

CONSTANTS
    NumApps,       \* the configured apps, asked in the order 1, 2, ...
    PageSize,      \* records on a page
    Release,       \* the path of the release the watcher waits for
    Media,         \* the paths of its media files, imported one by one
    Elsewhere,     \* paths of other releases
    MaxRecords,    \* bound: how many records an app holds
    AfterImport,   \* CLEANUP_AFTER_IMPORT
    Faults         \* "api": a request fails, "rm": RemoveAll fails, "forget": an
                   \* app drops a record of its history

ASSUME NumAppsAssumption == NumApps \in Nat
ASSUME PageSizeAssumption == PageSize \in Nat \ {0}
ASSUME MaxRecordsAssumption == MaxRecords \in Nat
ASSUME MediaAssumption == Media \cap Elsewhere = {}
ASSUME AfterImportAssumption == AfterImport \in BOOLEAN

VARIABLES
    history,    \* what each app has recorded, newest first
    imported,   \* the media files *arr has imported
    disk,       \* the media files of the release in DOWNLOAD_DIR
    check,      \* how far the watcher is
    returned,   \* what cleanupAfterImport answered last
    knew,       \* history: the apps that had a record of the release when it was called,
                \* and have dropped none since
    reliable    \* the apps that answer a request when it is repeated; the others may be
                \* down for good

vars == <<history, imported, disk, check, returned, knew, reliable>>

Apps == 1 .. NumApps

\* "imported" stands for the two import event types, "other" for all the rest.
Records == [event : {"imported", "other"}, path : Media \cup Elsewhere]

Waiting == [pc |-> "waiting", app |-> 0, page |-> 0, inspected |-> 0]
PCs == {"waiting", "walking", "confirmed", "cleaned", "ended"}

TypeOK ==
    /\ history \in [Apps -> Seq(Records)]
    /\ imported \subseteq Media
    /\ disk \subseteq Media
    /\ check \in [pc : PCs, app : Nat, page : Nat, inspected : Nat]
    /\ check.pc \in {"walking", "confirmed", "cleaned"} => check.app \in Apps
    /\ returned \in {"nothing", "not_imported", "failed", "imported"}
    /\ knew \subseteq Apps /\ reliable \subseteq Apps

\* A single-file release is its own media file; RemoveAll takes what is below.
Init ==
    /\ history = [a \in Apps |-> << >>]
    /\ imported = {}
    /\ disk = Media
    /\ check = Waiting
    /\ returned = "nothing"
    /\ knew = {}
    /\ reliable \in SUBSET Apps

-----------------------------------------------------------------------------
(* The history *)

StartsWith(path, start) ==
    /\ Len(start) <= Len(path)
    /\ \A k \in 1 .. Len(start) : path[k] = start[k]

\* Mutant: the separator is forgotten, so "show" takes in "show 2".
PathStartsAlike(candidate, releaseRoot) == StartsWith(candidate, releaseRoot)

PathWithinRelease(candidate, releaseRoot) ==
    \/ candidate = releaseRoot
    \/ StartsWith(candidate, Append(releaseRoot, "/"))

RecordMatchesRelease(r) == r.event = "imported" /\ PathWithinRelease(r.path, Release)

Recorded(a) == \E k \in DOMAIN history[a] : RecordMatchesRelease(history[a][k])

\* The positions that page p of an app's history covers now.
OnPage(a, p) == {k \in DOMAIN history[a] : p * PageSize < k /\ k <= p * PageSize + PageSize}

\* How many records the answer to page p carries.
Received(a, p) ==
    IF Len(history[a]) <= p * PageSize THEN 0
    ELSE IF Len(history[a]) <= p * PageSize + PageSize THEN Len(history[a]) - p * PageSize
    ELSE PageSize

\* Mutant: the last record of a page that is not full is not waited for.
MoreButOne(a, n) == Len(history[a]) > n + 1

\* TotalRecords > inspected
More(a, n) == Len(history[a]) > n

-----------------------------------------------------------------------------
(* The watcher *)

\* The loop over the apps turns to app a, or ends.
Asks(a) ==
    /\ check' = IF a <= NumApps
                THEN [pc |-> "walking", app |-> a, page |-> 0, inspected |-> 0]
                ELSE Waiting
    /\ returned' = IF a <= NumApps THEN "nothing" ELSE "not_imported"

Tick ==
    /\ check.pc = "waiting"
    /\ knew' = {a \in Apps : Recorded(a)}
    /\ Asks(1)
    /\ UNCHANGED <<history, imported, disk, reliable>>

\* App a answers the request for page p, and the watcher looks at the records.
Answers(a, p) ==
    LET n == check.inspected + Received(a, p)
        found == \E k \in OnPage(a, p) : RecordMatchesRelease(history[a][k])
    IN  /\ check.pc = "walking" /\ check.app = a /\ check.page = p
        /\ \/ /\ found
              /\ check' = [check EXCEPT !.pc = "confirmed"]
              /\ UNCHANGED returned
           \/ /\ ~found /\ More(a, n)
              /\ check' = [check EXCEPT !.page = p + 1, !.inspected = n]
              /\ UNCHANGED returned
           \/ ~found /\ ~More(a, n) /\ Asks(a + 1)
        /\ UNCHANGED <<history, imported, disk, knew, reliable>>

\* Mutant: an error ends the watch.
FailsForGood ==
    /\ "api" \in Faults
    /\ check.pc = "walking"
    /\ check' = [Waiting EXCEPT !.pc = "ended"]
    /\ returned' = "failed"
    /\ UNCHANGED <<history, imported, disk, knew, reliable>>

\* A request fails; the next tick starts over.
Fails ==
    /\ "api" \in Faults
    /\ check.pc = "walking"
    /\ check' = Waiting
    /\ returned' = "failed"
    /\ UNCHANGED <<history, imported, disk, knew, reliable>>

Removes ==
    /\ check.pc = "confirmed"
    /\ disk' = IF AfterImport THEN {} ELSE disk
    /\ check' = [check EXCEPT !.pc = "cleaned"]
    /\ returned' = "imported"
    /\ UNCHANGED <<history, imported, knew, reliable>>

\* Mutant: what could not be removed is left behind.
RemoveErrorIgnored ==
    /\ "rm" \in Faults /\ AfterImport
    /\ check.pc = "confirmed"
    /\ disk' \in SUBSET disk
    /\ check' = [check EXCEPT !.pc = "cleaned"]
    /\ returned' = "imported"
    /\ UNCHANGED <<history, imported, knew, reliable>>

\* RemoveAll fails, part of the release removed.
RemoveFails ==
    /\ "rm" \in Faults /\ AfterImport
    /\ check.pc = "confirmed"
    /\ disk' \in SUBSET disk
    /\ check' = Waiting
    /\ returned' = "failed"
    /\ UNCHANGED <<history, imported, knew, reliable>>

\* The notification loop takes the transfer, and the watcher returns.
Announces ==
    /\ check.pc = "cleaned"
    /\ check' = [Waiting EXCEPT !.pc = "ended"]
    /\ UNCHANGED <<history, imported, disk, returned, knew, reliable>>

-----------------------------------------------------------------------------
(* The apps *)

\* An app imports a media file that is there, or records something else.
ArrRecords(a, r) ==
    /\ Len(history[a]) < MaxRecords
    /\ r.event = "imported" /\ r.path \in Media => r.path \in disk
    /\ history' = [history EXCEPT ![a] = << r >> \o @]
    /\ imported' = IF r.event = "imported" THEN imported \cup ({r.path} \cap Media) ELSE imported
    /\ UNCHANGED <<disk, check, returned, knew, reliable>>

\* An app drops a record, as when a series is deleted there.
ArrForgets(a, k) ==
    /\ "forget" \in Faults
    /\ k \in DOMAIN history[a]
    /\ history' = [history EXCEPT ![a] = SubSeq(@, 1, k - 1) \o SubSeq(@, k + 1, Len(@))]
    /\ knew' = knew \ {a}
    /\ UNCHANGED <<imported, disk, check, returned, reliable>>

-----------------------------------------------------------------------------
Watcher ==
    \/ Tick
    \/ \E a \in Apps : Answers(a, check.page)
    \/ Fails
    \/ Removes
    \/ RemoveFails
    \/ Announces

Arr ==
    \E a \in Apps :
        \/ \E r \in Records : ArrRecords(a, r)
        \/ \E k \in DOMAIN history[a] : ArrForgets(a, k)

Next == Watcher \/ Arr

Spec == Init /\ [][Next]_vars

(***************************************************************************)
(* The ticker fires for ever, and a request that gets no answer times out   *)
(* (the client's 30 s). An app that is reliable answers a request that is  *)
(* made again and again, though any one may fail; of the others nothing is *)
(* known. RemoveAll succeeds in the end, and the notification loop takes   *)
(* what it is sent.                                                        *)
(***************************************************************************)
Fairness ==
    /\ WF_vars(Tick) /\ WF_vars(Fails)
    /\ \A a \in Apps, p \in 0 .. MaxRecords : SF_vars(a \in reliable /\ Answers(a, p))
    /\ SF_vars(Removes)
    /\ WF_vars(Announces)

FairSpec == Spec /\ Fairness

-----------------------------------------------------------------------------
(* Properties *)

\* A check that ends with "not imported" has overlooked nothing: no app had a
\* record of the release when cleanupAfterImport was called (downloader.go:456-480,
\* arr.go:108-120), although the pages shift while they are read; only an app that
\* drops records meanwhile shifts them the other way, past the walk.
NoImportOverlooked == returned = "not_imported" => knew = {}

\* What is taken for an import of the release is one: some file of it has been
\* imported, whatever other releases and other events the history tells of
\* (recordMatchesRelease, pathWithinRelease).
ConfirmedIsImported == check.pc \in {"confirmed", "cleaned"} => imported # {}

\* A transfer is announced as imported only when its release is gone, not after
\* a removal that failed half way (downloader.go:308-320, 502-504).
AnnouncedIsRemoved == AfterImport /\ check.pc \in {"cleaned", "ended"} => disk = {}

\* From some time on, the histories only grow.
FinallyOnlyGrows == <>[][\A a \in Apps : Len(history'[a]) >= Len(history[a])]_history

\* A release that an app keeps on record as imported is announced in the end, as long as
\* that app and those asked before it are reliable: neither a request that fails now and
\* then, nor pages that shift, nor an app asked after it that is down for good prevents it.
\* An app asked before it that is down does, since its error ends the check
\* (downloader.go:456-464); and so would records dropped for ever while the pages are read.
ImportIsNoticed ==
    FinallyOnlyGrows =>
        \A a \in Apps :
            (1 .. a \subseteq reliable) /\ <>[]Recorded(a) =>
                <>(check.pc = "ended" /\ returned = "imported")

=============================================================================
