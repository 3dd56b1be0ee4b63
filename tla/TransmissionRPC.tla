--------------------------- MODULE TransmissionRPC ---------------------------
(***************************************************************************)
(* The Transmission RPC through which Sonarr and Radarr add, configure and *)
(* remove torrents (internal/http/rest/transmission.go), the table that    *)
(* ties a torrent's hash to a Put.io transfer and to its seed criteria     *)
(* (internal/storage/sqlite), and the calls to Put.io behind it            *)
(* (internal/dc/putio), beside the web UI's removal of the same transfers. *)
(*                                                                         *)
(* A torrent stands for its infohash. A transfer's identifier stands also  *)
(* for the hash made of it, which names transfers of unknown infohash.     *)
(* What a request carries is chosen at the step that first looks at it.    *)
(***************************************************************************)
EXTENDS Naturals, Sequences, SequencesExt

CONSTANTS
    Torrents,    \* the torrents *arr adds
    Ids,         \* Put.io transfer identifiers, each given once
    Legacy,      \* the transfers added before hashes were stored
    ArrCalls,    \* calls *arr may have under way
    UICalls,     \* requests the web UI may have under way
    Columns,     \* the table's columns of seed limits, modes and the stopped flag
    Values,      \* what may be stored in them
    Faults,      \* "api", "db" and "lost": Put.io acts but its answer is lost
    None         \* SQL's NULL, and no value at all

ASSUME HashAssumption == Torrents \cap Ids = {} /\ None \notin Torrents \cup Ids
ASSUME LegacyAssumption == Legacy \subseteq Ids
ASSUME FaultAssumption == Faults \subseteq {"api", "db", "lost"}

VARIABLES
    state,     \* what Put.io knows of each transfer
    torrent,   \* the torrent of each transfer
    magnet,    \* the transfers whose magnet link Put.io tells
    stored,    \* the transfers whose files Put.io has
    rows,      \* the table torrent_seed_criteria, in the order of its rowids
    call,      \* the calls under way
    answered,  \* history: the transfer that torrent-add last answered *arr with,
               \* until *arr has it removed
    wanted     \* history: the criteria accepted for a hash since they were last forgotten

putio == <<state, torrent, magnet, stored>>
seen == <<answered, wanted>>
vars == <<putio, rows, call, seen>>

Hashes == Torrents \cup Ids
Calls == ArrCalls \cup UICalls
Listed == {i \in Ids : state[i] \in {"downloading", "finished"}}

\* What a torrent-set, -stop or -start writes; None leaves a column as it is.
Criteria == [Columns -> Values \cup {None}]
NoCriteria == [f \in Columns |-> None]

Rows == [hash : Hashes, id : Ids \cup {None}, criteria : Criteria]

\* A call: the hash it is about, the transfer it has found for it so far, and
\* whether it deletes the transfer's files.
Idle == [op |-> "idle", pc |-> "idle", hash |-> None, id |-> None, data |-> FALSE]
PCs == {"idle", "add", "list", "resolve", "associate", "update", "list_again",
        "resolve_again", "find", "cancel", "purge", "forget", "absent"}

\* One row per hash: it is the table's primary key.
TypeOK ==
    /\ state \in [Ids -> {"unused", "downloading", "finished", "gone"}]
    /\ torrent \in [Ids -> Torrents \cup {None}]
    /\ magnet \subseteq Ids /\ stored \subseteq Ids
    /\ rows \in Seq(Rows)
    /\ \A j, k \in DOMAIN rows : rows[j].hash = rows[k].hash => j = k
    /\ call \in [Calls -> [op : {"idle", "add", "update", "remove", "delete"}, pc : PCs,
                           hash : Hashes \cup {None}, id : Ids \cup {None},
                           data : BOOLEAN]]
    /\ \A c \in Calls :
          call[c].pc \in {"associate", "find", "cancel", "purge"} => call[c].id # None
    /\ answered \in [Torrents -> Ids \cup {None}]
    /\ wanted \in [Hashes -> Criteria]

Init ==
    /\ state = [i \in Ids |-> IF i \in Legacy THEN "downloading" ELSE "unused"]
    /\ torrent \in [Ids -> Torrents \cup {None}]
    /\ \A i \in Ids : torrent[i] = None <=> i \notin Legacy
    /\ magnet \in SUBSET Legacy
    /\ stored = {}
    /\ rows = << >>
    /\ call = [c \in Calls |-> Idle]
    /\ answered = [t \in Torrents |-> None]
    /\ wanted = [h \in Hashes |-> NoCriteria]

-----------------------------------------------------------------------------
(* The table torrent_seed_criteria *)

Has(h) == \E k \in DOMAIN rows : rows[k].hash = h
RowWith(h) == CHOOSE k \in DOMAIN rows : rows[k].hash = h

\* The row of a hash; when there is none, the one an insertion starts from.
RowOf(h) ==
    IF Has(h) THEN rows[RowWith(h)]
    ELSE [hash |-> h, id |-> None, criteria |-> NoCriteria]

\* The first row of a transfer.
HasFor(i) == \E k \in DOMAIN rows : rows[k].id = i
FirstFor(i) ==
    CHOOSE k \in DOMAIN rows :
        rows[k].id = i /\ \A j \in DOMAIN rows : rows[j].id = i => k <= j

\* INSERT ... ON CONFLICT(hash) DO UPDATE.
Upsert(h, row) ==
    rows' = IF Has(h) THEN [rows EXCEPT ![RowWith(h)] = row] ELSE Append(rows, row)

\* Mutants: a row that is there is left as it is, or gets a second beside it.
AssociateUnlessThere(h, i) ==
    IF Has(h) THEN UNCHANGED rows ELSE Upsert(h, [RowOf(h) EXCEPT !.id = i])
AssociateInserts(h, i) == rows' = Append(rows, [RowOf(h) EXCEPT !.id = i])

AssociateTorrentHash(h, i) == Upsert(h, [RowOf(h) EXCEPT !.id = i])

\* COALESCE(new, old), column by column.
Merge(old, new) == [f \in Columns |-> IF new[f] = None THEN old[f] ELSE new[f]]

\* Mutant: the columns that are not given are cleared.
UpdateOverwrites(h, new) == Upsert(h, [RowOf(h) EXCEPT !.criteria = new])

UpdateTorrentSeedCriteria(h, new) ==
    Upsert(h, [RowOf(h) EXCEPT !.criteria = Merge(@, new)])

DeleteTorrentSeedCriteria(h) ==
    rows' = IF Has(h) THEN RemoveAt(rows, RowWith(h)) ELSE rows

-----------------------------------------------------------------------------
(* torrent-get *)

\* The hash a transfer is listed under: that of its first row, else of its
\* magnet link, else the one made of its identifier.
ListedAs(i) ==
    IF HasFor(i) THEN rows[FirstFor(i)].hash
    ELSE IF i \in magnet THEN torrent[i]
    ELSE i

\* The criteria a transfer is shown with: those of its first row, else those
\* of the row of its hash.
CriteriaOf(i) ==
    IF HasFor(i) THEN rows[FirstFor(i)].criteria ELSE RowOf(ListedAs(i)).criteria

-----------------------------------------------------------------------------
(* Calls arrive *)

\* The hashes *arr keeps as download identifiers: those torrent-add answered
\* with, and those of the transfers from before.
Told == {t \in Torrents : answered[t] # None} \cup Legacy

\* *arr does not add a torrent while it still awaits an answer about it.
Untouched(h) == \A c \in ArrCalls : call[c].hash # h
Adding(h) == \E c \in ArrCalls : call[c].op = "add" /\ call[c].hash = h

Begin(c, new) ==
    /\ call[c] = Idle
    /\ call' = [call EXCEPT ![c] = new]
    /\ UNCHANGED <<putio, rows, seen>>

\* *arr sends metainfo or a magnet link, which tell the torrent's hash.
TorrentAdd(c) ==
    \E t \in Torrents :
        /\ Untouched(t)
        /\ Begin(c, [Idle EXCEPT !.op = "add", !.pc = "add", !.hash = t])

\* torrent-set, torrent-stop and torrent-start.
TorrentSet(c) ==
    \E h \in Told :
        /\ ~ Adding(h)
        /\ Begin(c, [Idle EXCEPT !.op = "update", !.pc = "list", !.hash = h])

TorrentRemove(c) ==
    \E h \in Told :
        /\ ~ Adding(h)
        /\ Begin(c, [Idle EXCEPT !.op = "remove", !.pc = "list", !.hash = h])

UIDelete(c) ==
    \E i \in Ids :
        /\ state[i] # "unused"
        /\ Begin(c, [Idle EXCEPT !.op = "delete", !.pc = "find", !.id = i])

-----------------------------------------------------------------------------
(* The steps of a call *)

Goto(c, pc) == call' = [call EXCEPT ![c].pc = pc]
Ends(c) == call' = [call EXCEPT ![c] = Idle]
AfterEnsured(c) == IF call[c].op = "remove" THEN "list_again" ELSE "update"

\* AddTransfer, AddTransferByBytes: Put.io makes a transfer. When its answer
\* is lost the call fails although the transfer is there.
Adds(c) ==
    /\ call[c].pc = "add"
    /\ \E i \in Ids :
          /\ state[i] = "unused"
          /\ state' = [state EXCEPT ![i] = "downloading"]
          /\ torrent' = [torrent EXCEPT ![i] = call[c].hash]
          /\ magnet' \in {magnet, magnet \cup {i}}
          /\ \/ call' = [call EXCEPT ![c].pc = "associate", ![c].id = i]
             \/ "lost" \in Faults /\ Ends(c)
    /\ UNCHANGED <<stored, rows, seen>>

FindTransferByHash(h) == {i \in Listed : i = h \/ (i \in magnet /\ torrent[i] = h)}

\* GetTaggedTorrents leaves out a transfer whose folder or files it cannot get;
\* of its list the call will need the first transfer with the hash, if any.
Lists(c) ==
    LET found == FindTransferByHash(call[c].hash)
    IN  /\ call[c].pc \in {"list", "list_again"}
        /\ \E i \in found \cup {None} :
              /\ i = None => found = {} \/ "api" \in Faults
              /\ call' = [call EXCEPT ![c].id = i,
                                      ![c].pc = IF @ = "list" THEN "resolve"
                                                ELSE "resolve_again"]
        /\ UNCHANGED <<putio, rows, seen>>

\* Mutant: a transfer found in the list comes before that of the row.
ResolvedByList(c) ==
    IF call[c].id # None THEN call[c].id ELSE RowOf(call[c].hash).id

\* The transfer a call's hash resolves to: that of its row, else the one found
\* in the list. The statement fails on a row without a transfer.
Resolved(c) ==
    IF Has(call[c].hash) THEN RowOf(call[c].hash).id ELSE call[c].id

\* ensureTorrentHashMappings.
Resolves(c) ==
    /\ call[c].pc = "resolve"
    /\ IF Resolved(c) = None THEN Ends(c)
       ELSE IF ~ Has(call[c].hash) THEN Goto(c, "associate")
       ELSE call' = [call EXCEPT ![c].id = None, ![c].pc = AfterEnsured(c)]
    /\ UNCHANGED <<putio, rows, seen>>

Associates(c) ==
    /\ call[c].pc = "associate"
    /\ AssociateTorrentHash(call[c].hash, call[c].id)
    /\ IF call[c].op = "add"
       THEN Ends(c) /\ answered' = [answered EXCEPT ![call[c].hash] = call[c].id]
       ELSE /\ call' = [call EXCEPT ![c].id = None, ![c].pc = AfterEnsured(c)]
            /\ UNCHANGED answered
    /\ UNCHANGED <<putio, wanted>>

\* torrent-set writes the limits and modes it carries, torrent-stop and -start
\* the stopped flag. A value out of range fails the call, as does the statement
\* (Fails).
Updates(c) ==
    /\ call[c].pc = "update"
    /\ \E new \in Criteria \ {NoCriteria} :
          /\ UpdateTorrentSeedCriteria(call[c].hash, new)
          /\ wanted' = [wanted EXCEPT ![call[c].hash] = Merge(@, new)]
    /\ Ends(c)
    /\ UNCHANGED <<putio, answered>>

\* resolveTransferIDs, after ensureTorrentHashMappings.
ResolvesAgain(c) ==
    /\ call[c].pc = "resolve_again"
    /\ IF Resolved(c) = None THEN Ends(c)
       ELSE call' = [call EXCEPT ![c].pc = "find", ![c].id = Resolved(c)]
    /\ UNCHANGED <<putio, rows, seen>>

\* RemoveTransfers: the transfer is looked up in a list of its own, which tells
\* also whether it has files. The UI's delete is answered with success when it
\* is not there, *arr's torrent-remove with an error.
Finds(c) ==
    LET i == call[c].id
    IN  /\ call[c].pc = "find"
        /\ \/ /\ i \in Listed
              /\ \E deleteFiles \in BOOLEAN :
                    /\ call[c].op = "delete" => deleteFiles
                    /\ call' = [call EXCEPT ![c].pc = "cancel",
                                            ![c].data = deleteFiles /\ i \in stored]
           \/ i \notin Listed /\ call[c].op = "remove" /\ Ends(c)
           \/ i \notin Listed /\ call[c].op = "delete" /\ Goto(c, "absent")
        /\ UNCHANGED <<putio, rows, seen>>

AnswersAbsent(c) ==
    /\ call[c].pc = "absent"
    /\ Ends(c)
    /\ UNCHANGED <<putio, rows, seen>>

\* What follows the removal: *arr's call forgets the criteria, the UI's is done.
AfterRemoval(c) ==
    IF call[c].op = "remove" THEN Goto(c, "forget") ELSE Ends(c)

Cancels(c) ==
    /\ call[c].pc = "cancel"
    /\ state' = [state EXCEPT ![call[c].id] = "gone"]
    /\ magnet' = magnet \ {call[c].id}
    /\ IF call[c].data THEN Goto(c, "purge") ELSE AfterRemoval(c)
    /\ UNCHANGED <<torrent, stored, rows, seen>>

Purges(c) ==
    /\ call[c].pc = "purge"
    /\ stored' = stored \ {call[c].id}
    /\ AfterRemoval(c)
    /\ UNCHANGED <<state, torrent, magnet, rows, seen>>

\* The removal is a success whether or not the row could be deleted.
Forgets(c) ==
    /\ call[c].pc = "forget"
    /\ \/ /\ DeleteTorrentSeedCriteria(call[c].hash)
          /\ wanted' = [wanted EXCEPT ![call[c].hash] = NoCriteria]
       \/ "db" \in Faults /\ UNCHANGED <<rows, wanted>>
    /\ answered' = [t \in Torrents |-> IF t = call[c].hash THEN None ELSE answered[t]]
    /\ Ends(c)
    /\ UNCHANGED putio

\* A call to Put.io or a statement fails and with it the call.
Fails(c) ==
    /\ \/ "api" \in Faults /\ call[c].pc \in {"add", "list", "list_again", "find",
                                              "cancel", "purge"}
       \/ "db" \in Faults /\ call[c].pc \in {"resolve", "associate", "update",
                                             "resolve_again"}
    /\ Ends(c)
    /\ UNCHANGED <<putio, rows, seen>>

\* Put.io has the files.
Completes(i) ==
    /\ state[i] = "downloading"
    /\ state' = [state EXCEPT ![i] = "finished"]
    /\ stored' = stored \cup {i}
    /\ UNCHANGED <<torrent, magnet, rows, call, seen>>

ArrBegins(c) == TorrentAdd(c) \/ TorrentSet(c) \/ TorrentRemove(c)

Step(c) ==
    \/ Adds(c) \/ Lists(c) \/ Resolves(c) \/ Associates(c) \/ Updates(c)
    \/ ResolvesAgain(c) \/ Finds(c) \/ AnswersAbsent(c) \/ Cancels(c) \/ Purges(c)
    \/ Forgets(c) \/ Fails(c)

Next ==
    \/ \E c \in ArrCalls : ArrBegins(c)
    \/ \E c \in UICalls : UIDelete(c)
    \/ \E c \in Calls : Step(c)
    \/ \E i \in Ids : Completes(i)

Spec == Init /\ [][Next]_vars

-----------------------------------------------------------------------------
(* Properties *)

\* A hash torrent-add has answered with goes on to name that transfer: as long
\* as the transfer is on Put.io, torrent-get lists it under that hash and
\* torrent-set and torrent-remove resolve the hash to it. What comes between:
\* removals by the UI that leave the row behind, further transfers of the same
\* torrent, lost answers, rows written by calls that had looked earlier.
AddedKeepsItsHash ==
    \A t \in Torrents :
        answered[t] \in Listed =>
            /\ ListedAs(answered[t]) = t
            /\ RowOf(t).id = answered[t]

\* The seed criteria torrent-get decides by, whether *arr is told that a
\* torrent has met its goal, are those *arr set, each column by the last call
\* that gave it.
GoalsAreFollowed ==
    \A t \in Torrents : answered[t] \in Listed => CriteriaOf(answered[t]) = wanted[t]

\* Only the transfer that was meant is taken off Put.io: the one the UI names;
\* for *arr one of the hash's torrent, or the one the hash was made for, and of
\* several of one torrent the one torrent-add had answered with, while it is
\* there.
RemovesOnlyWhatWasMeant ==
    [][\A i \in Listed : state'[i] = "gone" =>
          \E c \in Calls :
              LET h == call[c].hash
              IN  /\ call'[c] # call[c]
                  /\ \/ call[c].op = "delete" /\ call[c].id = i
                     \/ /\ call[c].op = "remove" /\ h \in {torrent[i], i}
                        /\ h \in Torrents /\ answered[h] \in Listed => answered[h] = i]_vars

=============================================================================
