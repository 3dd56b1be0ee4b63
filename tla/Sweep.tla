-------------------------------- MODULE Sweep --------------------------------
(***************************************************************************)
(* The directories of DOWNLOAD_DIR and everyone who makes and removes them: *)
(* downloads (ensureTargetDir and os.Create), the wipe of a release whose  *)
(* file Put.io has lost (DownloadTransfer), the removal of an imported     *)
(* release with its emptied parents (removeReleaseRoot, removeEmptyParents), *)
(* a user's retry, deletion or purge (internal/svc/transfers) and the      *)
(* periodic sweep (internal/downloader/sweep.go).                          *)
(*                                                                         *)
(* None of them holds a lock: each looks at a directory in one system call *)
(* and acts on it in another. A path is the sequence of its names below    *)
(* DOWNLOAD_DIR, which is << >>. Time is whether a directory's mtime lies  *)
(* further back than SweepMinAge.                                          *)
(***************************************************************************)
EXTENDS Naturals, Sequences, SequencesExt

CONSTANTS
    Workers,      \* the downloads, of a file each
    Layouts,      \* for each of them the path it writes and the path of its release,
                  \* a folder above it or the file itself, as Put.io may name them
    MaxCrashes,   \* bound: how often the process dies
    MaxRemovals   \* bound: how often a user has something removed

ASSUME LayoutAssumption ==
    \A l \in Layouts :
        /\ l.path \in [Workers -> Seq(STRING)] /\ l.release \in [Workers -> Seq(STRING)]
        /\ \A w \in Workers :
              Len(l.release[w]) >= 1 /\ IsPrefix(l.release[w], l.path[w])
        \* no file has the name of a directory another download needs
        /\ \A v, w \in Workers : ~ IsStrictPrefix(l.path[v], l.path[w])
ASSUME BoundsAssumption == MaxCrashes \in Nat /\ MaxRemovals \in Nat

VARIABLES
    layout,    \* how the downloads are laid out
    dirs,      \* the directories that exist
    old,       \* those of them that are older than SweepMinAge
    files,     \* the downloads whose file exists
    worker,    \* how far each download is; depth: the directory it makes next
    prune,     \* how far the removal of each one's release is
    sweep,     \* how far the sweep is, and the directories it has still to look at
    found,     \* the directories of its path that a running attempt found in place
    exposed,   \* history: the downloads whose attempt something below may have spoilt
    crashes,
    removals

vars == <<dirs, old, files, worker, prune, sweep, found, exposed, crashes, removals, layout>>

Path == layout.path
Release == layout.release

Root == << >>
Dir(w) == Front(Path[w])
OnPath(w) == {SubSeq(Dir(w), 1, n) : n \in 0 .. Len(Dir(w))}
AllDirs == UNION {{SubSeq(l.path[w], 1, n) : n \in 0 .. Len(l.path[w]) - 1} :
                     l \in Layouts, w \in Workers}
Siblings(w) == {v \in Workers : Release[v] = Release[w]}

\* What the download needs below DOWNLOAD_DIR, which nobody removes.
OwnPath(w) == OnPath(w) \ {Root}
Making(w) == worker[w].pc \in {"making", "create"}

Under(path, d) == IsPrefix(d, path)
Empty(d) ==
    /\ \A e \in dirs : Under(e, d) => e = d
    /\ \A w \in files : Dir(w) # d

WorkerPCs == {"idle", "making", "create", "failed", "done", "missing", "cleaned"}

TypeOK ==
    /\ layout \in Layouts
    /\ dirs \subseteq AllDirs /\ old \subseteq dirs
    /\ files \subseteq Workers /\ exposed \subseteq Workers
    /\ found \in [Workers -> SUBSET AllDirs]
    /\ worker \in [Workers -> [pc : WorkerPCs, depth : Nat]]
    /\ prune \in [Workers -> [pc : {"none", "read", "remove"}, dir : AllDirs]]
    /\ sweep \in [pc : {"idle", "next", "stat", "remove"}, dir : AllDirs,
                  todo : SUBSET (AllDirs \ {Root})]
    /\ crashes \in 0 .. MaxCrashes /\ removals \in 0 .. MaxRemovals

NoWorker == [pc |-> "idle", depth |-> 0]
NoPrune == [pc |-> "none", dir |-> Root]
NoSweep == [pc |-> "idle", dir |-> Root, todo |-> {}]

\* DOWNLOAD_DIR is there; below it is whatever earlier downloads, imports and
\* crashes have left.
Init ==
    /\ layout \in Layouts
    /\ dirs \in SUBSET UNION {OnPath(w) : w \in Workers}
    /\ Root \in dirs
    /\ \A d \in dirs : d # Root => Front(d) \in dirs
    /\ old \in SUBSET dirs
    /\ files = {}
    /\ worker = [w \in Workers |-> NoWorker]
    /\ prune = [w \in Workers |-> NoPrune]
    /\ sweep = NoSweep
    /\ found = [w \in Workers |-> {}]
    /\ exposed = {}
    /\ crashes = 0 /\ removals = 0

-----------------------------------------------------------------------------
(* System calls. What changes the entries of a directory renews its mtime. *)

Mkdir(d) ==
    /\ dirs' = dirs \cup {d}
    /\ old' = old \ {d, Front(d)}

\* Mutant: a directory made again in its place is as old as the first one was.
RmdirKeepsAge(d) ==
    /\ dirs' = dirs \ {d}
    /\ old' = old \ {Front(d)}

Rmdir(d) ==
    /\ dirs' = dirs \ {d}
    /\ old' = old \ {d, Front(d)}

\* os.RemoveAll, which says nothing if there is nothing to remove.
RemoveAll(path) ==
    /\ dirs' = {d \in dirs : ~Under(d, path)}
    /\ files' = {w \in files : ~Under(Path[w], path)}
    /\ old' = (old \cap dirs')
                 \ (IF path \in dirs \/ \E w \in files : Path[w] = path THEN {Front(path)} ELSE {})

\* os.Remove: a directory that is not empty, or not there, is left as it is.
RemoveDir(d) ==
    /\ IF d \in dirs /\ Empty(d) THEN Rmdir(d) ELSE UNCHANGED <<dirs, old>>
    /\ UNCHANGED files

-----------------------------------------------------------------------------
(* A download *)

\* MkdirAll looks for the deepest directory that is there.
MissingFrom(w) ==
    CHOOSE n \in 1 .. Len(Dir(w)) + 1 :
        /\ SubSeq(Dir(w), 1, n - 1) \in dirs
        /\ \A k \in n .. Len(Dir(w)) : SubSeq(Dir(w), 1, k) \notin dirs

Goes(w, pc, depth) == worker' = [worker EXCEPT ![w] = [pc |-> pc, depth |-> depth]]
GoesOn(w, depth) == Goes(w, IF depth > Len(Dir(w)) THEN "create" ELSE "making", depth)

\* What makes an attempt fail for want of a directory: that one it found in place is old,
\* or that the sweep has already found it so.
AtRisk(w) ==
    \/ OwnPath(w) \cap old # {}
    \/ sweep.pc = "remove" /\ sweep.dir \in OwnPath(w)

\* Mutant: what failed is not polled again.
StartsOnce(w) ==
    /\ worker[w].pc = "idle"
    /\ GoesOn(w, MissingFrom(w))
    /\ found' = [found EXCEPT ![w] = OnPath(w) \cap dirs]
    /\ exposed' = IF AtRisk(w) THEN exposed \cup {w} ELSE exposed \ {w}
    /\ UNCHANGED <<dirs, old, files, prune, sweep, crashes, removals, layout>>

\* A first attempt, or a later poll's.
Starts(w) ==
    /\ worker[w].pc \in {"idle", "failed"}
    /\ GoesOn(w, MissingFrom(w))
    /\ found' = [found EXCEPT ![w] = OnPath(w) \cap dirs]
    /\ exposed' = IF AtRisk(w) THEN exposed \cup {w} ELSE exposed \ {w}
    /\ UNCHANGED <<dirs, old, files, prune, sweep, crashes, removals, layout>>

Stops(w, pc) == Goes(w, pc, 0) /\ found' = [found EXCEPT ![w] = {}]

Makes(w) ==
    LET d == SubSeq(Dir(w), 1, worker[w].depth)
        made == GoesOn(w, worker[w].depth + 1) /\ UNCHANGED found IN
    /\ worker[w].pc = "making"
    /\ \/ d \in dirs /\ made /\ UNCHANGED <<dirs, old>>
       \/ d \notin dirs /\ Front(d) \in dirs /\ Mkdir(d) /\ made
       \/ d \notin dirs /\ Front(d) \notin dirs /\ Stops(w, "failed") /\ UNCHANGED <<dirs, old>>
    /\ UNCHANGED <<files, prune, sweep, exposed, crashes, removals, layout>>

Creates(w) ==
    /\ worker[w].pc = "create"
    /\ \/ /\ Dir(w) \in dirs
          /\ files' = files \cup {w}
          /\ old' = old \ {Dir(w)}
          /\ Stops(w, "done")
       \/ /\ Dir(w) \notin dirs
          /\ Stops(w, "failed")
          /\ UNCHANGED <<files, old>>
    /\ UNCHANGED <<dirs, prune, sweep, exposed, crashes, removals, layout>>

\* An os.RemoveAll that heeds no download exposes those that need what it takes.
Exposes ==
    exposed' = exposed \cup {w \in Workers : Making(w) /\ OwnPath(w) \cap (dirs \ dirs') # {}}

\* Put.io has no URL for the file, which is asked for before anything is made: the whole
\* release is taken away, what the downloads beside this one are making included.
Wipes(w) ==
    /\ worker[w].pc \in {"idle", "failed"}
    /\ RemoveAll(Release[w])
    /\ Exposes
    /\ Goes(w, "missing", 0)
    /\ UNCHANGED <<prune, sweep, found, crashes, removals, layout>>

-----------------------------------------------------------------------------
(* The removal of an imported release *)

\* *arr moves a file of a release that is downloaded into its library.
ArrMoves(w) ==
    /\ w \in files
    /\ \A v \in Siblings(w) : worker[v].pc = "done"
    /\ files' = files \ {w}
    /\ old' = old \ {Dir(w)}
    /\ UNCHANGED <<dirs, worker, prune, sweep, found, exposed, crashes, removals, layout>>

\* os.RemoveAll of the release root, once all of the release is downloaded.
RemovesRelease(w) ==
    /\ \A v \in Siblings(w) : worker[v].pc = "done"
    /\ RemoveAll(Release[w])
    /\ worker' = [v \in Workers |-> IF v \in Siblings(w) THEN [NoWorker EXCEPT !.pc = "cleaned"]
                                                         ELSE worker[v]]
    /\ prune' = [prune EXCEPT ![w] = [pc |-> "read", dir |-> Front(Release[w])]]
    /\ UNCHANGED <<sweep, found, exposed, crashes, removals, layout>>

\* removeEmptyParents reads a directory below DOWNLOAD_DIR ...
PruneReads(w) ==
    LET d == prune[w].dir IN
    /\ prune[w].pc = "read"
    /\ prune' = IF d # Root /\ d \in dirs /\ Empty(d)
                THEN [prune EXCEPT ![w].pc = "remove"]
                ELSE [prune EXCEPT ![w] = NoPrune]
    /\ UNCHANGED <<dirs, old, files, worker, sweep, found, exposed, crashes, removals, layout>>

\* ... removes it, and goes on with its parent.
PruneRemoves(w) ==
    LET d == prune[w].dir IN
    /\ prune[w].pc = "remove"
    /\ RemoveDir(d)
    /\ prune' = IF d \in dirs /\ Empty(d)
                THEN [prune EXCEPT ![w] = [pc |-> "read", dir |-> Front(d)]]
                ELSE [prune EXCEPT ![w] = NoPrune]
    /\ UNCHANGED <<worker, sweep, found, exposed, crashes, removals, layout>>

-----------------------------------------------------------------------------
(* What a user has removed *)

\* A deletion takes the files and the folder of a transfer, a purge every entry of
\* DOWNLOAD_DIR.
Removable ==
    {Path[w] : w \in Workers} \cup {Release[w] : w \in Workers} \cup {d \in dirs : Len(d) = 1}

UserRemoves(path) ==
    /\ removals < MaxRemovals
    /\ path \in Removable
    /\ RemoveAll(path)
    /\ Exposes
    /\ removals' = removals + 1
    /\ UNCHANGED <<worker, prune, sweep, found, crashes, layout>>

\* A retry takes the folder and has what has ended downloaded again; an imported release
\* is left out.
UserRetries(w) ==
    /\ removals < MaxRemovals
    /\ RemoveAll(Release[w])
    /\ Exposes
    /\ worker' = [v \in Workers |->
                     IF v \in Siblings(w) /\ worker[v].pc \in {"done", "failed", "missing"}
                     THEN NoWorker ELSE worker[v]]
    /\ removals' = removals + 1
    /\ UNCHANGED <<prune, sweep, found, crashes, layout>>

-----------------------------------------------------------------------------
(* The sweep *)

\* Mutant: only DOWNLOAD_DIR itself is read.
TopLevelOnly == {d \in dirs : Len(d) = 1}

\* filepath.WalkDir. What is made or removed behind its back, the steps below find out:
\* a directory that is gone is not empty, one that it sees being made is not old.
Walked == dirs \ {Root}

SweepBegins ==
    /\ sweep.pc = "idle"
    /\ sweep' = [NoSweep EXCEPT !.pc = "next", !.todo = Walked]
    /\ UNCHANGED <<dirs, old, files, worker, prune, found, exposed, crashes, removals, layout>>

\* Longer paths come first, so a directory comes after what is below it.
SweepReads(d) ==
    /\ sweep.pc = "next"
    /\ d \in sweep.todo
    /\ \A e \in sweep.todo : Under(e, d) => e = d
    /\ sweep' = [pc |-> IF d \in dirs /\ Empty(d) THEN "stat" ELSE "next",
                 dir |-> d, todo |-> sweep.todo \ {d}]
    /\ UNCHANGED <<dirs, old, files, worker, prune, found, exposed, crashes, removals, layout>>

\* Mutant: the age is not looked at.
SweepStatsNothing ==
    /\ sweep.pc = "stat"
    /\ sweep' = [sweep EXCEPT !.pc = "remove"]
    /\ UNCHANGED <<dirs, old, files, worker, prune, found, exposed, crashes, removals, layout>>

SweepStats ==
    /\ sweep.pc = "stat"
    /\ sweep' = [sweep EXCEPT !.pc = IF sweep.dir \in old THEN "remove" ELSE "next"]
    /\ UNCHANGED <<dirs, old, files, worker, prune, found, exposed, crashes, removals, layout>>

SweepRemoves ==
    /\ sweep.pc = "remove"
    /\ RemoveDir(sweep.dir)
    /\ sweep' = [sweep EXCEPT !.pc = "next"]
    /\ UNCHANGED <<worker, prune, found, exposed, crashes, removals, layout>>

SweepEnds ==
    /\ sweep.pc = "next" /\ sweep.todo = {}
    /\ sweep' = NoSweep
    /\ UNCHANGED <<dirs, old, files, worker, prune, found, exposed, crashes, removals, layout>>

-----------------------------------------------------------------------------
(***************************************************************************)
(* SweepMinAge goes by. The sweep compares with a time it takes when it    *)
(* begins, so no directory becomes old for it on the way. A directory made *)
(* since an attempt began is younger than the attempt, which never lasts   *)
(* SweepMinAge from MkdirAll to Create; one the attempt found in place,    *)
(* which MkdirAll does not renew, may pass the limit at any moment.        *)
(***************************************************************************)
Ages(d) ==
    /\ sweep.pc = "idle"
    /\ d \in dirs \ old
    /\ \A w \in Workers : Making(w) /\ d \in OwnPath(w) => d \in found[w]
    /\ old' = old \cup {d}
    /\ exposed' = exposed \cup {w \in Workers : Making(w) /\ d \in OwnPath(w) \cap found[w]}
    /\ UNCHANGED <<dirs, files, worker, prune, sweep, found, crashes, removals, layout>>

\* What is on disk stays; a download that was under way is made again later.
Crash ==
    /\ crashes < MaxCrashes
    /\ crashes' = crashes + 1
    /\ worker' = [w \in Workers |->
                     IF worker[w].pc \in {"done", "missing", "cleaned"} THEN worker[w] ELSE NoWorker]
    /\ prune' = [w \in Workers |-> NoPrune]
    /\ sweep' = NoSweep
    /\ found' = [w \in Workers |-> {}]
    /\ UNCHANGED <<dirs, old, files, exposed, removals, layout>>

Downloads(w) == Starts(w) \/ Makes(w) \/ Creates(w)
Prunes(w) == PruneReads(w) \/ PruneRemoves(w)
Sweeps ==
    \/ SweepBegins
    \/ \E d \in AllDirs : SweepReads(d)
    \/ SweepStats
    \/ SweepRemoves
    \/ SweepEnds
UserActs == (\E path \in Removable : UserRemoves(path)) \/ \E w \in Workers : UserRetries(w)

Next ==
    \/ \E w \in Workers :
          Downloads(w) \/ Wipes(w) \/ ArrMoves(w) \/ RemovesRelease(w) \/ Prunes(w)
    \/ UserActs
    \/ Sweeps
    \/ \E d \in AllDirs : Ages(d)
    \/ Crash

Spec == Init /\ [][Next]_vars

\* Each goroutine goes on, a failed download is polled again, the sweep's ticker
\* fires again and again, and a directory that nobody touches grows old.
Fairness ==
    /\ \A w \in Workers :
          /\ WF_vars(worker[w].pc # "idle" /\ Downloads(w))
          /\ WF_vars(Prunes(w))
    /\ WF_vars(Sweeps)
    /\ \A d \in AllDirs : SF_vars(Ages(d))

FairSpec == Spec /\ Fairness

-----------------------------------------------------------------------------
(* Properties *)

\* No other release has files or folders where a download puts its own.
Apart(w) == \A v \in Workers : OnPath(v) \cap OnPath(w) = {Root} \/ Release[v] = Release[w]

\* The age limit protects what a download makes: one that shares no directory with another
\* release, whose removal might prune it, fails for want of a directory only if one it
\* found in place was old or grew old under it, if the sweep had already found it old when
\* the attempt began, or if a user or the wipe of its own release took it away. A sweep
\* that looks again, a directory it has seen empty, or another release never does it
\* (sweep.go:101-117, CLEANUP_SWEEP_MIN_AGE).
FailsOnlyIfExposed == \A w \in Workers : Apart(w) /\ worker[w].pc = "failed" => w \in exposed

\* A download whose directory is taken away succeeds when it is made again, unless the
\* process dies or the download is found missing: the sweep, the removals and the other
\* downloads get in its way now and then, not for ever (downloader.go:224, :543-564,
\* sweep.go:112).
DownloadSucceeds ==
    \A w \in Workers : Making(w) \/ worker[w].pc = "failed" ~>
        worker[w].pc \in {"done", "idle", "missing"}

\* Nobody is about to use a directory in which there is no file.
Orphan(d) ==
    /\ d \in dirs
    /\ \A w \in files : ~Under(Dir(w), d)
    /\ \A w \in Workers : Making(w) \/ worker[w].pc = "failed" => d \notin OnPath(w)

\* Nested empty trees collapse over successive runs of the sweep (sweep.go:66-68),
\* whatever crash left them.
OrphansCollapse == \A d \in AllDirs \ {Root} : []<>~Orphan(d)

=============================================================================
