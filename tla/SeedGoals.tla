------------------------------ MODULE SeedGoals ------------------------------
(***************************************************************************)
(* When torrent-get calls a torrent stopped, which lets *arr remove it     *)
(* (internal/http/rest/transmission.go): the seed goals torrent-set stores, *)
(* their defaults, and their comparison with what Put.io has uploaded and   *)
(* how long it has seeded.                                                 *)
(*                                                                         *)
(* Ratios are in tenths. A limit is rounded to a float32, which has a      *)
(* largest value and a spacing, here the same everywhere; a float64 is     *)
(* exact, and an int64 wraps around.                                       *)
(***************************************************************************)
EXTENDS Integers

CONSTANTS
    Torrents,
    RatioLimits, IdleLimits,   \* what *arr may set, in tenths and in minutes
    Uploads, Seconds,          \* what Put.io may report
    Sizes,                     \* bytes Put.io counts as downloaded
    DefaultRatio, DefaultMinutes,
    IntMax,                    \* the largest int64
    Float32Max, Float32Step,   \* the largest float32, and how far they lie apart
    Faults,                    \* "db": a row cannot be read
    None                       \* an absent field: nil, NULL

ASSUME NumberAssumption ==
    /\ IntMax \in Nat /\ Float32Max \in Nat /\ Float32Step \in Nat \ {0}
    /\ RatioLimits \subseteq Int /\ Sizes \subseteq Nat
    /\ IdleLimits \subseteq -(IntMax + 1) .. IntMax
    /\ Uploads \subseteq Nat /\ Seconds \subseteq 0 .. IntMax
    /\ DefaultRatio \in 0 .. Float32Max
    /\ DefaultMinutes \in Nat /\ DefaultMinutes * 60 <= IntMax
ASSUME NoneAssumption == None \notin Int \cup BOOLEAN

VARIABLES
    criteria,   \* torrent_seed_criteria: the goals and the stop mark of each torrent
    listed,     \* what Put.io's list says of each
    local       \* the torrents whose files are downloaded

vars == <<criteria, listed, local>>

Optional(S) == S \cup {None}
Modes == 0 .. 2
Criteria == [ratioLimit : Optional(RatioLimits \cap Nat), ratioMode : Optional(Modes),
             idleLimit : Optional(IdleLimits \cap Nat), idleMode : Optional(Modes),
             stopped : Optional(BOOLEAN)]
NoCriteria == [ratioLimit |-> None, ratioMode |-> None,
               idleLimit |-> None, idleMode |-> None, stopped |-> None]

AvailableAs == {"completed", "seeding", "seedingwait"}
Transfers == [status : AvailableAs \cup {"downloading"},
              uploaded : Uploads, downloaded : Sizes, seconds : Seconds]

TypeOK ==
    /\ criteria \in [Torrents -> Criteria]
    /\ listed \in [Torrents -> Transfers]
    /\ local \subseteq Torrents

Init ==
    /\ criteria = [t \in Torrents |-> NoCriteria]
    /\ listed \in [Torrents -> [status : {"downloading"}, uploaded : Uploads \cap {0},
                                downloaded : Sizes, seconds : Seconds \cap {0}]]
    /\ local = {}

-----------------------------------------------------------------------------
(* torrent-set, torrent-stop and torrent-start *)

Requests == [ratioLimit : Optional(RatioLimits), ratioMode : Optional(-1 .. 3),
             idleLimit : Optional(IdleLimits), idleMode : Optional(-1 .. 3),
             stopped : {None}]

Valid(c) ==
    /\ c.ratioLimit \in Optional(Nat)
    /\ c.ratioMode \in Optional(Modes)
    /\ c.idleLimit \in Optional(Nat)
    /\ c.idleMode \in Optional(Modes)

\* COALESCE: an absent field leaves what is stored.
UpdateTorrentSeedCriteria(t, c) ==
    criteria' = [criteria EXCEPT ![t] =
        [f \in DOMAIN NoCriteria |-> IF c[f] = None THEN criteria[t][f] ELSE c[f]]]

TorrentSet(t) ==
    /\ \E c \in Requests : Valid(c) /\ UpdateTorrentSeedCriteria(t, c)
    /\ UNCHANGED <<listed, local>>

UpdateTorrentState(t) ==
    /\ \E stopped \in BOOLEAN :
          UpdateTorrentSeedCriteria(t, [NoCriteria EXCEPT !.stopped = stopped])
    /\ UNCHANGED <<listed, local>>

-----------------------------------------------------------------------------
(* Put.io and the downloader *)

\* A transfer becomes available, and its status changes among those of one that is.
PutioAdvances(t) ==
    /\ \E s \in AvailableAs : listed' = [listed EXCEPT ![t].status = s]
    /\ UNCHANGED <<criteria, local>>

Seeds(t) ==
    /\ listed[t].status \in AvailableAs
    /\ \E u \in Uploads, s \in Seconds :
          /\ u >= listed[t].uploaded
          /\ s > listed[t].seconds
          /\ listed' = [listed EXCEPT ![t].uploaded = u, ![t].seconds = s]
    /\ UNCHANGED <<criteria, local>>

Downloads(t) ==
    /\ listed[t].status \in AvailableAs
    /\ local' = local \cup {t}
    /\ UNCHANGED <<criteria, listed>>

-----------------------------------------------------------------------------
(* torrent-get *)

\* A limit becomes the float32 next to it; one too large an infinity, which is not reached.
Inf == Float32Max + 1
Nearest(r) == Float32Step * ((r + Float32Step \div 2) \div Float32Step)
Float32(r) == IF Nearest(r) > Float32Max THEN Inf ELSE Nearest(r)

\* Multiplication of int64s.
Wrap(n) == ((n + IntMax + 1) % (2 * (IntMax + 1))) - (IntMax + 1)

\* Mutant: without a limit of its own, a torrent follows session-get, which has none.
SeedsUnlimited(c) ==
    [limit |-> IF c.idleLimit = None THEN DefaultMinutes ELSE c.idleLimit,
     mode  |-> IF c.idleMode = None THEN 0 ELSE c.idleMode]

SeedRatioCriteria(c) ==
    [limit |-> IF c.ratioLimit = None THEN DefaultRatio ELSE Float32(c.ratioLimit),
     mode  |-> IF c.ratioMode = None THEN 1 ELSE c.ratioMode]
SeedIdleCriteria(c) ==
    [limit |-> IF c.idleLimit = None THEN DefaultMinutes ELSE c.idleLimit,
     mode  |-> IF c.idleMode = None THEN 1 ELSE c.idleMode]

\* uploadRatio(uploaded, downloaded) >= r / 10
RatioIsAtLeast(p, r) ==
    IF p.downloaded = 0 THEN r <= 0 ELSE 10 * p.uploaded >= r * p.downloaded

\* Mutant: a mode that is not 2 has the torrent's own limit.
RatioReachedAnyMode(p, goal) ==
    goal.mode # 2 /\ RatioIsAtLeast(p, goal.limit)

RatioReached(p, goal) ==
    \/ goal.mode = 1 /\ goal.limit # Inf /\ RatioIsAtLeast(p, goal.limit)
    \/ goal.mode = 0 /\ RatioIsAtLeast(p, 10)

IdleReached(p, goal) == goal.mode = 1 /\ p.seconds > Wrap(goal.limit * 60)

\* The gate on local files comes first: until then the torrent still downloads.
Status(t) ==
    CASE listed[t].status = "downloading" \/ t \notin local -> "download"
      [] listed[t].status = "seedingwait" /\ t \in local -> "seed_wait"
      [] OTHER -> "seed"

\* Mutant: a torrent that waits for its turn to seed is overlooked.
SeedGoalReachedSeeding(t, c, status) ==
    /\ status = "seed"
    /\ \/ RatioReached(listed[t], SeedRatioCriteria(c))
       \/ IdleReached(listed[t], SeedIdleCriteria(c))

SeedGoalReached(t, c, status) ==
    /\ status \in {"seed", "seed_wait"}
    /\ \/ RatioReached(listed[t], SeedRatioCriteria(c))
       \/ IdleReached(listed[t], SeedIdleCriteria(c))

\* The row of a torrent as torrent-get reads it; one that it cannot read is as if
\* it were not there.
CriteriaRead(t) == {criteria[t]} \cup (IF "db" \in Faults THEN {NoCriteria} ELSE {})

Reported(t, c) ==
    LET status == IF c.stopped = TRUE THEN "stopped" ELSE Status(t)
    IN  IF SeedGoalReached(t, c, status) THEN "stopped" ELSE status

-----------------------------------------------------------------------------
Next == \E t \in Torrents :
    \/ TorrentSet(t) \/ UpdateTorrentState(t)
    \/ PutioAdvances(t) \/ Seeds(t) \/ Downloads(t)

Spec == Init /\ [][Next]_vars

\* A transfer is fetched and downloaded in the end, and seeds on.
Fairness == \A t \in Torrents :
    /\ WF_vars(listed[t].status = "downloading" /\ PutioAdvances(t))
    /\ WF_vars(Downloads(t))
    /\ WF_vars(Seeds(t))

FairSpec == Spec /\ Fairness

-----------------------------------------------------------------------------
(* Properties *)

\* The goals of a row, as *arr has set them or as they are by default: the ratio from which
\* a torrent may stop and the one from which it must. They differ by the rounding of a
\* limit of its own, and by nothing for the ratio 1.0.
Exactly(r) == [from |-> r, to |-> r]
Rounded(r) == [from |-> r - (Float32Step \div 2), to |-> r + (Float32Step \div 2)]
RatioGoal(c) ==
    CASE c.ratioMode \in {None, 1} /\ c.ratioLimit = None -> {Exactly(DefaultRatio)}
      [] c.ratioMode \in {None, 1} /\ c.ratioLimit # None -> {Rounded(c.ratioLimit)}
      [] c.ratioMode = 0 -> {Exactly(10)}
      [] c.ratioMode = 2 -> {}
TimeGoal(c) ==
    CASE c.idleMode \in {None, 1} /\ c.idleLimit = None -> {DefaultMinutes}
      [] c.idleMode \in {None, 1} /\ c.idleLimit # None -> {c.idleLimit}
      [] c.idleMode \in {0, 2} -> {}

\* A torrent that *arr has not stopped is reported stopped, which lets *arr remove it,
\* only when one of its goals is met, and always when one is passed, the rounding of a
\* ratio limit to a float32 allowed for (README.md:210, transmission.go:863-914). Its
\* goals are those of the row as it is read: a row that cannot be read has the defaults.
StopsAtItsGoal == \A t \in Torrents : \A c \in CriteriaRead(t) :
    LET p == listed[t]
        stops == Reported(t, c) = "stopped"
    IN  c.stopped # TRUE =>
            /\ stops => \/ \E g \in RatioGoal(c) : RatioIsAtLeast(p, g.from)
                        \/ \E m \in TimeGoal(c) : p.seconds >= m * 60
            /\ /\ Status(t) # "download"
               /\ \/ \E g \in RatioGoal(c) : RatioIsAtLeast(p, g.to)
                  \/ \E m \in TimeGoal(c) : p.seconds > m * 60
               => stops

\* A torrent reported stopped stays so while nothing changes what *arr has set, however
\* Put.io's status of it changes: *arr does not lose its leave to remove it.
StaysStopped ==
    [][criteria' = criteria =>
        \A t \in Torrents : Reported(t, criteria[t]) = "stopped" => Reported(t, criteria[t])' = "stopped"]_vars

\* A torrent whose time goal is left alone is reported stopped in the end: Put.io does
\* not seed for ever what *arr would remove.
SeedingEnds == \A t \in Torrents :
    <>[](TimeGoal(criteria[t]) # {}) => <>[](Reported(t, criteria[t]) = "stopped")

=============================================================================
