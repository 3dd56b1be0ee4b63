--------------------------- MODULE SeedGoalsProofs ---------------------------
(***************************************************************************)
(* The types of SeedGoals, for any limits; and that a torrent stops at its *)
(* goal, up to the rounding of a float32, for any limits in the range of   *)
(* an int64 of seconds and of a float32.                                   *)
(***************************************************************************)
EXTENDS SeedGoals, TLAPS

\* Every goal that *arr may set is in the range of the arithmetic of torrent-get.
LimitsFit ==
    /\ \A r \in RatioLimits : Nearest(r) <= Float32Max
    /\ \A m \in IdleLimits : m * 60 <= IntMax

-----------------------------------------------------------------------------
(* Types *)

\* What torrent-set accepts and merges into a row is a row.
LEMMA MergedIsCriteria ==
    ASSUME NEW c \in Criteria, NEW d \in Criteria
    PROVE  [f \in DOMAIN NoCriteria |-> IF d[f] = None THEN c[f] ELSE d[f]] \in Criteria
  <1> DEFINE e == [f \in DOMAIN NoCriteria |-> IF d[f] = None THEN c[f] ELSE d[f]]
  <1>1. DOMAIN NoCriteria = {"ratioLimit", "ratioMode", "idleLimit", "idleMode", "stopped"}
    BY DEF NoCriteria
  <1>2. e = [ratioLimit |-> e.ratioLimit, ratioMode |-> e.ratioMode, idleLimit |-> e.idleLimit,
             idleMode |-> e.idleMode, stopped |-> e.stopped]
    BY <1>1
  <1>3. /\ e.ratioLimit \in Optional(RatioLimits \cap Nat) /\ e.ratioMode \in Optional(Modes)
        /\ e.idleLimit \in Optional(IdleLimits \cap Nat) /\ e.idleMode \in Optional(Modes)
        /\ e.stopped \in Optional(BOOLEAN)
    BY <1>1 DEF Criteria
  <1> HIDE DEF e
  <1>4. e \in Criteria
    BY <1>2, <1>3 DEF Criteria
  <1> QED BY <1>4 DEF e

\* A request that is valid holds limits and modes a row may hold.
LEMMA ValidIsCriteria ==
    ASSUME NEW c \in Requests, Valid(c)
    PROVE  c \in Criteria
  BY NoneAssumption DEF Requests, Valid, Criteria, Optional, Modes

\* Criteria, Put.io's numbers and the downloads stay what their types say.
THEOREM TypeCorrect == Spec => []TypeOK
  <1>1. Init => TypeOK
    BY DEF Init, TypeOK, Criteria, NoCriteria, Optional, Transfers
  <1>2. TypeOK /\ [Next]_vars => TypeOK'
    <2> SUFFICES ASSUME TypeOK, [Next]_vars PROVE TypeOK'
      OBVIOUS
    <2>1. ASSUME NEW t \in Torrents, TorrentSet(t) PROVE TypeOK'
      <3>1. PICK c \in Requests : Valid(c) /\ UpdateTorrentSeedCriteria(t, c)
        BY <2>1 DEF TorrentSet
      <3>2. c \in Criteria
        BY <3>1, ValidIsCriteria
      <3>3. [f \in DOMAIN NoCriteria |-> IF c[f] = None THEN criteria[t][f] ELSE c[f]] \in Criteria
        BY <3>2, MergedIsCriteria DEF TypeOK
      <3>4. criteria' \in [Torrents -> Criteria]
        BY <3>1, <3>3 DEF TypeOK, UpdateTorrentSeedCriteria
      <3> QED BY <2>1, <3>4 DEF TorrentSet, TypeOK
    <2>2. ASSUME NEW t \in Torrents, UpdateTorrentState(t) PROVE TypeOK'
      <3>1. PICK b \in BOOLEAN :
                UpdateTorrentSeedCriteria(t, [NoCriteria EXCEPT !.stopped = b])
        BY <2>2 DEF UpdateTorrentState
      <3>2. [NoCriteria EXCEPT !.stopped = b] \in Criteria
        BY DEF NoCriteria, Criteria, Optional
      <3>3. [f \in DOMAIN NoCriteria |->
                IF [NoCriteria EXCEPT !.stopped = b][f] = None
                THEN criteria[t][f] ELSE [NoCriteria EXCEPT !.stopped = b][f]] \in Criteria
        BY <3>2, MergedIsCriteria DEF TypeOK
      <3>4. criteria' \in [Torrents -> Criteria]
        BY <3>1, <3>3 DEF TypeOK, UpdateTorrentSeedCriteria
      <3> QED BY <2>2, <3>4 DEF UpdateTorrentState, TypeOK
    <2>3. ASSUME NEW t \in Torrents, PutioAdvances(t) PROVE TypeOK'
      BY <2>3 DEF TypeOK, PutioAdvances, Transfers
    <2>4. ASSUME NEW t \in Torrents, Seeds(t) PROVE TypeOK'
      BY <2>4 DEF TypeOK, Seeds, Transfers
    <2>5. ASSUME NEW t \in Torrents, Downloads(t) PROVE TypeOK'
      BY <2>5 DEF TypeOK, Downloads
    <2>6. CASE UNCHANGED vars
      BY <2>6 DEF TypeOK, vars
    <2> QED BY <2>1, <2>2, <2>3, <2>4, <2>5, <2>6 DEF Next
  <1> QED BY <1>1, <1>2, PTL DEF Spec

-----------------------------------------------------------------------------
(* Goals *)

LEMMA ModuloOfSmaller ==
    ASSUME NEW a \in Nat, NEW b \in Nat, a < b
    PROVE  a % b = a
  BY SMT

\* Multiplication does not wrap around where the product is an int64.
LEMMA WrapFits ==
    ASSUME NEW n \in Nat, n <= IntMax
    PROVE  Wrap(n) = n
  <1> DEFINE a == n + IntMax + 1
             b == 2 * (IntMax + 1)
  <1>1. a \in Nat /\ b \in Nat /\ a < b
    BY NumberAssumption
  <1> HIDE DEF a, b
  <1>2. a % b = a
    BY <1>1, ModuloOfSmaller
  <1>3. Wrap(n) = a - (IntMax + 1)
    BY <1>2 DEF Wrap, a, b
  <1> QED BY <1>3, NumberAssumption DEF a

\* The idle goal that seedGoalReached compares with is the one *arr has set.
LEMMA IdleReachedIsTheGoal ==
    ASSUME LimitsFit, NEW t \in Torrents, NEW c \in Criteria
    PROVE  IdleReached(listed[t], SeedIdleCriteria(c))
               <=> \E m \in TimeGoal(c) : listed[t].seconds > m * 60
  <1> DEFINE limit == IF c.idleLimit = None THEN DefaultMinutes ELSE c.idleLimit
  <1>1. c.idleMode \in Optional(Modes) /\ c.idleLimit \in Optional(IdleLimits \cap Nat)
    BY DEF Criteria
  <1>2. limit \in Nat /\ limit * 60 <= IntMax
    BY <1>1, NumberAssumption DEF Optional, LimitsFit
  <1>3. Wrap(limit * 60) = limit * 60
    BY <1>2, WrapFits
  <1>4. TimeGoal(c) = IF c.idleMode \in {None, 1} THEN {limit} ELSE {}
    BY <1>1, NoneAssumption DEF TimeGoal, Optional, Modes
  <1>5. SeedIdleCriteria(c).mode = 1 <=> c.idleMode \in {None, 1}
    BY DEF SeedIdleCriteria
  <1>6. SeedIdleCriteria(c).limit = limit
    BY DEF SeedIdleCriteria
  <1> HIDE DEF limit
  <1> QED BY <1>3, <1>4, <1>5, <1>6 DEF IdleReached

LEMMA Division ==
    ASSUME NEW x \in Int, NEW d \in Nat \ {0}
    PROVE  /\ x \div d \in Int
           /\ d * (x \div d) <= x /\ x < d * (x \div d) + d
  BY SMT

\* A float32 is at most half a step away from the number it stands for.
LEMMA NearestIsNear ==
    ASSUME NEW r \in Int
    PROVE  /\ Nearest(r) \in Int
           /\ r - (Float32Step \div 2) <= Nearest(r) /\ Nearest(r) <= r + (Float32Step \div 2)
  <1> DEFINE half == Float32Step \div 2
             q == (r + half) \div Float32Step
             f == Float32Step * q
  <1>1. Float32Step \in Nat \ {0}
    BY NumberAssumption
  <1>2. half \in Int /\ 2 * half <= Float32Step /\ Float32Step < 2 * half + 2
    BY <1>1, Division
  <1> HIDE DEF half
  <1>3. q \in Int /\ f <= r + half /\ r + half < f + Float32Step
    BY <1>1, <1>2, Division
  <1>4. f \in Int
    BY <1>1, <1>3
  <1>5. Nearest(r) = f
    BY DEF Nearest, half
  <1> HIDE DEF q, f
  <1>6. r - half <= f /\ f <= r + half
    BY <1>1, <1>2, <1>3, <1>4
  <1> QED BY <1>4, <1>5, <1>6 DEF half

\* A ratio that is at least r is at least any smaller number.
LEMMA RatioIsAtLeastLess ==
    ASSUME NEW p, p.uploaded \in Nat, p.downloaded \in Nat, NEW q \in Int, NEW r \in Int,
           q <= r, RatioIsAtLeast(p, r)
    PROVE  RatioIsAtLeast(p, q)
  <1>1. CASE p.downloaded = 0
    BY <1>1 DEF RatioIsAtLeast
  <1>2. CASE p.downloaded # 0
    <2>1. \A d \in Nat : q * d <= r * d
      BY SMT
    <2>2. q * p.downloaded <= r * p.downloaded
      BY <2>1
    <2> DEFINE x == q * p.downloaded
               y == r * p.downloaded
               u == 10 * p.uploaded
    <2>3. x \in Int /\ y \in Int /\ u \in Int /\ x <= y /\ u >= y
      BY <1>2, <2>2 DEF RatioIsAtLeast
    <2> HIDE DEF x, y, u
    <2>4. u >= x
      BY <2>3
    <2> QED BY <1>2, <2>4 DEF RatioIsAtLeast, x, u
  <1> QED BY <1>1, <1>2

\* The ratio goal that seedGoalReached compares with lies where the row's goal is, as far
\* as rounding lets it.
LEMMA RatioReachedIsTheGoal ==
    ASSUME LimitsFit, TypeOK, NEW t \in Torrents, NEW c \in Criteria
    PROVE  /\ RatioReached(listed[t], SeedRatioCriteria(c))
                  => \E g \in RatioGoal(c) : RatioIsAtLeast(listed[t], g.from)
           /\ (\E g \in RatioGoal(c) : RatioIsAtLeast(listed[t], g.to))
                  => RatioReached(listed[t], SeedRatioCriteria(c))
  <1>0. listed[t].uploaded \in Nat /\ listed[t].downloaded \in Nat
    BY NumberAssumption DEF TypeOK, Transfers
  <1>1. c.ratioMode \in Optional(Modes) /\ c.ratioLimit \in Optional(RatioLimits \cap Nat)
    BY DEF Criteria
  <1>2. /\ SeedRatioCriteria(c).mode = 1 <=> c.ratioMode \in {None, 1}
        /\ SeedRatioCriteria(c).mode = 0 <=> c.ratioMode = 0
    BY NoneAssumption DEF SeedRatioCriteria
  <1>3. 0 \notin {None, 1} /\ 2 \notin {None, 0, 1} /\ 1 # 0
    BY NoneAssumption
  <1>4. CASE c.ratioMode \in {None, 1} /\ c.ratioLimit = None
    <2>1. RatioGoal(c) = {Exactly(DefaultRatio)}
      BY <1>3, <1>4 DEF RatioGoal
    <2>2. SeedRatioCriteria(c).limit = DefaultRatio /\ DefaultRatio # Inf
      BY <1>4, NumberAssumption DEF SeedRatioCriteria, Inf
    <2> QED BY <1>2, <1>3, <1>4, <2>1, <2>2 DEF RatioReached, Exactly
  <1>5. CASE c.ratioMode \in {None, 1} /\ c.ratioLimit # None
    <2> DEFINE r == c.ratioLimit
               f == Nearest(r)
    <2>1. r \in Nat /\ r \in RatioLimits
      BY <1>1, <1>5 DEF Optional
    <2>2. RatioGoal(c) = {Rounded(r)}
      BY <1>5, NoneAssumption DEF RatioGoal
    <2>3. /\ f \in Int /\ f <= Float32Max
          /\ Rounded(r).from <= f /\ f <= Rounded(r).to
          /\ Rounded(r).from \in Int /\ Rounded(r).to \in Int
      <3>1. Float32Step \div 2 \in Int
        BY NumberAssumption, Division
      <3> QED BY <2>1, <3>1, NearestIsNear DEF LimitsFit, Rounded
    <2>4. SeedRatioCriteria(c).limit = f /\ f # Inf
      <3>1. Float32Max \in Nat
        BY NumberAssumption
      <3>2. ~(f > Float32Max) /\ f # Inf
        BY <2>3, <3>1 DEF Inf
      <3> QED BY <1>5, <3>2 DEF SeedRatioCriteria, Float32
    <2>5. RatioReached(listed[t], SeedRatioCriteria(c)) <=> RatioIsAtLeast(listed[t], f)
      BY <1>2, <1>3, <1>5, <2>4 DEF RatioReached
    <2> HIDE DEF f, r
    <2>6. RatioIsAtLeast(listed[t], f) => RatioIsAtLeast(listed[t], Rounded(r).from)
      BY <1>0, <2>3, RatioIsAtLeastLess
    <2>7. RatioIsAtLeast(listed[t], Rounded(r).to) => RatioIsAtLeast(listed[t], f)
      BY <1>0, <2>3, RatioIsAtLeastLess
    <2> QED BY <2>2, <2>5, <2>6, <2>7
  <1>6. CASE c.ratioMode = 0
    <2>1. RatioGoal(c) = {Exactly(10)}
      BY <1>3, <1>6 DEF RatioGoal
    <2> QED BY <1>2, <1>3, <1>6, <2>1 DEF RatioReached, Exactly
  <1>7. CASE c.ratioMode = 2
    <2>1. RatioGoal(c) = {}
      BY <1>3, <1>7 DEF RatioGoal
    <2> QED BY <1>2, <1>3, <1>7, <2>1 DEF RatioReached
  <1> QED BY <1>1, <1>4, <1>5, <1>6, <1>7 DEF Optional, Modes

\* With limits in range, a torrent is reported stopped when a goal of its row as read is
\* met, up to the rounding of its ratio limit, whatever limits *arr sets and whatever
\* Put.io has uploaded (transmission.go:892-945).
THEOREM StopsWhereGoalsFit ==
    ASSUME LimitsFit
    PROVE  Spec => []StopsAtItsGoal
  <1>1. TypeOK => StopsAtItsGoal
    <2> SUFFICES ASSUME TypeOK, NEW t \in Torrents, NEW c \in CriteriaRead(t),
                        c.stopped # TRUE
                 PROVE  /\ Reported(t, c) = "stopped" =>
                              \/ \E g \in RatioGoal(c) : RatioIsAtLeast(listed[t], g.from)
                              \/ \E m \in TimeGoal(c) : listed[t].seconds >= m * 60
                        /\ /\ Status(t) # "download"
                           /\ \/ \E g \in RatioGoal(c) : RatioIsAtLeast(listed[t], g.to)
                              \/ \E m \in TimeGoal(c) : listed[t].seconds > m * 60
                           => Reported(t, c) = "stopped"
      BY DEF StopsAtItsGoal
    <2>1. c \in Criteria
      BY DEF CriteriaRead, TypeOK, Criteria, NoCriteria, Optional
    <2>2. Status(t) \in {"download", "seed", "seed_wait"}
      BY DEF Status
    <2>3. Reported(t, c) = "stopped" <=>
              /\ Status(t) # "download"
              /\ \/ RatioReached(listed[t], SeedRatioCriteria(c))
                 \/ \E m \in TimeGoal(c) : listed[t].seconds > m * 60
      BY <2>1, <2>2, IdleReachedIsTheGoal DEF Reported, SeedGoalReached
    <2>4. TimeGoal(c) \subseteq Nat /\ listed[t].seconds \in Nat
      BY <2>1, NumberAssumption DEF TypeOK, TimeGoal, Criteria, Optional, Modes, Transfers
    <2>5. ASSUME NEW m \in TimeGoal(c), listed[t].seconds > m * 60
          PROVE  listed[t].seconds >= m * 60
      BY <2>4, <2>5
    <2>6. /\ RatioReached(listed[t], SeedRatioCriteria(c))
                  => \E g \in RatioGoal(c) : RatioIsAtLeast(listed[t], g.from)
          /\ (\E g \in RatioGoal(c) : RatioIsAtLeast(listed[t], g.to))
                  => RatioReached(listed[t], SeedRatioCriteria(c))
      BY <2>1, RatioReachedIsTheGoal
    <2> QED BY <2>3, <2>5, <2>6
  <1> QED BY <1>1, TypeCorrect, PTL

LEMMA TransferNumbers ==
    ASSUME NEW p \in Transfers
    PROVE  p.uploaded \in Nat /\ p.downloaded \in Nat /\ p.seconds \in Nat
  <1>1. Uploads \subseteq Nat /\ Sizes \subseteq Nat
    BY NumberAssumption
  <1>2. Seconds \subseteq Nat
    BY NumberAssumption
  <1> QED BY <1>1, <1>2 DEF Transfers

\* Seeding on, a transfer keeps the ratio it has reached.
LEMMA RatioGrows ==
    ASSUME NEW p \in Transfers, NEW q \in Transfers, NEW r \in Int,
           q.downloaded = p.downloaded, q.uploaded >= p.uploaded, RatioIsAtLeast(p, r)
    PROVE  RatioIsAtLeast(q, r)
  <1>1. p.uploaded \in Nat /\ q.uploaded \in Nat /\ p.downloaded \in Nat
    BY TransferNumbers
  <1>2. CASE p.downloaded = 0
    BY <1>2 DEF RatioIsAtLeast
  <1>3. CASE p.downloaded # 0
    <2> DEFINE x == r * p.downloaded
    <2>1. x \in Int
      BY <1>1
    <2>2. 10 * p.uploaded >= x
      BY <1>3 DEF RatioIsAtLeast
    <2> HIDE DEF x
    <2>3. 10 * q.uploaded >= x
      BY <1>1, <2>1, <2>2
    <2> QED BY <1>3, <2>3 DEF RatioIsAtLeast, x
  <1> QED BY <1>2, <1>3

\* A goal that is met stays met while the transfer seeds on.
LEMMA GoalsStayReached ==
    ASSUME TypeOK, TypeOK', NEW t \in Torrents, criteria' = criteria,
           listed'[t].downloaded = listed[t].downloaded,
           listed'[t].uploaded >= listed[t].uploaded,
           listed'[t].seconds >= listed[t].seconds
    PROVE  /\ RatioReached(listed[t], SeedRatioCriteria(criteria[t]))
                  => RatioReached(listed'[t], SeedRatioCriteria(criteria[t]))
           /\ IdleReached(listed[t], SeedIdleCriteria(criteria[t]))
                  => IdleReached(listed'[t], SeedIdleCriteria(criteria[t]))
  <1>1. listed[t] \in Transfers /\ listed'[t] \in Transfers /\ criteria[t] \in Criteria
    BY DEF TypeOK
  <1>2. SeedRatioCriteria(criteria[t]).limit \in Int
    <2>1. \A r \in Int : Float32(r) \in Int
      BY NearestIsNear, NumberAssumption DEF Float32, Inf
    <2> QED BY <1>1, <2>1, NumberAssumption DEF SeedRatioCriteria, Criteria, Optional
  <1>3. RatioReached(listed[t], SeedRatioCriteria(criteria[t]))
            => RatioReached(listed'[t], SeedRatioCriteria(criteria[t]))
    BY <1>1, <1>2, RatioGrows DEF RatioReached
  <1>4. Wrap(SeedIdleCriteria(criteria[t]).limit * 60) \in Int
    <2>1. SeedIdleCriteria(criteria[t]).limit \in Int
      BY <1>1, NumberAssumption DEF SeedIdleCriteria, Criteria, Optional
    <2>2. \A n \in Int : Wrap(n) \in Int
      BY NumberAssumption DEF Wrap
    <2>3. SeedIdleCriteria(criteria[t]).limit * 60 \in Int
      BY <2>1
    <2> QED BY <2>2, <2>3
  <1>5. listed[t].seconds \in Int /\ listed'[t].seconds \in Int
    BY <1>1, TransferNumbers
  <1>6. IdleReached(listed[t], SeedIdleCriteria(criteria[t]))
            => IdleReached(listed'[t], SeedIdleCriteria(criteria[t]))
    BY <1>4, <1>5 DEF IdleReached
  <1> QED BY <1>3, <1>6

\* A torrent reported stopped stays so while *arr leaves its criteria alone, for any limits.
THEOREM StoppedStays == Spec => StaysStopped
  <1>1. TypeOK /\ TypeOK' /\ [Next]_vars =>
            [criteria' = criteria =>
                \A t \in Torrents : Reported(t, criteria[t]) = "stopped" => Reported(t, criteria[t])' = "stopped"]_vars
    <2> SUFFICES ASSUME TypeOK, TypeOK', [Next]_vars, criteria' = criteria,
                        NEW t \in Torrents, Reported(t, criteria[t]) = "stopped"
                 PROVE  Reported(t, criteria[t])' = "stopped"
      OBVIOUS
    <2>1. UNCHANGED <<listed, local>> => Reported(t, criteria[t])' = "stopped"
      BY DEF Reported, Status, SeedGoalReached
    <2>2. ASSUME Status(t) # "download" => Status(t)' # "download",
                 listed'[t].downloaded = listed[t].downloaded,
                 listed'[t].uploaded >= listed[t].uploaded,
                 listed'[t].seconds >= listed[t].seconds
          PROVE  Reported(t, criteria[t])' = "stopped"
      <3>1. Status(t)' \in {"download", "seed", "seed_wait"} /\ Status(t) \in {"download", "seed", "seed_wait"}
        BY DEF Status
      <3> QED BY <2>2, <3>1, GoalsStayReached DEF Reported, SeedGoalReached
    <2>3. listed[t].uploaded \in Nat /\ listed[t].seconds \in Nat /\ listed[t] \in Transfers
      BY TransferNumbers DEF TypeOK
    <2>4. ASSUME NEW u \in Torrents, PutioAdvances(u) PROVE Reported(t, criteria[t])' = "stopped"
      <3>1. PICK s \in AvailableAs : listed' = [listed EXCEPT ![u].status = s]
        BY <2>4 DEF PutioAdvances
      <3>2. /\ listed'[t].downloaded = listed[t].downloaded
            /\ listed'[t].uploaded = listed[t].uploaded
            /\ listed'[t].seconds = listed[t].seconds
            /\ listed'[t].status # "downloading" \/ listed'[t].status = listed[t].status
        BY <2>3, <3>1 DEF TypeOK, Transfers, AvailableAs
      <3>3. Status(t) # "download" => Status(t)' # "download"
        BY <2>4, <3>2 DEF PutioAdvances, Status
      <3>4. listed'[t].uploaded >= listed[t].uploaded /\ listed'[t].seconds >= listed[t].seconds
        BY <2>3, <3>2
      <3> QED BY <2>2, <3>2, <3>3, <3>4
    <2>5. ASSUME NEW u \in Torrents, Seeds(u) PROVE Reported(t, criteria[t])' = "stopped"
      <3>1. PICK n \in Uploads, s \in Seconds :
                /\ n >= listed[u].uploaded /\ s > listed[u].seconds
                /\ listed' = [listed EXCEPT ![u].uploaded = n, ![u].seconds = s]
        BY <2>5 DEF Seeds
      <3>2. /\ listed'[t].downloaded = listed[t].downloaded
            /\ listed'[t].status = listed[t].status
        BY <2>3, <3>1 DEF TypeOK, Transfers
      <3>3. /\ listed'[t].uploaded >= listed[t].uploaded
            /\ listed'[t].seconds >= listed[t].seconds
        <4>1. n \in Nat /\ s \in Nat
          BY NumberAssumption
        <4> QED BY <2>3, <3>1, <4>1 DEF TypeOK, Transfers
      <3>4. Status(t) # "download" => Status(t)' # "download"
        BY <2>5, <3>2 DEF Seeds, Status
      <3> QED BY <2>2, <3>2, <3>3, <3>4
    <2>6. ASSUME NEW u \in Torrents, Downloads(u) PROVE Reported(t, criteria[t])' = "stopped"
      <3>1. Status(t) # "download" => Status(t)' # "download"
        BY <2>6 DEF Downloads, Status
      <3>2. listed' = listed
        BY <2>6 DEF Downloads
      <3> QED BY <2>2, <2>3, <3>1, <3>2
    <2>7. ASSUME NEW u \in Torrents, TorrentSet(u) \/ UpdateTorrentState(u)
          PROVE  Reported(t, criteria[t])' = "stopped"
      BY <2>1, <2>7 DEF TorrentSet, UpdateTorrentState
    <2> QED BY <2>1, <2>4, <2>5, <2>6, <2>7 DEF Next, vars
  <1> QED BY <1>1, TypeCorrect, PTL DEF Spec, StaysStopped

=============================================================================
