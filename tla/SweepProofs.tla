----------------------------- MODULE SweepProofs -----------------------------
(***************************************************************************)
(* Theorems about Sweep, for any downloads, layouts and number of crashes. *)
(***************************************************************************)
EXTENDS Sweep, SequenceTheorems, WellFoundedInduction, TLAPS

-----------------------------------------------------------------------------
(* Prefixes *)

\* The first n elements.
LEMMA Segment ==
    ASSUME NEW S, NEW s \in Seq(S), NEW n \in 0 .. Len(s)
    PROVE  /\ SubSeq(s, 1, n) \in Seq(S) /\ Len(SubSeq(s, 1, n)) = n
           /\ \A i \in 1 .. n : SubSeq(s, 1, n)[i] = s[i]
<1>1. \A i \in 1 .. n : s[i] \in S BY ElementOfSeq, LenProperties
<1>2. n \in Int /\ n >= 0 BY LenProperties
<1>3. /\ SubSeq(s, 1, n) \in Seq(S)
      /\ Len(SubSeq(s, 1, n)) = IF 1 <= n THEN n - 1 + 1 ELSE 0
      /\ \A i \in 1 .. n - 1 + 1 : SubSeq(s, 1, n)[i] = s[1 + i - 1]
  BY <1>1, <1>2, SubSeqProperties
<1> QED BY <1>2, <1>3

LEMMA PrefixElements ==
    ASSUME NEW S, NEW s \in Seq(S), NEW t \in Seq(S)
    PROVE  IsPrefix(s, t) <=> Len(s) <= Len(t) /\ \A i \in 1 .. Len(s) : s[i] = t[i]
BY DEF IsPrefix

LEMMA PrefixTransitive ==
    ASSUME NEW S, NEW s \in Seq(S), NEW t \in Seq(S), NEW u \in Seq(S),
           IsPrefix(s, t), IsPrefix(t, u)
    PROVE  IsPrefix(s, u)
BY PrefixElements

\* Two prefixes of one sequence.
LEMMA PrefixesNest ==
    ASSUME NEW S, NEW s \in Seq(S), NEW t \in Seq(S), NEW u \in Seq(S),
           IsPrefix(s, u), IsPrefix(t, u)
    PROVE  IsPrefix(s, t) \/ IsPrefix(t, s)
BY PrefixElements

LEMMA PrefixOfSameLength ==
    ASSUME NEW S, NEW s \in Seq(S), NEW t \in Seq(S), IsPrefix(s, t), Len(s) = Len(t)
    PROVE  s = t
BY PrefixElements

LEMMA FrontIsPrefix ==
    ASSUME NEW S, NEW s \in Seq(S), s # << >>
    PROVE  /\ Front(s) \in Seq(S) /\ Len(Front(s)) = Len(s) - 1
           /\ IsPrefix(Front(s), s) /\ Front(s) # s
<1>1. Len(s) \in Nat \ {0} BY EmptySeq
<1>0. Len(s) - 1 \in 0 .. Len(s) BY <1>1
<1>2. PICK n \in 0 .. Len(s) : n = Len(s) - 1 BY <1>0
<1>3. PICK f : f = SubSeq(s, 1, n) OBVIOUS
<1>4. f \in Seq(S) /\ Len(f) = n /\ \A i \in 1 .. n : f[i] = s[i] BY <1>3, Segment
<1>5. IsPrefix(f, s) BY <1>1, <1>2, <1>4, PrefixElements
<1>6. Front(s) = f BY <1>2, <1>3 DEF Front
<1> QED BY <1>1, <1>2, <1>4, <1>5, <1>6

\* The prefixes of a sequence are its initial segments.
LEMMA PrefixIsSegment ==
    ASSUME NEW S, NEW s \in Seq(S), NEW t \in Seq(S)
    PROVE  IsPrefix(s, t) <=> \E n \in 0 .. Len(t) : s = SubSeq(t, 1, n)
<1>1. ASSUME NEW n \in 0 .. Len(t), s = SubSeq(t, 1, n) PROVE IsPrefix(s, t)
  <2>1. Len(s) = n /\ \A i \in 1 .. n : s[i] = t[i] BY <1>1, Segment
  <2> QED BY <2>1, LenProperties, PrefixElements
<1>2. ASSUME IsPrefix(s, t) PROVE s = SubSeq(t, 1, Len(s)) /\ Len(s) \in 0 .. Len(t)
  <2>1. Len(s) <= Len(t) /\ \A i \in 1 .. Len(s) : s[i] = t[i] BY <1>2, PrefixElements
  <2>2. Len(s) \in 0 .. Len(t) BY <2>1, LenProperties
  <2>3. /\ SubSeq(t, 1, Len(s)) \in Seq(S) /\ Len(SubSeq(t, 1, Len(s))) = Len(s)
        /\ \A i \in 1 .. Len(s) : SubSeq(t, 1, Len(s))[i] = t[i]
    BY <2>2, Segment
  <2> QED BY <2>1, <2>2, <2>3, SeqEqual
<1> QED BY <1>1, <1>2

-----------------------------------------------------------------------------
(* How the downloads lie to each other *)

Paths == Seq(STRING)

LEMMA LayoutShape ==
    ASSUME layout \in Layouts, NEW w \in Workers
    PROVE  /\ Path[w] \in Paths /\ Release[w] \in Paths
           /\ Release[w] # << >> /\ IsPrefix(Release[w], Path[w])
           /\ Path[w] # << >> /\ Path[w] # Root
           /\ Len(Path[w]) \in Nat /\ Len(Dir(w)) \in Nat /\ Len(Dir(w)) = Len(Path[w]) - 1
           /\ Dir(w) \in Paths /\ IsPrefix(Dir(w), Path[w]) /\ Dir(w) # Path[w]
<1>1. Path[w] \in Paths /\ Release[w] \in Paths
  BY LayoutAssumption DEF Path, Release, Paths
<1>2. Len(Release[w]) >= 1 /\ IsPrefix(Release[w], Path[w])
  BY LayoutAssumption DEF Path, Release
<1>3. Len(Release[w]) \in Nat /\ Len(Path[w]) \in Nat BY <1>1, LenProperties DEF Paths
<1>4. Len(Path[w]) >= Len(Release[w]) BY <1>1, <1>2, PrefixElements DEF Paths
<1>5. Len(<< >>) = 0 BY EmptySeq
<1>6. Release[w] # << >> /\ Path[w] # << >> BY <1>2, <1>3, <1>4, <1>5
<1>7. /\ Dir(w) \in Paths /\ IsPrefix(Dir(w), Path[w]) /\ Dir(w) # Path[w]
      /\ Len(Dir(w)) = Len(Path[w]) - 1
  BY <1>1, <1>6, FrontIsPrefix DEF Dir, Paths
<1>8. Len(Dir(w)) \in Nat BY <1>7, LenProperties DEF Paths
<1> QED BY <1>1, <1>2, <1>3, <1>6, <1>7, <1>8 DEF Root

LEMMA OnPathMeans ==
    ASSUME layout \in Layouts, NEW w \in Workers, NEW d
    PROVE  d \in OnPath(w) <=> d \in Paths /\ IsPrefix(d, Dir(w))
<1>1. Dir(w) \in Paths /\ Len(Dir(w)) \in Nat BY LayoutShape
<1>2. \A n \in 0 .. Len(Dir(w)) : SubSeq(Dir(w), 1, n) \in Paths
  BY <1>1, Segment DEF Paths
<1> QED BY <1>1, <1>2, PrefixIsSegment DEF OnPath, Paths

\* What is above a directory on a path is on the path.
LEMMA OnPathUpwards ==
    ASSUME layout \in Layouts, NEW w \in Workers, NEW d \in OnPath(w), NEW e \in Paths,
           IsPrefix(e, d)
    PROVE  e \in OnPath(w)
<1>1. d \in Paths /\ IsPrefix(d, Dir(w)) /\ Dir(w) \in Paths BY OnPathMeans, LayoutShape
<1>2. IsPrefix(e, Dir(w)) BY <1>1, PrefixTransitive DEF Paths
<1> QED BY <1>2, OnPathMeans

LEMMA FrontOnPath ==
    ASSUME layout \in Layouts, NEW w \in Workers, NEW d \in OnPath(w), d # Root
    PROVE  Front(d) \in OnPath(w) /\ Front(d) # d /\ IsPrefix(Front(d), d)
<1>1. d \in Paths /\ d # << >> BY OnPathMeans DEF Root
<1>2. Front(d) \in Paths /\ IsPrefix(Front(d), d) /\ Front(d) # d
  BY <1>1, FrontIsPrefix DEF Paths
<1> QED BY <1>2, OnPathUpwards

LEMMA DirOnPath ==
    ASSUME layout \in Layouts, NEW w \in Workers
    PROVE  /\ Dir(w) \in OnPath(w) /\ Root \in OnPath(w)
           /\ \A n \in 0 .. Len(Dir(w)) :
                 SubSeq(Dir(w), 1, n) \in OnPath(w) /\ Len(SubSeq(Dir(w), 1, n)) = n
<1>1. Dir(w) \in Paths /\ Len(Dir(w)) \in Nat BY LayoutShape
<1>2. \A n \in 0 .. Len(Dir(w)) :
         SubSeq(Dir(w), 1, n) \in OnPath(w) /\ Len(SubSeq(Dir(w), 1, n)) = n
  BY <1>1, Segment DEF OnPath, Paths
<1>3. SubSeq(Dir(w), 1, Len(Dir(w))) = Dir(w) BY <1>1, SubSeqFull DEF Paths
<1>4. SubSeq(Dir(w), 1, 0) = Root BY SubSeqEmpty DEF Root
<1>5. 0 \in 0 .. Len(Dir(w)) /\ Len(Dir(w)) \in 0 .. Len(Dir(w)) BY <1>1
<1>6. Dir(w) \in OnPath(w) BY <1>2, <1>3, <1>5
<1>7. Root \in OnPath(w) BY <1>2, <1>4, <1>5
<1> QED BY <1>2, <1>6, <1>7

\* The parent of a release, and the release itself when it holds directories of some path.
LEMMA ReleaseParent ==
    ASSUME layout \in Layouts, NEW w \in Workers
    PROVE  Front(Release[w]) \in OnPath(w)
<1>1. /\ Release[w] \in Paths /\ Release[w] # << >> /\ IsPrefix(Release[w], Path[w])
      /\ Dir(w) \in Paths /\ IsPrefix(Dir(w), Path[w]) /\ Path[w] \in Paths
      /\ Len(Path[w]) \in Nat /\ Len(Dir(w)) = Len(Path[w]) - 1
  BY LayoutShape
<1>2. /\ Front(Release[w]) \in Paths /\ Len(Front(Release[w])) = Len(Release[w]) - 1
      /\ IsPrefix(Front(Release[w]), Release[w])
  BY <1>1, FrontIsPrefix DEF Paths
<1>3. IsPrefix(Front(Release[w]), Path[w]) BY <1>1, <1>2, PrefixTransitive DEF Paths
<1>4. IsPrefix(Front(Release[w]), Dir(w)) \/ IsPrefix(Dir(w), Front(Release[w]))
  BY <1>1, <1>2, <1>3, PrefixesNest DEF Paths
<1>5. Len(Release[w]) \in Nat /\ Len(Release[w]) <= Len(Path[w])
  BY <1>1, PrefixElements, LenProperties DEF Paths
<1>6. IsPrefix(Dir(w), Front(Release[w])) => Dir(w) = Front(Release[w])
  <2> SUFFICES ASSUME IsPrefix(Dir(w), Front(Release[w])) PROVE Dir(w) = Front(Release[w])
    OBVIOUS
  <2>1. Len(Dir(w)) <= Len(Front(Release[w])) BY <1>1, <1>2, PrefixElements DEF Paths
  <2>2. Len(Dir(w)) = Len(Front(Release[w])) BY <1>1, <1>2, <1>5, <2>1
  <2> QED BY <1>1, <1>2, <2>2, PrefixOfSameLength DEF Paths
<1> QED BY <1>2, <1>4, <1>6, OnPathMeans, DirOnPath

LEMMA ReleaseAbove ==
    ASSUME layout \in Layouts, NEW v \in Workers, NEW w \in Workers, NEW d \in OnPath(w),
           IsPrefix(Release[v], d)
    PROVE  /\ Release[v] \in OnPath(w) /\ Release[v] \in OnPath(v) /\ Release[v] # Root
<1>1. /\ Release[v] \in Paths /\ Release[v] # << >> /\ IsPrefix(Release[v], Path[v])
      /\ Dir(v) \in Paths /\ IsPrefix(Dir(v), Path[v]) /\ Path[v] \in Paths
      /\ Len(Path[v]) \in Nat /\ Len(Dir(v)) = Len(Path[v]) - 1
  BY LayoutShape
<1>2. Release[v] \in OnPath(w) BY <1>1, OnPathUpwards
<1>3. Release[v] # Path[v]
  <2> SUFFICES ASSUME Release[v] = Path[v] PROVE FALSE OBVIOUS
  <2>1. IsPrefix(Path[v], Dir(w)) BY <1>2, OnPathMeans
  <2>2. /\ Dir(w) \in Paths /\ IsPrefix(Dir(w), Path[w]) /\ Path[w] \in Paths
        /\ Len(Path[w]) \in Nat /\ Len(Dir(w)) = Len(Path[w]) - 1
    BY LayoutShape
  <2>3. IsPrefix(Path[v], Path[w]) BY <1>1, <2>1, <2>2, PrefixTransitive DEF Paths
  <2>4. Len(Path[v]) <= Len(Dir(w)) BY <1>1, <2>1, <2>2, PrefixElements DEF Paths
  <2>5. Path[v] # Path[w] BY <1>1, <2>2, <2>4
  <2>6. ~ IsStrictPrefix(Path[v], Path[w]) BY LayoutAssumption DEF Path
  <2> QED BY <2>3, <2>5, <2>6 DEF IsStrictPrefix
<1>4. IsPrefix(Release[v], Dir(v)) \/ IsPrefix(Dir(v), Release[v])
  BY <1>1, PrefixesNest DEF Paths
<1>5. IsPrefix(Dir(v), Release[v]) => Release[v] = Dir(v)
  <2> SUFFICES ASSUME IsPrefix(Dir(v), Release[v]) PROVE Release[v] = Dir(v) OBVIOUS
  <2>1. /\ Len(Release[v]) \in Nat /\ Len(Release[v]) <= Len(Path[v])
        /\ Len(Dir(v)) <= Len(Release[v])
    BY <1>1, PrefixElements, LenProperties DEF Paths
  <2>2. Len(Release[v]) # Len(Path[v]) BY <1>1, <1>3, PrefixOfSameLength DEF Paths
  <2>3. Len(Dir(v)) = Len(Release[v]) BY <1>1, <2>1, <2>2
  <2> QED BY <1>1, <2>3, PrefixOfSameLength DEF Paths
<1> QED BY <1>1, <1>2, <1>4, <1>5, OnPathMeans, DirOnPath DEF Root

\* A download that lies apart shares directories with its own release only.
LEMMA ApartShares ==
    ASSUME NEW w \in Workers, Apart(w), NEW v \in Workers, NEW d \in OnPath(w), d # Root,
           d \in OnPath(v)
    PROVE  v \in Siblings(w) /\ Siblings(v) = Siblings(w)
BY DEF Apart, Siblings

LEMMA AllDirsMeans ==
    ASSUME NEW d
    PROVE  d \in AllDirs <=> \E l \in Layouts, w \in Workers :
                                 \E n \in 0 .. Len(l.path[w]) - 1 : d = SubSeq(l.path[w], 1, n)
<1> DEFINE Above(l, w) == {SubSeq(l.path[w], 1, n) : n \in 0 .. Len(l.path[w]) - 1}
<1>1. AllDirs = UNION {Above(l, w) : l \in Layouts, w \in Workers} BY DEF AllDirs
<1>2. \A l, w : d \in Above(l, w) <=>
                    \E n \in 0 .. Len(l.path[w]) - 1 : d = SubSeq(l.path[w], 1, n)
  OBVIOUS
<1> HIDE DEF Above
<1>3. d \in AllDirs <=> \E l \in Layouts, w \in Workers : d \in Above(l, w)
  BY <1>1
<1> QED BY <1>2, <1>3

LEMMA OnPathType ==
    ASSUME layout \in Layouts, NEW w \in Workers
    PROVE  OnPath(w) \subseteq AllDirs
<1> SUFFICES ASSUME NEW d \in OnPath(w) PROVE d \in AllDirs OBVIOUS
<1>1. d \in Paths /\ IsPrefix(d, Dir(w)) BY OnPathMeans
<1>2. /\ Path[w] \in Paths /\ Len(Path[w]) \in Nat /\ Len(Dir(w)) = Len(Path[w]) - 1
      /\ Dir(w) \in Paths /\ IsPrefix(Dir(w), Path[w])
  BY LayoutShape
<1>3. IsPrefix(d, Path[w]) BY <1>1, <1>2, PrefixTransitive DEF Paths
<1>4. PICK n \in 0 .. Len(Path[w]) : d = SubSeq(Path[w], 1, n)
  BY <1>1, <1>2, <1>3, PrefixIsSegment DEF Paths
<1>5. Len(d) = n BY <1>2, <1>4, Segment DEF Paths
<1>6. Len(d) <= Len(Dir(w)) BY <1>1, <1>2, PrefixElements DEF Paths
<1>7. n \in 0 .. Len(Path[w]) - 1 BY <1>2, <1>4, <1>5, <1>6
<1> QED BY <1>4, <1>7, AllDirsMeans DEF Path

-----------------------------------------------------------------------------
(* The types, and where downloads, removals and the sweep stand *)

PrunesAfterCleaning == \A w \in Workers :
    prune[w].pc # "none" =>
        /\ prune[w].dir \in OnPath(w)
        /\ prune[w].pc = "remove" => prune[w].dir # Root
        /\ \A v \in Siblings(w) : worker[v].pc = "cleaned"

MakesOnPath == \A w \in Workers :
    worker[w].pc = "making" => worker[w].depth \in 1 .. Len(Dir(w))

SweepsBelowRoot == sweep.pc \in {"stat", "remove"} => sweep.dir # Root

DirsInv ==
    /\ TypeOK
    /\ Root \in dirs
    /\ PrunesAfterCleaning
    /\ MakesOnPath
    /\ SweepsBelowRoot

WorkerStates == [pc : WorkerPCs, depth : Nat]
PruneStates == [pc : {"none", "read", "remove"}, dir : AllDirs]
SweepStates == [pc : {"idle", "next", "stat", "remove"}, dir : AllDirs,
                todo : SUBSET (AllDirs \ {Root})]

\* MkdirAll finds a deepest directory, since DOWNLOAD_DIR is there.
LEMMA MissingFromExists ==
    ASSUME layout \in Layouts, Root \in dirs, NEW w \in Workers
    PROVE  /\ MissingFrom(w) \in 1 .. Len(Dir(w)) + 1
           /\ SubSeq(Dir(w), 1, MissingFrom(w) - 1) \in dirs
<1> DEFINE Left == {m \in Nat : \E n \in 1 .. Len(Dir(w)) + 1 :
                        m = Len(Dir(w)) + 1 - n /\ SubSeq(Dir(w), 1, n - 1) \in dirs}
           Deepest(n) == /\ SubSeq(Dir(w), 1, n - 1) \in dirs
                         /\ \A k \in n .. Len(Dir(w)) : SubSeq(Dir(w), 1, k) \notin dirs
<1>1. Len(Dir(w)) \in Nat BY LayoutShape
<1>2. Left \subseteq Nat /\ Len(Dir(w)) \in Left
  <2>0. 1 - 1 = 0 /\ SubSeq(Dir(w), 1, 0) = Root BY SubSeqEmpty DEF Root
  <2>1. SubSeq(Dir(w), 1, 1 - 1) \in dirs BY <2>0
  <2>2. Len(Dir(w)) = Len(Dir(w)) + 1 - 1 /\ 1 \in 1 .. Len(Dir(w)) + 1 BY <1>1
  <2> QED BY <1>1, <2>1, <2>2
<1>3. PICK x \in Left : \A y \in Left : ~ (<<y, x>> \in OpToRel(<, Nat))
  BY <1>2, NatLessThanWellFounded, WFMin
<1>4. \A y \in Left : ~ (y < x) BY <1>2, <1>3 DEF OpToRel
<1>5. PICK n \in 1 .. Len(Dir(w)) + 1 :
         x = Len(Dir(w)) + 1 - n /\ SubSeq(Dir(w), 1, n - 1) \in dirs
  OBVIOUS
<1>6. ASSUME NEW k \in n .. Len(Dir(w)) PROVE SubSeq(Dir(w), 1, k) \notin dirs
  <2> SUFFICES ASSUME SubSeq(Dir(w), 1, k) \in dirs PROVE FALSE OBVIOUS
  <2>1. k + 1 \in 1 .. Len(Dir(w)) + 1 /\ (k + 1) - 1 = k BY <1>1, <1>5
  <2>2. Len(Dir(w)) + 1 - (k + 1) \in Nat BY <1>1, <2>1
  <2>3. Len(Dir(w)) + 1 - (k + 1) \in Left BY <2>1, <2>2
  <2>4. Len(Dir(w)) + 1 - (k + 1) < x BY <1>1, <1>5, <2>1
  <2> QED BY <1>4, <2>3, <2>4
<1>7. Deepest(n) BY <1>5, <1>6
<1>8. MissingFrom(w) = CHOOSE m \in 1 .. Len(Dir(w)) + 1 : Deepest(m) BY DEF MissingFrom
<1> HIDE DEF Deepest
<1>9. MissingFrom(w) \in 1 .. Len(Dir(w)) + 1 /\ Deepest(MissingFrom(w)) BY <1>7, <1>8
<1> QED BY <1>9 DEF Deepest

LEMMA InitDirs == Init => DirsInv
<1> SUFFICES ASSUME Init PROVE DirsInv OBVIOUS
<1>1. layout \in Layouts /\ Root \in dirs /\ old \subseteq dirs BY DEF Init
<1>2. dirs \subseteq AllDirs
  <2>1. dirs \subseteq UNION {OnPath(w) : w \in Workers} BY DEF Init
  <2> QED BY <1>1, <2>1, OnPathType
<1>3. Root \in AllDirs BY <1>1, <1>2
<1>4. worker \in [Workers -> WorkerStates] /\ \A w \in Workers : worker[w].pc = "idle"
  BY DEF Init, NoWorker, WorkerStates, WorkerPCs
<1>5. prune \in [Workers -> PruneStates] /\ \A w \in Workers : prune[w].pc = "none"
  BY <1>3 DEF Init, NoPrune, PruneStates
<1>6. sweep \in SweepStates /\ sweep.pc = "idle"
  BY <1>3 DEF Init, NoSweep, SweepStates
<1>7. crashes \in 0 .. MaxCrashes /\ removals \in 0 .. MaxRemovals
  BY BoundsAssumption DEF Init
<1>8. TypeOK
  BY <1>1, <1>2, <1>4, <1>5, <1>6, <1>7 DEF Init, TypeOK, WorkerStates, PruneStates, SweepStates
<1> QED
  BY <1>1, <1>4, <1>5, <1>6, <1>8 DEF DirsInv, PrunesAfterCleaning, MakesOnPath, SweepsBelowRoot

\* The layout is fixed, and what is said in its terms.
LEMMA SameLayout ==
    ASSUME layout' = layout
    PROVE  /\ \A w : Dir(w)' = Dir(w) /\ OnPath(w)' = OnPath(w) /\ Siblings(w)' = Siblings(w)
           /\ \A w : OwnPath(w)' = OwnPath(w)
           /\ \A w : Apart(w)' <=> Apart(w)
           /\ Release' = Release /\ Path' = Path
<1>1. Release' = Release /\ Path' = Path BY DEF Release, Path
<1>2. \A w : Dir(w)' = Dir(w) BY <1>1 DEF Dir
<1>3. \A w : OnPath(w)' = OnPath(w) BY <1>2 DEF OnPath
<1>4. \A w : Siblings(w)' = Siblings(w) BY <1>1 DEF Siblings
<1>5. \A w : Apart(w)' <=> Apart(w) BY <1>1, <1>3 DEF Apart
<1>6. \A w : OwnPath(w)' = OwnPath(w) BY <1>3 DEF OwnPath, Root
<1> QED BY <1>1, <1>2, <1>3, <1>4, <1>5, <1>6

LEMMA LayoutFixed == [Next]_vars => layout' = layout
BY DEF Next, Downloads, Prunes, Sweeps, Starts, Makes, Creates, Wipes, ArrMoves, RemovesRelease,
   UserActs, UserRemoves, UserRetries, PruneReads, PruneRemoves, SweepBegins, SweepReads,
   SweepStats, SweepRemoves, SweepEnds, Ages, Crash, vars

LEMMA GoesOnShape ==
    ASSUME DirsInv, NEW w \in Workers, NEW n \in 1 .. Len(Dir(w)) + 1, GoesOn(w, n)
    PROVE  /\ worker' \in [Workers -> WorkerStates]
           /\ worker'[w] = [pc |-> IF n > Len(Dir(w)) THEN "create" ELSE "making", depth |-> n]
           /\ \A v \in Workers : v # w => worker'[v] = worker[v]
           /\ worker'[w].pc = "making" => worker'[w].depth \in 1 .. Len(Dir(w))
<1>1. layout \in Layouts /\ worker \in [Workers -> WorkerStates]
  BY DEF DirsInv, TypeOK, WorkerStates
<1>2. Len(Dir(w)) \in Nat BY <1>1, LayoutShape
<1>3. CASE n > Len(Dir(w))
  <2>1. worker' = [worker EXCEPT ![w] = [pc |-> "create", depth |-> n]]
    BY <1>3 DEF GoesOn, Goes
  <2> QED BY <1>1, <1>2, <1>3, <2>1 DEF WorkerStates, WorkerPCs
<1>4. CASE ~ (n > Len(Dir(w)))
  <2>1. worker' = [worker EXCEPT ![w] = [pc |-> "making", depth |-> n]]
    BY <1>4 DEF GoesOn, Goes
  <2>2. n \in 1 .. Len(Dir(w)) BY <1>2, <1>4
  <2> QED BY <1>1, <1>2, <1>4, <2>1, <2>2 DEF WorkerStates, WorkerPCs
<1> QED BY <1>3, <1>4

LEMMA GoesShape ==
    ASSUME DirsInv, NEW w \in Workers, NEW pc \in WorkerPCs \ {"making"}, Goes(w, pc, 0)
    PROVE  /\ worker' \in [Workers -> WorkerStates]
           /\ worker'[w] = [pc |-> pc, depth |-> 0]
           /\ \A v \in Workers : v # w => worker'[v] = worker[v]
BY DEF DirsInv, TypeOK, WorkerStates, Goes

\* A directory below DOWNLOAD_DIR is made beside its parent, or removed.
LEMMA MkdirType ==
    ASSUME TypeOK, NEW d \in AllDirs, Mkdir(d)
    PROVE  dirs' \subseteq AllDirs /\ old' \subseteq dirs' /\ dirs \subseteq dirs'
BY DEF TypeOK, Mkdir

LEMMA RemoveDirType ==
    ASSUME TypeOK, NEW d, d # Root, Root \in dirs, RemoveDir(d)
    PROVE  /\ dirs' \subseteq AllDirs /\ old' \subseteq dirs' /\ Root \in dirs' /\ files' = files
BY DEF TypeOK, RemoveDir, Rmdir

\* os.RemoveAll below DOWNLOAD_DIR.
LEMMA RemoveAllType ==
    ASSUME TypeOK, Root \in dirs, NEW path, path # << >>, Len(path) \in Nat \ {0},
           RemoveAll(path)
    PROVE  /\ dirs' \subseteq dirs /\ old' \subseteq dirs' /\ Root \in dirs' /\ files' \subseteq files
           /\ dirs' \subseteq AllDirs /\ files' \subseteq Workers
<1>1. ~ Under(Root, path)
  <2>1. Len(<< >>) = 0 BY EmptySeq
  <2> QED BY <2>1 DEF Under, IsPrefix, Root
<1> QED BY <1>1 DEF TypeOK, RemoveAll

\* What RemoveAll is called with.
LEMMA ReleaseLength ==
    ASSUME layout \in Layouts, NEW w \in Workers
    PROVE  /\ Release[w] # << >> /\ Len(Release[w]) \in Nat \ {0}
           /\ Path[w] # << >> /\ Len(Path[w]) \in Nat \ {0}
BY LayoutShape, EmptySeq DEF Paths

\* A download's step leaves the removals and the sweep alone.
DownloadStays == /\ prune' = prune /\ sweep' = sweep /\ crashes' = crashes
                 /\ removals' = removals /\ layout' = layout /\ exposed' \subseteq Workers
                 /\ found' \in [Workers -> SUBSET AllDirs]

LEMMA DirsFromWorker ==
    ASSUME DirsInv, NEW w \in Workers, worker[w].pc # "cleaned", DownloadStays,
           worker' \in [Workers -> WorkerStates],
           \A v \in Workers : v # w => worker'[v] = worker[v],
           worker'[w].pc = "making" => worker'[w].depth \in 1 .. Len(Dir(w)),
           dirs' \subseteq AllDirs, dirs \subseteq dirs', old' \subseteq dirs',
           files' \subseteq Workers
    PROVE  DirsInv'
<1>1. /\ \A v \in Workers : Dir(v)' = Dir(v) /\ OnPath(v)' = OnPath(v)
                              /\ Siblings(v)' = Siblings(v)
  BY SameLayout DEF DownloadStays
<1>2. TypeOK' BY DEF DirsInv, DownloadStays, TypeOK, WorkerStates
<1>3. (Root \in dirs)' BY DEF DirsInv, Root
<1>4. PrunesAfterCleaning'
  <2>1. \A v \in Workers : worker[v].pc = "cleaned" => worker'[v].pc = "cleaned" OBVIOUS
  <2>2. \A v \in Workers : Siblings(v) \subseteq Workers BY DEF Siblings
  <2> QED BY <1>1, <2>1, <2>2 DEF DirsInv, DownloadStays, PrunesAfterCleaning, Root
<1>5. MakesOnPath' BY <1>1 DEF DirsInv, MakesOnPath
<1>6. SweepsBelowRoot' BY DEF DirsInv, DownloadStays, SweepsBelowRoot, Root
<1> QED BY <1>2, <1>3, <1>4, <1>5, <1>6 DEF DirsInv

LEMMA StartsDirs == ASSUME DirsInv, NEW w \in Workers, Starts(w) PROVE DirsInv'
<1>1. /\ layout \in Layouts /\ Root \in dirs /\ exposed \subseteq Workers /\ dirs \subseteq AllDirs
      /\ found \in [Workers -> SUBSET AllDirs]
  BY DEF DirsInv, TypeOK
<1>2. MissingFrom(w) \in 1 .. Len(Dir(w)) + 1 BY <1>1, MissingFromExists
<1>3. /\ worker' \in [Workers -> WorkerStates]
      /\ \A v \in Workers : v # w => worker'[v] = worker[v]
      /\ worker'[w].pc = "making" => worker'[w].depth \in 1 .. Len(Dir(w))
  BY <1>2, GoesOnShape DEF Starts
<1>4. exposed' \subseteq Workers BY <1>1 DEF Starts
<1>5. found' \in [Workers -> SUBSET AllDirs] BY <1>1 DEF Starts
<1>6. dirs' = dirs /\ old' = old /\ files' = files /\ DownloadStays
  BY <1>4, <1>5 DEF Starts, DownloadStays
<1>7. worker[w].pc # "cleaned" BY DEF Starts
<1> QED BY <1>3, <1>6, <1>7, DirsFromWorker DEF DirsInv, TypeOK

\* An attempt that ends forgets what it found.
LEMMA StopsShape ==
    ASSUME DirsInv, NEW w \in Workers, NEW pc \in WorkerPCs \ {"making"}, Stops(w, pc)
    PROVE  /\ worker' \in [Workers -> WorkerStates]
           /\ worker'[w] = [pc |-> pc, depth |-> 0]
           /\ \A v \in Workers : v # w => worker'[v] = worker[v]
           /\ found' \in [Workers -> SUBSET AllDirs]
<1>1. Goes(w, pc, 0) /\ found' = [found EXCEPT ![w] = {}] BY DEF Stops
<1>2. found' \in [Workers -> SUBSET AllDirs] BY <1>1 DEF DirsInv, TypeOK
<1> QED BY <1>1, <1>2, GoesShape

\* The directory a download makes next.
LEMMA NextDir ==
    ASSUME DirsInv, NEW w \in Workers, worker[w].pc = "making"
    PROVE  /\ worker[w].depth \in 1 .. Len(Dir(w)) /\ worker[w].depth + 1 \in 1 .. Len(Dir(w)) + 1
           /\ Len(Dir(w)) \in Nat
           /\ SubSeq(Dir(w), 1, worker[w].depth) \in OnPath(w)
           /\ SubSeq(Dir(w), 1, worker[w].depth) \in AllDirs
           /\ SubSeq(Dir(w), 1, worker[w].depth) # Root
           /\ Front(SubSeq(Dir(w), 1, worker[w].depth)) = SubSeq(Dir(w), 1, worker[w].depth - 1)
<1>1. layout \in Layouts BY DEF DirsInv, TypeOK
<1>2. Dir(w) \in Paths /\ Len(Dir(w)) \in Nat BY <1>1, LayoutShape
<1>3. PICK n \in 1 .. Len(Dir(w)) : n = worker[w].depth BY DEF DirsInv, MakesOnPath
<1>4. n \in 0 .. Len(Dir(w)) /\ n - 1 \in 0 .. Len(Dir(w)) /\ n + 1 \in 1 .. Len(Dir(w)) + 1
  BY <1>2, <1>3
<1>5. PICK d : d = SubSeq(Dir(w), 1, n) OBVIOUS
<1>6. PICK e : e = SubSeq(Dir(w), 1, n - 1) OBVIOUS
<1>7. /\ d \in Paths /\ Len(d) = n /\ \A i \in 1 .. n : d[i] = Dir(w)[i]
  BY <1>2, <1>4, <1>5, Segment DEF Paths
<1>8. /\ e \in Paths /\ Len(e) = n - 1 /\ \A i \in 1 .. n - 1 : e[i] = Dir(w)[i]
  BY <1>2, <1>4, <1>6, Segment DEF Paths
<1>9. d # << >> BY <1>3, <1>7, EmptySeq
<1>10. /\ Front(d) \in Paths /\ Len(Front(d)) = n - 1 /\ IsPrefix(Front(d), d)
  BY <1>7, <1>9, FrontIsPrefix DEF Paths
<1>11. \A i \in 1 .. n - 1 : Front(d)[i] = d[i]
  BY <1>7, <1>10, PrefixElements DEF Paths
<1>12. \A i \in 1 .. n - 1 : d[i] = Dir(w)[i] BY <1>2, <1>4, <1>7
<1>13. Front(d) = e BY <1>8, <1>10, <1>11, <1>12, SeqEqual DEF Paths
<1>14. d \in OnPath(w) BY <1>1, <1>4, <1>5, DirOnPath
<1>15. d \in AllDirs BY <1>1, <1>14, OnPathType
<1> QED BY <1>2, <1>3, <1>4, <1>5, <1>6, <1>9, <1>13, <1>14, <1>15 DEF Root

LEMMA MakesDirs == ASSUME DirsInv, NEW w \in Workers, Makes(w) PROVE DirsInv'
<1> DEFINE d == SubSeq(Dir(w), 1, worker[w].depth)
<1>t. TypeOK BY DEF DirsInv
<1>1. worker[w].pc = "making" /\ files' = files BY DEF Makes
<1>2. d \in AllDirs /\ worker[w].depth + 1 \in 1 .. Len(Dir(w)) + 1 BY <1>1, NextDir
<1>f. found' \in [Workers -> SUBSET AllDirs]
  <2>1. "failed" \in WorkerPCs \ {"making"} BY DEF WorkerPCs
  <2>2. Stops(w, "failed") => found' \in [Workers -> SUBSET AllDirs] BY <2>1, StopsShape
  <2> QED BY <1>t, <2>2 DEF Makes, TypeOK
<1>3. DownloadStays /\ worker[w].pc # "cleaned"
  BY <1>1, <1>t, <1>f DEF Makes, DownloadStays, TypeOK
<1>4. CASE UNCHANGED <<dirs, old>> /\ GoesOn(w, worker[w].depth + 1)
  BY <1>t, <1>1, <1>2, <1>3, <1>4, GoesOnShape, DirsFromWorker DEF TypeOK
<1>5. CASE Mkdir(d) /\ GoesOn(w, worker[w].depth + 1)
  <2>1. dirs' \subseteq AllDirs /\ old' \subseteq dirs' /\ dirs \subseteq dirs'
    BY <1>t, <1>2, <1>5, MkdirType
  <2> QED BY <1>t, <1>1, <1>2, <1>3, <1>5, <2>1, GoesOnShape, DirsFromWorker DEF TypeOK
<1>6. CASE UNCHANGED <<dirs, old>> /\ Stops(w, "failed")
  <2>1. /\ worker' \in [Workers -> WorkerStates] /\ worker'[w].pc = "failed"
        /\ \A v \in Workers : v # w => worker'[v] = worker[v]
    <3>1. "failed" \in WorkerPCs \ {"making"} BY DEF WorkerPCs
    <3>2. worker'[w] = [pc |-> "failed", depth |-> 0] BY <1>6, <3>1, StopsShape
    <3> QED BY <1>6, <3>1, <3>2, StopsShape
  <2> QED BY <1>t, <1>1, <1>3, <1>6, <2>1, DirsFromWorker DEF TypeOK
<1> QED BY <1>4, <1>5, <1>6 DEF Makes

LEMMA CreatesDirs == ASSUME DirsInv, NEW w \in Workers, Creates(w) PROVE DirsInv'
<1>t. TypeOK BY DEF DirsInv
<1>1. worker[w].pc = "create" /\ dirs' = dirs BY DEF Creates
<1>2. PICK pc \in {"done", "failed"} : Stops(w, pc) BY DEF Creates
<1>3. pc \in WorkerPCs \ {"making"} BY DEF WorkerPCs
<1>4. /\ worker' \in [Workers -> WorkerStates] /\ worker'[w] = [pc |-> pc, depth |-> 0]
      /\ \A v \in Workers : v # w => worker'[v] = worker[v]
      /\ found' \in [Workers -> SUBSET AllDirs]
  BY <1>2, <1>3, StopsShape
<1>5. DownloadStays /\ worker[w].pc # "cleaned"
  BY <1>1, <1>t, <1>4 DEF Creates, DownloadStays, TypeOK
<1>6. files' \subseteq Workers /\ old' \subseteq old BY <1>t DEF Creates, TypeOK
<1>7. worker'[w].pc # "making" BY <1>4
<1> QED BY <1>t, <1>1, <1>4, <1>5, <1>6, <1>7, DirsFromWorker DEF TypeOK

\* A removal by path, of which downloads may learn, while what is cleaned stays so and
\* nothing else moves.
LEMMA DirsFromRemoval ==
    ASSUME DirsInv, NEW path, path # << >>, Len(path) \in Nat \ {0}, RemoveAll(path), Exposes,
           UNCHANGED <<prune, sweep, found, crashes, layout>>, removals' \in 0 .. MaxRemovals,
           worker' \in [Workers -> WorkerStates],
           \A v \in Workers : \/ worker'[v] = worker[v]
                              \/ worker[v].pc # "cleaned" /\ worker'[v].pc # "making"
    PROVE  DirsInv'
<1>1. \A v : Dir(v)' = Dir(v) /\ OnPath(v)' = OnPath(v) /\ Siblings(v)' = Siblings(v)
  BY SameLayout
<1>2. /\ dirs' \subseteq AllDirs /\ old' \subseteq dirs' /\ Root \in dirs' /\ files' \subseteq Workers
  BY RemoveAllType DEF DirsInv
<1>3. exposed' \subseteq Workers BY DEF Exposes, DirsInv, TypeOK
<1>4. TypeOK' BY <1>2, <1>3 DEF DirsInv, TypeOK, WorkerStates
<1>5. PrunesAfterCleaning'
  <2>1. \A v \in Workers : worker[v].pc = "cleaned" => worker'[v].pc = "cleaned" OBVIOUS
  <2>2. \A v \in Workers : Siblings(v) \subseteq Workers BY DEF Siblings
  <2> QED BY <1>1, <2>1, <2>2 DEF DirsInv, PrunesAfterCleaning, Root
<1>6. MakesOnPath' BY <1>1 DEF DirsInv, MakesOnPath
<1> QED BY <1>2, <1>4, <1>5, <1>6 DEF DirsInv, SweepsBelowRoot, Root

LEMMA WipesDirs == ASSUME DirsInv, NEW w \in Workers, Wipes(w) PROVE DirsInv'
<1>1. layout \in Layouts /\ removals' \in 0 .. MaxRemovals BY DEF Wipes, DirsInv, TypeOK
<1>2. "missing" \in WorkerPCs \ {"making"} BY DEF WorkerPCs
<1>3. /\ worker' \in [Workers -> WorkerStates] /\ worker'[w] = [pc |-> "missing", depth |-> 0]
      /\ \A v \in Workers : v # w => worker'[v] = worker[v]
  BY <1>2, GoesShape DEF Wipes
<1>4. worker[w].pc # "cleaned" BY DEF Wipes
<1>5. PICK path : path = Release[w] OBVIOUS
<1>6. path # << >> /\ Len(path) \in Nat \ {0} BY <1>1, <1>5, ReleaseLength
<1>7. RemoveAll(path) /\ Exposes /\ UNCHANGED <<prune, sweep, found, crashes, layout>>
  BY <1>5 DEF Wipes
<1> QED BY <1>1, <1>3, <1>4, <1>6, <1>7, DirsFromRemoval

\* Every entry of DOWNLOAD_DIR, file and release lies below it.
LEMMA RemovableBelowRoot ==
    ASSUME DirsInv, NEW path \in Removable PROVE path # << >> /\ Len(path) \in Nat \ {0}
<1>1. layout \in Layouts BY DEF DirsInv, TypeOK
<1>2. Len(<< >>) = 0 BY EmptySeq
<1>3. Len(path) = 1 => path # << >> /\ Len(path) \in Nat \ {0} BY <1>2
<1> QED BY <1>1, <1>3, ReleaseLength DEF Removable

LEMMA UserDirs == ASSUME DirsInv, UserActs PROVE DirsInv'
<1>t. /\ layout \in Layouts /\ worker \in [Workers -> WorkerStates] /\ removals \in 0 .. MaxRemovals
  BY DEF DirsInv, TypeOK, WorkerStates
<1>1. ASSUME NEW path \in Removable, UserRemoves(path) PROVE DirsInv'
  <2>1. removals' \in 0 .. MaxRemovals BY <1>1, <1>t, BoundsAssumption DEF UserRemoves
  <2>2. PICK p : p = path OBVIOUS
  <2>3. p # << >> /\ Len(p) \in Nat \ {0} BY <2>2, RemovableBelowRoot
  <2>4. RemoveAll(p) /\ Exposes /\ UNCHANGED <<worker, prune, sweep, found, crashes, layout>>
    BY <1>1, <2>2 DEF UserRemoves
  <2> QED BY <1>t, <2>1, <2>3, <2>4, DirsFromRemoval
<1>2. ASSUME NEW w \in Workers, UserRetries(w) PROVE DirsInv'
  <2>1. removals' \in 0 .. MaxRemovals BY <1>2, <1>t, BoundsAssumption DEF UserRetries
  <2>2. NoWorker \in WorkerStates /\ NoWorker.pc = "idle"
    BY DEF NoWorker, WorkerStates, WorkerPCs
  <2>3. /\ worker' \in [Workers -> WorkerStates]
        /\ \A v \in Workers : \/ worker'[v] = worker[v]
                              \/ worker[v].pc # "cleaned" /\ worker'[v].pc # "making"
    BY <1>2, <1>t, <2>2 DEF UserRetries
  <2>4. PICK path : path = Release[w] OBVIOUS
  <2>5. path # << >> /\ Len(path) \in Nat \ {0} BY <1>t, <2>4, ReleaseLength
  <2>6. RemoveAll(path) /\ Exposes /\ UNCHANGED <<prune, sweep, found, crashes, layout>>
    BY <1>2, <2>4 DEF UserRetries
  <2> QED BY <2>1, <2>3, <2>5, <2>6, DirsFromRemoval
<1> QED BY <1>1, <1>2 DEF UserActs

LEMMA ArrMovesDirs == ASSUME DirsInv, NEW w \in Workers, ArrMoves(w) PROVE DirsInv'
<1>1. /\ files' \subseteq files /\ old' \subseteq old
      /\ UNCHANGED <<dirs, worker, prune, sweep, found, exposed, crashes, removals, layout>>
  BY DEF ArrMoves
<1>2. \A v : Dir(v)' = Dir(v) /\ OnPath(v)' = OnPath(v) /\ Siblings(v)' = Siblings(v)
  BY <1>1, SameLayout
<1>3. TypeOK' BY <1>1 DEF DirsInv, TypeOK
<1>4. PrunesAfterCleaning' BY <1>1, <1>2 DEF DirsInv, PrunesAfterCleaning, Root
<1>5. MakesOnPath' BY <1>1, <1>2 DEF DirsInv, MakesOnPath
<1> QED BY <1>1, <1>3, <1>4, <1>5 DEF DirsInv, SweepsBelowRoot, Root

LEMMA RemovesReleaseDirs ==
    ASSUME DirsInv, NEW w \in Workers, RemovesRelease(w) PROVE DirsInv'
<1>t. /\ layout \in Layouts /\ worker \in [Workers -> WorkerStates]
      /\ prune \in [Workers -> PruneStates] /\ TypeOK
  BY DEF DirsInv, TypeOK, WorkerStates, PruneStates
<1>0. UNCHANGED <<sweep, found, exposed, crashes, removals, layout>> BY DEF RemovesRelease
<1>1. \A v : Dir(v)' = Dir(v) /\ OnPath(v)' = OnPath(v) /\ Siblings(v)' = Siblings(v)
  BY <1>0, SameLayout
<1>2. /\ worker' \in [Workers -> WorkerStates]
      /\ \A v \in Siblings(w) : v \in Workers => worker'[v].pc = "cleaned"
      /\ \A v \in Workers : worker'[v].pc = "cleaned" \/ worker'[v] = worker[v]
  <2>1. [NoWorker EXCEPT !.pc = "cleaned"] = [pc |-> "cleaned", depth |-> 0] BY DEF NoWorker
  <2> QED BY <1>t, <2>1 DEF RemovesRelease, WorkerStates, WorkerPCs
<1>3. Front(Release[w]) \in OnPath(w) /\ Front(Release[w]) \in AllDirs
  BY <1>t, ReleaseParent, OnPathType
<1>4. /\ prune' \in [Workers -> PruneStates]
      /\ prune'[w].pc = "read" /\ prune'[w].dir = Front(Release[w])
      /\ \A v \in Workers : v # w => prune'[v] = prune[v]
  BY <1>t, <1>3 DEF RemovesRelease, PruneStates
<1>5. /\ dirs' \subseteq dirs /\ old' \subseteq dirs' /\ files' \subseteq files
      /\ Root \in dirs'
  <2>1. PICK path : path = Release[w] OBVIOUS
  <2>2. path # << >> /\ Len(path) \in Nat \ {0} BY <1>t, <2>1, ReleaseLength
  <2>3. RemoveAll(path) BY <2>1 DEF RemovesRelease
  <2> QED BY <1>t, <2>2, <2>3, RemoveAllType DEF DirsInv
<1>7. TypeOK' BY <1>0, <1>t, <1>2, <1>4, <1>5 DEF TypeOK, WorkerStates, PruneStates
<1>8. PrunesAfterCleaning'
  <2>1. \A v \in Workers : worker[v].pc = "cleaned" => worker'[v].pc = "cleaned" BY <1>2
  <2>2. \A v \in Workers : Siblings(v) \subseteq Workers BY DEF Siblings
  <2>3. \A v \in Siblings(w) : worker'[v].pc = "cleaned" BY <1>2, <2>2
  <2> SUFFICES ASSUME NEW v \in Workers, prune'[v].pc # "none"
               PROVE  /\ prune'[v].dir \in OnPath(v)
                      /\ prune'[v].pc = "remove" => prune'[v].dir # Root
                      /\ \A u \in Siblings(v) : worker'[u].pc = "cleaned"
    BY <1>1 DEF PrunesAfterCleaning, Root
  <2>4. CASE v = w BY <1>3, <1>4, <2>3, <2>4
  <2>5. CASE v # w BY <1>4, <2>1, <2>2, <2>5 DEF DirsInv, PrunesAfterCleaning
  <2> QED BY <2>4, <2>5
<1>9. MakesOnPath' BY <1>1, <1>2 DEF DirsInv, MakesOnPath
<1> QED BY <1>0, <1>5, <1>7, <1>8, <1>9 DEF DirsInv, SweepsBelowRoot, Root

\* A removal's step, whatever it does to the directories.
LEMMA DirsFromPrune ==
    ASSUME DirsInv, NEW w \in Workers, prune[w].pc # "none",
           UNCHANGED <<files, worker, sweep, found, exposed, crashes, removals, layout>>,
           prune' \in [Workers -> PruneStates],
           \A v \in Workers : v # w => prune'[v] = prune[v],
           prune'[w].pc # "none" => prune'[w].dir \in OnPath(w),
           prune'[w].pc = "remove" => prune'[w].dir # Root,
           dirs' \subseteq AllDirs, Root \in dirs', old' \subseteq dirs'
    PROVE  DirsInv'
<1>1. \A v : Dir(v)' = Dir(v) /\ OnPath(v)' = OnPath(v) /\ Siblings(v)' = Siblings(v)
  BY SameLayout
<1>2. TypeOK' BY DEF DirsInv, TypeOK, PruneStates
<1>3. PrunesAfterCleaning'
  <2>1. \A v \in Siblings(w) : worker[v].pc = "cleaned" BY DEF DirsInv, PrunesAfterCleaning
  <2> SUFFICES ASSUME NEW v \in Workers, prune'[v].pc # "none"
               PROVE  /\ prune'[v].dir \in OnPath(v)
                      /\ prune'[v].pc = "remove" => prune'[v].dir # Root
                      /\ \A u \in Siblings(v) : worker[u].pc = "cleaned"
    BY <1>1 DEF PrunesAfterCleaning, Root
  <2>2. CASE v = w BY <2>1, <2>2
  <2>3. CASE v # w BY <2>3 DEF DirsInv, PrunesAfterCleaning
  <2> QED BY <2>2, <2>3
<1>4. MakesOnPath' BY <1>1 DEF DirsInv, MakesOnPath
<1> QED BY <1>2, <1>3, <1>4 DEF DirsInv, SweepsBelowRoot, Root

LEMMA PruneReadsDirs == ASSUME DirsInv, NEW w \in Workers, PruneReads(w) PROVE DirsInv'
<1>t. prune \in [Workers -> PruneStates] /\ TypeOK /\ Root \in dirs /\ Root \in AllDirs
  BY DEF DirsInv, TypeOK, PruneStates
<1>1. /\ prune[w].pc = "read" /\ prune[w].dir \in OnPath(w)
      /\ UNCHANGED <<dirs, old, files, worker, sweep, found, exposed, crashes, removals, layout>>
  BY DEF PruneReads, DirsInv, PrunesAfterCleaning
<1>2. /\ prune' \in [Workers -> PruneStates]
      /\ \A v \in Workers : v # w => prune'[v] = prune[v]
      /\ prune'[w].pc # "none" => prune'[w].dir = prune[w].dir
      /\ prune'[w].pc = "remove" => prune[w].dir # Root
  <2>1. CASE prune' = [prune EXCEPT ![w].pc = "remove"] /\ prune[w].dir # Root
    BY <1>t, <2>1 DEF PruneStates
  <2>2. CASE prune' = [prune EXCEPT ![w] = NoPrune] BY <1>t, <2>2 DEF PruneStates, NoPrune
  <2> QED BY <2>1, <2>2 DEF PruneReads
<1> QED BY <1>t, <1>1, <1>2, DirsFromPrune DEF TypeOK

LEMMA PruneRemovesDirs == ASSUME DirsInv, NEW w \in Workers, PruneRemoves(w) PROVE DirsInv'
<1> DEFINE d == prune[w].dir
<1>t. /\ prune \in [Workers -> PruneStates] /\ TypeOK /\ Root \in dirs /\ Root \in AllDirs
      /\ layout \in Layouts
  BY DEF DirsInv, TypeOK, PruneStates
<1>1. /\ prune[w].pc = "remove" /\ d \in OnPath(w) /\ d # Root /\ RemoveDir(d)
      /\ UNCHANGED <<worker, sweep, found, exposed, crashes, removals, layout>>
  BY DEF PruneRemoves, DirsInv, PrunesAfterCleaning
<1>2. dirs' \subseteq AllDirs /\ old' \subseteq dirs' /\ Root \in dirs' /\ files' = files
  BY <1>t, <1>1, RemoveDirType
<1>3. Front(d) \in OnPath(w) /\ Front(d) \in AllDirs BY <1>t, <1>1, FrontOnPath, OnPathType
<1>4. /\ prune' \in [Workers -> PruneStates]
      /\ \A v \in Workers : v # w => prune'[v] = prune[v]
      /\ prune'[w].pc # "none" => prune'[w].dir = Front(d)
      /\ prune'[w].pc # "remove"
  <2>1. CASE prune' = [prune EXCEPT ![w] = [pc |-> "read", dir |-> Front(d)]]
    BY <1>t, <1>3, <2>1 DEF PruneStates
  <2>2. CASE prune' = [prune EXCEPT ![w] = NoPrune] BY <1>t, <2>2 DEF PruneStates, NoPrune
  <2> QED BY <2>1, <2>2 DEF PruneRemoves
<1> QED BY <1>1, <1>2, <1>3, <1>4, DirsFromPrune

LEMMA SweepsDirs == ASSUME DirsInv, Sweeps PROVE DirsInv'
<1>t. /\ sweep \in SweepStates /\ TypeOK /\ Root \in dirs /\ Root \in AllDirs
  BY DEF DirsInv, TypeOK, SweepStates
<1>1. UNCHANGED <<worker, prune, found, exposed, crashes, removals, layout, files>>
  BY DEF Sweeps, SweepBegins, SweepReads, SweepStats, SweepRemoves, SweepEnds, RemoveDir
<1>2. \A v : Dir(v)' = Dir(v) /\ OnPath(v)' = OnPath(v) /\ Siblings(v)' = Siblings(v)
  BY <1>1, SameLayout
<1>3. PrunesAfterCleaning' /\ MakesOnPath'
  BY <1>1, <1>2 DEF DirsInv, PrunesAfterCleaning, MakesOnPath, Root
<1>4. NoSweep \in SweepStates /\ NoSweep.pc = "idle" BY <1>t DEF NoSweep, SweepStates
<1>5. /\ sweep' \in SweepStates
      /\ sweep'.pc \in {"stat", "remove"} => sweep'.dir # Root
  <2>1. CASE SweepBegins
    <3>1. Walked \subseteq AllDirs \ {Root} BY <1>t DEF Walked, TypeOK
    <3> QED BY <1>4, <2>1, <3>1 DEF SweepBegins, SweepStates
  <2>2. ASSUME NEW d \in AllDirs, SweepReads(d)
        PROVE  sweep' \in SweepStates /\ (sweep'.pc \in {"stat", "remove"} => sweep'.dir # Root)
    <3>1. d \in AllDirs \ {Root} BY <1>t, <2>2 DEF SweepReads, SweepStates
    <3>2. PICK pc \in {"stat", "next"} :
             sweep' = [pc |-> pc, dir |-> d, todo |-> sweep.todo \ {d}]
      BY <2>2 DEF SweepReads
    <3> QED BY <1>t, <3>1, <3>2 DEF SweepStates
  <2>3. CASE SweepStats
    <3>1. PICK pc \in {"remove", "next"} : sweep' = [sweep EXCEPT !.pc = pc]
      BY <2>3 DEF SweepStats
    <3> QED BY <1>t, <2>3, <3>1 DEF SweepStats, SweepStates, DirsInv, SweepsBelowRoot
  <2>4. CASE SweepRemoves BY <1>t, <2>4 DEF SweepRemoves, SweepStates
  <2>5. CASE SweepEnds BY <1>4, <2>5 DEF SweepEnds
  <2> QED BY <2>1, <2>2, <2>3, <2>4, <2>5 DEF Sweeps
<1>6. dirs' \subseteq AllDirs /\ old' \subseteq dirs' /\ Root \in dirs'
  <2>1. CASE SweepRemoves
    <3>1. sweep.dir # Root BY <2>1 DEF SweepRemoves, DirsInv, SweepsBelowRoot
    <3> QED BY <1>t, <2>1, <3>1, RemoveDirType DEF SweepRemoves
  <2>2. CASE UNCHANGED <<dirs, old>> BY <1>t, <2>2 DEF TypeOK
  <2> QED BY <2>1, <2>2 DEF Sweeps, SweepBegins, SweepReads, SweepStats, SweepEnds
<1>7. TypeOK' BY <1>1, <1>5, <1>6, <1>t DEF TypeOK, SweepStates
<1> QED BY <1>3, <1>5, <1>6, <1>7 DEF DirsInv, SweepsBelowRoot, Root

LEMMA AgesDirs == ASSUME DirsInv, NEW d \in AllDirs, Ages(d) PROVE DirsInv'
<1>1. /\ UNCHANGED <<dirs, files, worker, prune, sweep, found, crashes, removals, layout>>
      /\ old' = old \cup {d} /\ d \in dirs
  BY DEF Ages
<1>e. exposed' \subseteq Workers BY DEF Ages, DirsInv, TypeOK
<1>2. \A v : Dir(v)' = Dir(v) /\ OnPath(v)' = OnPath(v) /\ Siblings(v)' = Siblings(v)
  BY <1>1, SameLayout
<1>3. TypeOK' BY <1>1, <1>e DEF DirsInv, TypeOK
<1> QED BY <1>1, <1>2, <1>3 DEF DirsInv, PrunesAfterCleaning, MakesOnPath, SweepsBelowRoot, Root

LEMMA CrashDirs == ASSUME DirsInv, Crash PROVE DirsInv'
<1>t. /\ worker \in [Workers -> WorkerStates] /\ TypeOK /\ Root \in dirs /\ Root \in AllDirs
  BY DEF DirsInv, TypeOK, WorkerStates
<1>1. UNCHANGED <<dirs, old, files, exposed, removals, layout>> /\ sweep' = NoSweep BY DEF Crash
<1>f. found' \in [Workers -> SUBSET AllDirs] BY DEF Crash
<1>2. \A v : Dir(v)' = Dir(v) BY <1>1, SameLayout
<1>3. /\ worker' \in [Workers -> WorkerStates]
      /\ \A v \in Workers : worker'[v].pc # "making"
  BY <1>t DEF Crash, NoWorker, WorkerStates, WorkerPCs
<1>4. /\ prune' \in [Workers -> PruneStates] /\ \A v \in Workers : prune'[v].pc = "none"
  BY <1>t DEF Crash, NoPrune, PruneStates
<1>5. sweep' \in SweepStates /\ sweep'.pc = "idle" BY <1>1, <1>t DEF NoSweep, SweepStates
<1>6. crashes' \in 0 .. MaxCrashes BY BoundsAssumption DEF Crash, DirsInv, TypeOK
<1>7. TypeOK'
  BY <1>1, <1>t, <1>f, <1>3, <1>4, <1>5, <1>6 DEF TypeOK, WorkerStates, PruneStates, SweepStates
<1> QED BY <1>1, <1>t, <1>3, <1>4, <1>5, <1>7
     DEF DirsInv, PrunesAfterCleaning, MakesOnPath, SweepsBelowRoot, Root

LEMMA StepDirs == ASSUME DirsInv, [Next]_vars PROVE DirsInv'
<1>1. CASE UNCHANGED vars
  BY <1>1 DEF vars, DirsInv, TypeOK, PrunesAfterCleaning, MakesOnPath, SweepsBelowRoot,
     OnPath, Dir, Path, Siblings, Release, Root
<1>2. ASSUME NEW w \in Workers, Downloads(w) PROVE DirsInv'
  BY <1>2, StartsDirs, MakesDirs, CreatesDirs DEF Downloads
<1>3. ASSUME NEW w \in Workers, Wipes(w) \/ ArrMoves(w) \/ RemovesRelease(w) PROVE DirsInv'
  BY <1>3, WipesDirs, ArrMovesDirs, RemovesReleaseDirs
<1>4. ASSUME NEW w \in Workers, Prunes(w) PROVE DirsInv'
  BY <1>4, PruneReadsDirs, PruneRemovesDirs DEF Prunes
<1> QED BY <1>1, <1>2, <1>3, <1>4, UserDirs, SweepsDirs, AgesDirs, CrashDirs DEF Next

LEMMA DirsInvariant == Spec => []DirsInv
<1>1. DirsInv /\ [Next]_vars => DirsInv' BY StepDirs
<1> QED BY <1>1, InitDirs, PTL DEF Spec

\* The directories, downloads, removals and the sweep are well typed, and DOWNLOAD_DIR is
\* never removed nor left by a removal or a sweep.
THEOREM SweepTypeCorrect == Spec => []TypeOK
<1>1. DirsInv => TypeOK BY DEF DirsInv
<1> QED BY <1>1, DirsInvariant, PTL

-----------------------------------------------------------------------------
(* What a download may rely on *)

\* Nothing a running attempt needs is old, unless that was recorded.
PathIsYoung == \A w \in Workers : Making(w) /\ w \notin exposed => OwnPath(w) \cap old = {}

\* The sweep, once it has made up its mind, is about to remove nothing it needs.
SweepIsAway == \A w \in Workers :
    Making(w) /\ w \notin exposed /\ sweep.pc = "remove" => sweep.dir \notin OwnPath(w)

\* What the attempt has made, or found, of its path is there.
PathIsMade == \A w \in Workers : Apart(w) /\ w \notin exposed =>
    /\ worker[w].pc = "making" => SubSeq(Dir(w), 1, worker[w].depth - 1) \in dirs
    /\ worker[w].pc = "create" => Dir(w) \in dirs

AgeInv == DirsInv /\ PathIsYoung /\ SweepIsAway /\ PathIsMade /\ FailsOnlyIfExposed

\* Only a step of its own changes how far an attempt is, unless it is over; what was
\* recorded of it is forgotten by its next start only.
LEMMA WorkerSteps ==
    ASSUME DirsInv, Next, NEW w \in Workers
    PROVE  \/ Starts(w)
           \/ /\ w \in exposed => w \in exposed'
              /\ \/ Makes(w) \/ Creates(w)
                 \/ worker'[w].pc \in {"idle", "missing", "cleaned"}
                 \/ worker'[w] = worker[w]
<1>t. worker \in [Workers -> WorkerStates] BY DEF DirsInv, TypeOK, WorkerStates
<1> DEFINE Kept == w \in exposed => w \in exposed'
<1>1. ASSUME NEW v \in Workers, v # w, Starts(v) PROVE worker'[w] = worker[w] /\ Kept
  BY <1>t, <1>1 DEF Starts, GoesOn, Goes
<1>2. ASSUME NEW v \in Workers, Makes(v) \/ Creates(v)
      PROVE  Kept /\ (v # w => worker'[w] = worker[w])
  BY <1>t, <1>2 DEF Makes, Creates, GoesOn, Stops, Goes
<1>3. ASSUME NEW v \in Workers, Wipes(v)
      PROVE  Kept /\ (worker'[w].pc = "missing" \/ worker'[w] = worker[w])
  BY <1>t, <1>3 DEF Wipes, Exposes, Goes
<1>4. ASSUME NEW v \in Workers, RemovesRelease(v)
      PROVE  Kept /\ (worker'[w].pc = "cleaned" \/ worker'[w] = worker[w])
  BY <1>4 DEF RemovesRelease, NoWorker
<1>5. ASSUME NEW v \in Workers, ArrMoves(v) \/ Prunes(v) PROVE worker' = worker /\ Kept
  BY <1>5 DEF ArrMoves, Prunes, PruneReads, PruneRemoves
<1>6. UserActs => Kept /\ (worker'[w].pc = "idle" \/ worker'[w] = worker[w])
  BY DEF UserActs, UserRemoves, UserRetries, Exposes, NoWorker
<1>7. Sweeps => worker' = worker /\ Kept
  BY DEF Sweeps, SweepBegins, SweepReads, SweepStats, SweepRemoves, SweepEnds
<1>8. \A d : Ages(d) => worker' = worker /\ Kept BY DEF Ages
<1>9. Crash => Kept /\ (worker'[w].pc = "idle" \/ worker'[w] = worker[w])
  BY DEF Crash, NoWorker
<1> QED BY <1>1, <1>2, <1>3, <1>4, <1>5, <1>6, <1>7, <1>8, <1>9 DEF Next, Downloads

\* An attempt under way was under way before, or starts.
LEMMA AttemptSteps ==
    ASSUME DirsInv, Next, NEW w \in Workers, Making(w)', w \notin exposed'
    PROVE  Starts(w) \/ (Making(w) /\ w \notin exposed)
<1>1. Makes(w) \/ Creates(w) => Making(w) BY DEF Makes, Creates, Making
<1>2. worker'[w].pc \in {"making", "create"} BY DEF Making
<1> QED BY <1>1, <1>2, WorkerSteps DEF Making

\* Directories grow old one at a time.
LEMMA OldGrows ==
    ASSUME Next, NEW d, d \notin old, d \in old'
    PROVE  Ages(d)
<1>1. ASSUME NEW v \in Workers,
             Downloads(v) \/ Wipes(v) \/ ArrMoves(v) \/ RemovesRelease(v) \/ Prunes(v)
      PROVE  old' \subseteq old
  BY <1>1 DEF Downloads, Starts, Makes, Mkdir, Creates, Wipes, ArrMoves, RemovesRelease, RemoveAll,
     Prunes, PruneReads, PruneRemoves, RemoveDir, Rmdir
<1>2. UserActs => old' \subseteq old BY DEF UserActs, UserRemoves, UserRetries, RemoveAll
<1>3. Sweeps => old' \subseteq old
  BY DEF Sweeps, SweepBegins, SweepReads, SweepStats, SweepRemoves, SweepEnds, RemoveDir, Rmdir
<1>4. Crash => old' = old BY DEF Crash
<1>5. \A e : Ages(e) => old' = old \cup {e} BY DEF Ages
<1> QED BY <1>1, <1>2, <1>3, <1>4, <1>5 DEF Next

LEMMA YoungStays == ASSUME DirsInv, PathIsYoung, Next PROVE PathIsYoung'
<1>0. \A v : OwnPath(v)' = OwnPath(v) BY LayoutFixed, SameLayout
<1> SUFFICES ASSUME NEW w \in Workers, Making(w)', w \notin exposed', NEW d \in OwnPath(w),
                    d \in old'
             PROVE  FALSE
  BY <1>0 DEF PathIsYoung
<1>1. CASE Starts(w) BY <1>1 DEF Starts, AtRisk
<1>2. CASE Making(w) /\ w \notin exposed
  <2>1. d \notin old BY <1>2 DEF PathIsYoung
  <2>2. Ages(d) BY <2>1, OldGrows
  <2>3. d \in found[w] BY <1>2, <2>2 DEF Ages
  <2> QED BY <1>2, <2>2, <2>3 DEF Ages
<1> QED BY <1>1, <1>2, AttemptSteps

\* The sweep comes to remove a directory, or stays about to.
LEMMA SweepComesToRemove ==
    ASSUME DirsInv, Next, sweep'.pc = "remove"
    PROVE  \/ sweep' = sweep
           \/ sweep'.dir = sweep.dir /\ sweep.dir \in old
<1>t. sweep \in SweepStates BY DEF DirsInv, TypeOK, SweepStates
<1>1. ASSUME NEW w \in Workers,
             Downloads(w) \/ Wipes(w) \/ ArrMoves(w) \/ RemovesRelease(w) \/ Prunes(w)
      PROVE  sweep' = sweep
  BY <1>1 DEF Downloads, Starts, Makes, Creates, Wipes, ArrMoves, RemovesRelease, Prunes,
     PruneReads, PruneRemoves
<1>7. UserActs => sweep' = sweep BY DEF UserActs, UserRemoves, UserRetries
<1>2. ~ SweepBegins /\ ~ SweepEnds /\ ~ SweepRemoves
  <2>1. NoSweep \in [pc : {"idle"}, dir : {Root}, todo : {{}}] BY DEF NoSweep
  <2> QED BY <1>t, <2>1 DEF SweepBegins, SweepEnds, SweepRemoves, SweepStates
<1>3. \A d : ~ SweepReads(d) BY DEF SweepReads
<1>4. SweepStats => sweep'.dir = sweep.dir /\ sweep.dir \in old
  BY <1>t DEF SweepStats, SweepStates
<1>5. \A d : Ages(d) => sweep' = sweep BY DEF Ages
<1>6. ~ Crash BY DEF Crash, NoSweep
<1> QED BY <1>1, <1>2, <1>3, <1>4, <1>5, <1>6, <1>7 DEF Next, Sweeps

LEMMA AwayStays == ASSUME DirsInv, PathIsYoung, SweepIsAway, Next PROVE SweepIsAway'
<1>0. \A v : OwnPath(v)' = OwnPath(v) BY LayoutFixed, SameLayout
<1> SUFFICES ASSUME NEW w \in Workers, Making(w)', w \notin exposed', sweep'.pc = "remove",
                    sweep'.dir \in OwnPath(w)
             PROVE  FALSE
  BY <1>0 DEF SweepIsAway
<1>1. CASE Starts(w) BY <1>1 DEF Starts, AtRisk
<1>2. CASE Making(w) /\ w \notin exposed
  BY <1>2, SweepComesToRemove DEF PathIsYoung, SweepIsAway
<1> QED BY <1>1, <1>2, AttemptSteps

\* While a download that lies apart is made, nothing of its path is taken away unrecorded:
\* a release that is removed, or whose parents are pruned, is downloaded, so it is not its own.
LEMMA PathStays ==
    ASSUME DirsInv, SweepIsAway, Next, NEW w \in Workers, Making(w), w \notin exposed,
           w \notin exposed', Apart(w), NEW d \in OnPath(w), d \in dirs
    PROVE  d \in dirs'
<1> SUFFICES ASSUME d \notin dirs' PROVE FALSE OBVIOUS
<1>t. layout \in Layouts /\ d # Root /\ d \in OwnPath(w)
  <2>1. Root \in dirs' BY StepDirs DEF DirsInv, Root
  <2> QED BY <2>1 DEF DirsInv, TypeOK, OwnPath
<1>w. w \in Siblings(w) BY DEF Siblings
<1>1. ASSUME NEW v \in Workers, Downloads(v) \/ ArrMoves(v) PROVE FALSE
  BY <1>1 DEF Downloads, Starts, Makes, Mkdir, Creates, ArrMoves
<1>2. ASSUME Exposes PROVE FALSE BY <1>t, <1>2 DEF Exposes
<1>3. ASSUME NEW v \in Workers, RemovesRelease(v) PROVE FALSE
  <2>1. IsPrefix(Release[v], d) BY <1>3 DEF RemovesRelease, RemoveAll, Under
  <2>2. Siblings(v) = Siblings(w) BY <1>t, <2>1, ReleaseAbove, ApartShares
  <2> QED BY <1>3, <1>w, <2>2 DEF RemovesRelease, Making
<1>4. ASSUME NEW v \in Workers, Prunes(v) PROVE FALSE
  <2>1. prune[v].pc # "none" /\ prune[v].dir = d
    BY <1>4 DEF Prunes, PruneReads, PruneRemoves, RemoveDir, Rmdir
  <2>2. d \in OnPath(v) /\ \A u \in Siblings(v) : worker[u].pc = "cleaned"
    BY <2>1 DEF DirsInv, PrunesAfterCleaning
  <2>3. Siblings(v) = Siblings(w) BY <1>t, <2>2, ApartShares
  <2> QED BY <1>w, <2>2, <2>3 DEF Making
<1>5. CASE Sweeps
  <2>1. sweep.pc = "remove" /\ sweep.dir = d
    BY <1>5 DEF Sweeps, SweepBegins, SweepReads, SweepStats, SweepRemoves, SweepEnds,
       RemoveDir, Rmdir
  <2> QED BY <1>t, <2>1 DEF SweepIsAway
<1>6. ASSUME NEW e, Ages(e) PROVE FALSE BY <1>6 DEF Ages
<1>7. CASE Crash BY <1>7 DEF Crash
<1> QED BY <1>1, <1>2, <1>3, <1>4, <1>5, <1>6, <1>7 DEF Next, Wipes, UserActs, UserRemoves, UserRetries

LEMMA StartsAtDeepest ==
    ASSUME DirsInv, NEW w \in Workers, Starts(w)
    PROVE  /\ worker'[w].pc = "making" => SubSeq(Dir(w), 1, worker'[w].depth - 1) \in dirs'
           /\ worker'[w].pc = "create" => Dir(w) \in dirs'
           /\ worker'[w].pc # "failed"
<1>1. layout \in Layouts /\ Root \in dirs BY DEF DirsInv, TypeOK
<1>2. PICK n \in 1 .. Len(Dir(w)) + 1 : n = MissingFrom(w) /\ SubSeq(Dir(w), 1, n - 1) \in dirs
  BY <1>1, MissingFromExists
<1>3. worker'[w] = [pc |-> IF n > Len(Dir(w)) THEN "create" ELSE "making", depth |-> n]
  BY <1>2, GoesOnShape DEF Starts
<1>4. Dir(w) \in Paths /\ Len(Dir(w)) \in Nat BY <1>1, LayoutShape
<1>5. n > Len(Dir(w)) => n - 1 = Len(Dir(w)) BY <1>4
<1>6. SubSeq(Dir(w), 1, Len(Dir(w))) = Dir(w) BY <1>4, SubSeqFull DEF Paths
<1>7. dirs' = dirs BY DEF Starts
<1>8. CASE n > Len(Dir(w))
  <2>1. worker'[w].pc = "create" BY <1>3, <1>8
  <2>2. Dir(w) \in dirs' BY <1>2, <1>5, <1>6, <1>7, <1>8
  <2> QED BY <2>1, <2>2
<1>9. CASE ~ (n > Len(Dir(w)))
  <2>1. worker'[w].pc = "making" /\ worker'[w].depth = n BY <1>3, <1>9
  <2> QED BY <1>2, <1>7, <2>1
<1> QED BY <1>8, <1>9

LEMMA MakesTheNext ==
    ASSUME DirsInv, NEW w \in Workers, Makes(w), SubSeq(Dir(w), 1, worker[w].depth - 1) \in dirs
    PROVE  /\ worker'[w].pc = "making" => SubSeq(Dir(w), 1, worker'[w].depth - 1) \in dirs'
           /\ worker'[w].pc = "create" => Dir(w) \in dirs'
           /\ worker'[w].pc # "failed"
<1>1. layout \in Layouts BY DEF DirsInv, TypeOK
<1>2. Dir(w) \in Paths /\ Len(Dir(w)) \in Nat BY <1>1, LayoutShape
<1>3. worker[w].pc = "making" BY DEF Makes
<1>4. PICK n \in 1 .. Len(Dir(w)) : n = worker[w].depth BY <1>3, NextDir
<1>5. /\ n + 1 \in 1 .. Len(Dir(w)) + 1 /\ (n + 1) - 1 = n
      /\ Front(SubSeq(Dir(w), 1, n)) = SubSeq(Dir(w), 1, n - 1)
  BY <1>2, <1>3, <1>4, NextDir
<1>6. GoesOn(w, n + 1) /\ SubSeq(Dir(w), 1, n) \in dirs' BY <1>4, <1>5 DEF Makes, Mkdir
<1>7. worker'[w] = [pc |-> IF n + 1 > Len(Dir(w)) THEN "create" ELSE "making", depth |-> n + 1]
  BY <1>5, <1>6, GoesOnShape
<1>8. n + 1 > Len(Dir(w)) => n = Len(Dir(w)) BY <1>2
<1>9. SubSeq(Dir(w), 1, Len(Dir(w))) = Dir(w) BY <1>2, SubSeqFull DEF Paths
<1>10. CASE n + 1 > Len(Dir(w))
  <2>1. worker'[w].pc = "create" BY <1>7, <1>10
  <2>2. Dir(w) \in dirs' BY <1>6, <1>8, <1>9, <1>10
  <2> QED BY <2>1, <2>2
<1>11. CASE ~ (n + 1 > Len(Dir(w)))
  <2>1. worker'[w].pc = "making" /\ worker'[w].depth = n + 1 BY <1>7, <1>11
  <2> QED BY <1>5, <1>6, <2>1
<1> QED BY <1>10, <1>11

LEMMA MadeStays ==
    ASSUME AgeInv, Next
    PROVE  PathIsMade' /\ FailsOnlyIfExposed'
<1>t. DirsInv /\ layout \in Layouts /\ layout' = layout
  BY LayoutFixed DEF AgeInv, DirsInv, TypeOK
<1> SUFFICES ASSUME NEW w \in Workers, Apart(w), w \notin exposed'
             PROVE  /\ worker'[w].pc = "making" => SubSeq(Dir(w), 1, worker'[w].depth - 1) \in dirs'
                    /\ worker'[w].pc = "create" => Dir(w) \in dirs'
                    /\ worker'[w].pc # "failed"
  <2>3. \A v : (Apart(v)' <=> Apart(v)) /\ Dir(v)' = Dir(v) BY <1>t, SameLayout
  <2> QED BY <2>3 DEF PathIsMade, FailsOnlyIfExposed
<1>1. CASE Starts(w) BY <1>1, <1>t, StartsAtDeepest
<1>2. CASE Makes(w)
  <2>1. w \notin exposed /\ worker[w].pc = "making" BY <1>2 DEF Makes
  <2>2. SubSeq(Dir(w), 1, worker[w].depth - 1) \in dirs BY <2>1 DEF AgeInv, PathIsMade
  <2> QED BY <1>2, <1>t, <2>2, MakesTheNext
<1>3. CASE Creates(w)
  <2>1. w \notin exposed /\ worker[w].pc = "create" BY <1>3 DEF Creates
  <2>2. Dir(w) \in dirs BY <2>1 DEF AgeInv, PathIsMade
  <2>3. worker'[w].pc = "done"
    BY <1>3, <1>t, <2>2 DEF Creates, Stops, Goes, DirsInv, TypeOK
  <2> QED BY <2>3
<1>4. CASE worker'[w].pc \in {"idle", "missing", "cleaned"} BY <1>4
<1>5. CASE worker'[w] = worker[w] /\ w \notin exposed
  <2>1. worker[w].pc # "failed" BY <1>5 DEF AgeInv, FailsOnlyIfExposed
  <2>2. CASE worker[w].pc = "making"
    <3>1. PICK n \in 0 .. Len(Dir(w)) : n = worker[w].depth - 1
      <4>1. Len(Dir(w)) \in Nat /\ worker[w].depth \in 1 .. Len(Dir(w)) BY <1>t, <2>2, NextDir
      <4>2. worker[w].depth - 1 \in 0 .. Len(Dir(w)) BY <4>1
      <4> QED BY <4>2
    <3>2. SubSeq(Dir(w), 1, n) \in OnPath(w) BY <1>t, DirOnPath
    <3>3. SubSeq(Dir(w), 1, n) \in dirs BY <1>5, <2>2, <3>1 DEF AgeInv, PathIsMade
    <3>4. SubSeq(Dir(w), 1, n) \in dirs'
      BY <1>5, <2>2, <3>2, <3>3, PathStays DEF AgeInv, Making
    <3> QED BY <1>5, <2>1, <2>2, <3>1, <3>4
  <2>3. CASE worker[w].pc = "create"
    <3>1. Dir(w) \in OnPath(w) BY <1>t, DirOnPath
    <3>2. Dir(w) \in dirs BY <1>5, <2>3 DEF AgeInv, PathIsMade
    <3>3. Dir(w) \in dirs' BY <1>5, <2>3, <3>1, <3>2, PathStays DEF AgeInv, Making
    <3> QED BY <1>5, <2>1, <2>3, <3>3
  <2> QED BY <1>5, <2>1, <2>2, <2>3
<1> QED BY <1>t, <1>1, <1>2, <1>3, <1>4, <1>5, WorkerSteps

LEMMA AgeInvariant == Spec => []AgeInv
<1>1. Init => AgeInv
  <2> SUFFICES ASSUME Init PROVE AgeInv OBVIOUS
  <2>1. \A w \in Workers : worker[w].pc = "idle" BY DEF Init, NoWorker
  <2> QED BY <2>1, InitDirs
       DEF AgeInv, PathIsYoung, PathIsMade, SweepIsAway, FailsOnlyIfExposed, Making
<1>2. AgeInv /\ [Next]_vars => AgeInv'
  <2> SUFFICES ASSUME AgeInv, [Next]_vars PROVE AgeInv' OBVIOUS
  <2>1. DirsInv' BY StepDirs DEF AgeInv
  <2>2. CASE Next BY <2>1, <2>2, YoungStays, AwayStays, MadeStays DEF AgeInv
  <2>3. CASE UNCHANGED vars
    <3>1. layout' = layout BY <2>3 DEF vars
    <3>2. \A v : /\ Apart(v)' <=> Apart(v)
                 /\ Dir(v)' = Dir(v) /\ OnPath(v)' = OnPath(v) /\ OwnPath(v)' = OwnPath(v)
      BY <3>1, SameLayout
    <3>3. UNCHANGED <<worker, exposed, dirs, old, sweep>> BY <2>3 DEF vars
    <3>4. \A v : Making(v)' <=> Making(v) BY <3>3 DEF Making
    <3>5. PathIsMade' /\ FailsOnlyIfExposed'
      BY <3>2, <3>3 DEF AgeInv, PathIsMade, FailsOnlyIfExposed
    <3>6. PathIsYoung' /\ SweepIsAway'
      BY <3>2, <3>3, <3>4 DEF AgeInv, PathIsYoung, SweepIsAway
    <3> QED BY <2>1, <3>5, <3>6 DEF AgeInv
  <2> QED BY <2>2, <2>3
<1> QED BY <1>1, <1>2, PTL DEF Spec

\* The age limit of the sweep protects what a download makes: one that shares no directory
\* with another release fails for want of one only if a directory it found in place was old,
\* or grew old under it, or was found old by the sweep before, or if a user or the wipe of
\* its own release took one away, however many downloads, imports, removals and crashes
\* there are beside it (sweep.go:101-117, CLEANUP_SWEEP_MIN_AGE).
THEOREM AgeLimitProtects == Spec => []FailsOnlyIfExposed
<1>1. AgeInv => FailsOnlyIfExposed BY DEF AgeInv
<1> QED BY <1>1, AgeInvariant, PTL

=============================================================================
