-------------------------- MODULE ImportCheckProofs --------------------------
(***************************************************************************)
(* Theorems about ImportCheck, for any number of apps, any page size, any  *)
(* length of the histories and any releases.                               *)
(***************************************************************************)
EXTENDS ImportCheck, SequenceTheorems, TLAPS

-----------------------------------------------------------------------------
(* What the operators that write the state keep of its type *)

LEMMA SetUp ==
    ASSUME NEW a \in Nat \ {0}, Asks(a)
    PROVE  /\ check' \in [pc : PCs, app : Nat, page : Nat, inspected : Nat]
           /\ check'.pc \in {"walking", "confirmed", "cleaned"} => check'.app \in Apps
           /\ returned' \in {"nothing", "not_imported"}
BY NumAppsAssumption DEF Asks, Waiting, PCs, Apps

LEMMA ReceivedType ==
    ASSUME TypeOK, NEW a \in Apps, NEW p \in Nat
    PROVE  Received(a, p) \in Nat
<1>1. Len(history[a]) \in Nat /\ p * PageSize \in Nat /\ PageSize \in Nat
  BY PageSizeAssumption DEF TypeOK
<1> HIDE DEF TypeOK
<1> DEFINE offset == p * PageSize
<1>2. offset \in Nat BY <1>1
<1>3. Received(a, p) = IF Len(history[a]) <= offset THEN 0
                       ELSE IF Len(history[a]) <= offset + PageSize THEN Len(history[a]) - offset
                       ELSE PageSize
  BY DEF Received
<1> HIDE DEF offset
<1> QED BY <1>1, <1>2, <1>3

\* A record put in front moves every other one on by one.
LEMMA InFront ==
    ASSUME NEW S, NEW s \in Seq(S), NEW r \in S
    PROVE  /\ << r >> \o s \in Seq(S)
           /\ Len(<< r >> \o s) = Len(s) + 1
           /\ (<< r >> \o s)[1] = r
           /\ \A k \in 1 .. Len(s) : (<< r >> \o s)[k + 1] = s[k]
<1>1. << r >> \in Seq(S) /\ Len(<< r >>) = 1 OBVIOUS
<1> QED BY <1>1, ConcatProperties

\* Leaving a record out leaves the others.
LEMMA LeftOut ==
    ASSUME NEW S, NEW s \in Seq(S), NEW k \in 1 .. Len(s)
    PROVE  LET t == SubSeq(s, 1, k - 1) \o SubSeq(s, k + 1, Len(s)) IN
           /\ t \in Seq(S)
           /\ \A i \in DOMAIN t : \E j \in DOMAIN s : t[i] = s[j]
<1> DEFINE before == SubSeq(s, 1, k - 1)
           after == SubSeq(s, k + 1, Len(s))
<1>1. Len(s) \in Nat /\ DOMAIN s = 1 .. Len(s) /\ k \in Nat BY LenProperties
<1>2. \A i \in 1 .. Len(s) : s[i] \in S BY ElementOfSeq
<1>3. /\ before \in Seq(S) /\ Len(before) = k - 1
      /\ \A i \in 1 .. k - 1 : before[i] = s[i]
  BY <1>1, <1>2, SubSeqProperties
<1>4. /\ after \in Seq(S) /\ Len(after) = Len(s) - k
      /\ \A i \in 1 .. Len(s) - k : after[i] = s[i + k]
  <2>1. k + 1 \in Int /\ Len(s) \in Int /\ \A i \in k + 1 .. Len(s) : s[i] \in S
    BY <1>1, <1>2
  <2>2. /\ after \in Seq(S)
        /\ Len(after) = IF k + 1 <= Len(s) THEN Len(s) - (k + 1) + 1 ELSE 0
        /\ \A i \in 1 .. Len(s) - (k + 1) + 1 : after[i] = s[(k + 1) + i - 1]
    BY <2>1, SubSeqProperties
  <2> HIDE DEF after
  <2>3. k <= Len(s) /\ Len(s) - (k + 1) + 1 = Len(s) - k BY <1>1
  <2>4. \A i \in 1 .. Len(s) - k : (k + 1) + i - 1 = i + k BY <1>1
  <2>5. Len(after) = Len(s) - k
    <3>1. CASE k + 1 <= Len(s) BY <2>2, <2>3, <3>1
    <3>2. CASE ~(k + 1 <= Len(s))
      <4>0. \A m, n \in Nat : m <= n /\ ~(m + 1 <= n) => n - m = 0 OBVIOUS
      <4>1. Len(s) - k = 0 BY <1>1, <2>3, <3>2, <4>0
      <4> QED BY <2>2, <3>2, <4>1
    <3> QED BY <3>1, <3>2
  <2>6. ASSUME NEW i \in 1 .. Len(s) - k PROVE after[i] = s[i + k]
    <3>1. after[i] = s[(k + 1) + i - 1] BY <2>2, <2>3
    <3>2. (k + 1) + i - 1 = i + k BY <2>4
    <3> QED BY <3>1, <3>2
  <2> QED BY <2>2, <2>5, <2>6
<1> HIDE DEF before, after
<1> DEFINE t == before \o after
<1>5. /\ t \in Seq(S) /\ Len(t) = Len(before) + Len(after)
      /\ \A i \in 1 .. Len(t) : t[i] = IF i <= Len(before) THEN before[i]
                                                         ELSE after[i - Len(before)]
  <2>1. /\ t \in Seq(S) /\ Len(t) = Len(before) + Len(after)
        /\ \A i \in 1 .. Len(before) + Len(after) :
              t[i] = IF i <= Len(before) THEN before[i] ELSE after[i - Len(before)]
    BY <1>3, <1>4, ConcatProperties
  <2> HIDE DEF t
  <2> QED BY <2>1
<1> HIDE DEF t
<1>6. ASSUME NEW i \in DOMAIN t PROVE \E j \in DOMAIN s : t[i] = s[j]
  <2>1. i \in 1 .. Len(s) - 1 /\ i \in 1 .. Len(t)
    BY <1>1, <1>3, <1>4, <1>5, LenProperties
  <2>2. CASE i <= k - 1
    <3>1. t[i] = s[i] BY <1>3, <1>5, <2>1, <2>2
    <3> QED BY <1>1, <2>1, <3>1
  <2>3. CASE ~(i <= k - 1)
    <3>1. i - (k - 1) \in 1 .. Len(s) - k BY <1>1, <2>1, <2>3
    <3>2. t[i] = after[i - (k - 1)] BY <1>3, <1>5, <2>1, <2>3
    <3>3. (i - (k - 1)) + k = i + 1 /\ i + 1 \in 1 .. Len(s) BY <1>1, <2>1
    <3>4. t[i] = s[i + 1] BY <1>4, <3>1, <3>2, <3>3
    <3> QED BY <1>1, <3>3, <3>4
  <2> QED BY <2>2, <2>3
<1> QED BY <1>5, <1>6 DEF t, before, after

LEMMA InitType == Init => TypeOK
<1> SUFFICES ASSUME Init PROVE TypeOK OBVIOUS
<1>1. << >> \in Seq(Records) OBVIOUS
<1> QED BY <1>1 DEF Init, TypeOK, Waiting, PCs

LEMMA NextType == TypeOK /\ [Next]_vars => TypeOK'
<1> SUFFICES ASSUME TypeOK, [Next]_vars PROVE TypeOK' OBVIOUS
<1>1. CASE Tick
  <2>1. Asks(1) /\ UNCHANGED <<history, imported, disk, reliable>> /\ knew' \subseteq Apps
    BY <1>1 DEF Tick
  <2> QED BY <2>1, SetUp DEF TypeOK
<1>2. ASSUME NEW a \in Apps, Answers(a, check.page) PROVE TypeOK'
  <2> DEFINE p == check.page
             n == check.inspected + Received(a, p)
  <2>1. p \in Nat /\ check.inspected \in Nat /\ a \in Nat \ {0} BY DEF TypeOK, Apps
  <2>2. n \in Nat
    <3>1. Received(a, p) \in Nat BY <2>1, ReceivedType
    <3> QED BY <2>1, <3>1
  <2>3. /\ check.pc = "walking" /\ check.app = a
        /\ \/ check' = [check EXCEPT !.pc = "confirmed"] /\ UNCHANGED returned
           \/ check' = [check EXCEPT !.page = p + 1, !.inspected = n] /\ UNCHANGED returned
           \/ Asks(a + 1)
        /\ UNCHANGED <<history, imported, disk, knew, reliable>>
    BY <1>2 DEF Answers
  <2>0. check \in [pc : PCs, app : Nat, page : Nat, inspected : Nat] BY DEF TypeOK
  <2>4. CASE Asks(a + 1)
    <3>1. a + 1 \in Nat \ {0} BY <2>1
    <3> QED BY <2>3, <2>4, <3>1, SetUp DEF TypeOK
  <2> HIDE DEF n
  <2>5. CASE \/ check' = [check EXCEPT !.pc = "confirmed"] /\ UNCHANGED returned
             \/ check' = [check EXCEPT !.page = p + 1, !.inspected = n] /\ UNCHANGED returned
    <3>1. check' \in [pc : PCs, app : Nat, page : Nat, inspected : Nat] /\ check'.app \in Apps
      <4>1. CASE check' = [check EXCEPT !.pc = "confirmed"] BY <2>0, <2>3, <4>1 DEF PCs
      <4>2. CASE check' = [check EXCEPT !.page = p + 1, !.inspected = n]
        <5>1. p + 1 \in Nat BY <2>1
        <5> QED BY <2>0, <2>2, <2>3, <4>2, <5>1
      <4> QED BY <2>5, <4>1, <4>2
    <3>2. UNCHANGED returned BY <2>5
    <3> QED BY <2>3, <3>1, <3>2 DEF TypeOK
  <2> QED BY <2>3, <2>4, <2>5
<1>3. CASE Fails BY <1>3 DEF TypeOK, Fails, Waiting, PCs
<1>4. CASE Removes BY <1>4 DEF TypeOK, Removes, PCs
<1>5. CASE RemoveFails BY <1>5 DEF TypeOK, RemoveFails, Waiting, PCs
<1>6. CASE Announces BY <1>6 DEF TypeOK, Announces, Waiting, PCs
<1>7. ASSUME NEW a \in Apps, NEW r \in Records, ArrRecords(a, r) PROVE TypeOK'
  <2>1. << r >> \o history[a] \in Seq(Records) BY InFront DEF TypeOK
  <2>2. history' \in [Apps -> Seq(Records)] BY <1>7, <2>1 DEF TypeOK, ArrRecords
  <2>3. imported' \subseteq Media BY <1>7 DEF TypeOK, ArrRecords
  <2> QED BY <1>7, <2>2, <2>3 DEF TypeOK, ArrRecords
<1>8. ASSUME NEW a \in Apps, NEW k \in DOMAIN history[a], ArrForgets(a, k) PROVE TypeOK'
  <2>1. history[a] \in Seq(Records) /\ k \in 1 .. Len(history[a])
    BY LenProperties DEF TypeOK
  <2>2. SubSeq(history[a], 1, k - 1) \o SubSeq(history[a], k + 1, Len(history[a])) \in Seq(Records)
    BY <2>1, LeftOut
  <2>3. history' \in [Apps -> Seq(Records)] BY <1>8, <2>2 DEF TypeOK, ArrForgets
  <2> QED BY <1>8, <2>3 DEF TypeOK, ArrForgets
<1>9. CASE UNCHANGED vars BY <1>9 DEF TypeOK, vars
<1> QED BY <1>1, <1>2, <1>3, <1>4, <1>5, <1>6, <1>7, <1>8, <1>9 DEF Next, Watcher, Arr

\* Every reachable state is well typed: the watcher never asks an app that is
\* not configured (downloader.go:456-480).
THEOREM TypeCorrect == Spec => []TypeOK
<1> QED BY InitType, NextType, PTL DEF Spec

-----------------------------------------------------------------------------
(***************************************************************************)
(* Why a walk overlooks nothing of an app that keeps its records. A record  *)
(* only ever moves on to higher positions. So one that was there when the  *)
(* check began, and that is not on the pages read so far, is beyond them;  *)
(* and while there is one, the records inspected are fewer than the total. *)
(***************************************************************************)

Beyond(a, n) ==
    \E k \in DOMAIN history[a] : n < k /\ RecordMatchesRelease(history[a][k])

WalkInv ==
    /\ \A a \in knew : Beyond(a, 0)
    /\ check.pc = "walking" =>
          /\ check.inspected = check.page * PageSize
          /\ \A a \in knew : check.app <= a
          /\ check.app \in knew => Beyond(check.app, check.inspected)
    /\ NoImportOverlooked

LEMMA InitWalk == Init => WalkInv
BY DEF Init, WalkInv, NoImportOverlooked, Waiting

\* The setup of a walk: what is due from the apps that are still to be asked.
LEMMA AsksKeeps ==
    ASSUME NEW a \in Nat \ {0}, Asks(a), knew' \subseteq Apps, \A b \in knew' : a <= b,
           \A b \in knew' : Beyond(b, 0)', PageSize \in Nat
    PROVE  WalkInv'
<1>1. CASE a <= NumApps
  <2>1. check' = [pc |-> "walking", app |-> a, page |-> 0, inspected |-> 0] /\ returned' = "nothing"
    BY <1>1 DEF Asks
  <2>2. 0 = 0 * PageSize OBVIOUS
  <2> QED BY <2>1, <2>2 DEF WalkInv, NoImportOverlooked
<1>2. CASE ~(a <= NumApps)
  <2>1. knew' = {} BY <1>2, NumAppsAssumption DEF Apps
  <2> QED BY <1>2, <2>1 DEF Asks, WalkInv, NoImportOverlooked, Waiting
<1> QED BY <1>1, <1>2

\* One page: what is due is on it, or beyond it and then there are more records.
LEMMA OnePage ==
    ASSUME TypeOK, NEW a \in Apps, NEW p \in Nat, Beyond(a, p * PageSize),
           ~ \E k \in OnPage(a, p) : RecordMatchesRelease(history[a][k])
    PROVE  /\ Beyond(a, p * PageSize + PageSize)
           /\ Received(a, p) = PageSize
           /\ More(a, p * PageSize + PageSize)
<1> DEFINE offset == p * PageSize
<1>1. offset \in Nat /\ PageSize \in Nat /\ history[a] \in Seq(Records)
  BY PageSizeAssumption DEF TypeOK
<1>2. PICK k \in DOMAIN history[a] : offset < k /\ RecordMatchesRelease(history[a][k])
  BY DEF Beyond
<1>3. k \in Nat /\ k <= Len(history[a]) /\ Len(history[a]) \in Nat
  BY <1>1, <1>2, LenProperties
<1>4. ~(k <= offset + PageSize) BY <1>2 DEF OnPage
<1> HIDE DEF offset
<1>5. offset + PageSize < k /\ Len(history[a]) > offset + PageSize BY <1>1, <1>3, <1>4
<1>6. Beyond(a, offset + PageSize) BY <1>2, <1>5 DEF Beyond
<1>7. Received(a, p) = PageSize
  <2>1. ~(Len(history[a]) <= offset) /\ ~(Len(history[a]) <= offset + PageSize)
    BY <1>1, <1>3, <1>5
  <2> QED BY <2>1 DEF Received, offset
<1> QED BY <1>5, <1>6, <1>7 DEF More, offset

LEMMA AnswersWalk ==
    ASSUME TypeOK, WalkInv, NEW a \in Apps, Answers(a, check.page)
    PROVE  WalkInv'
<1> DEFINE p == check.page
           n == check.inspected + Received(a, p)
           found == \E k \in OnPage(a, p) : RecordMatchesRelease(history[a][k])
<1>1. /\ check.pc = "walking" /\ check.app = a
      /\ UNCHANGED <<history, imported, disk, knew>>
      /\ check.inspected = p * PageSize
      /\ p \in Nat /\ PageSize \in Nat /\ check.inspected \in Nat
      /\ check \in [pc : PCs, app : Nat, page : Nat, inspected : Nat]
  BY PageSizeAssumption DEF Answers, WalkInv, TypeOK
<1>2. /\ \A b \in knew : Beyond(b, 0)'
      /\ \A b \in knew : a <= b
      /\ a \in knew => Beyond(a, p * PageSize)
  <2>1. \A b : Beyond(b, 0) <=> Beyond(b, 0)' BY <1>1 DEF Beyond
  <2> QED BY <1>1, <2>1 DEF WalkInv
<1>3. CASE found /\ check' = [check EXCEPT !.pc = "confirmed"] /\ UNCHANGED returned
  <2>1. check'.pc = "confirmed" BY <1>1, <1>3
  <2> QED BY <1>1, <1>2, <1>3, <2>1 DEF WalkInv, NoImportOverlooked
<1>4. CASE /\ ~found /\ More(a, n)
           /\ check' = [check EXCEPT !.page = p + 1, !.inspected = n]
           /\ UNCHANGED returned
  <2>1. check'.pc = "walking" /\ check'.app = a /\ check'.page = p + 1 /\ check'.inspected = n
    BY <1>1, <1>4
  <2>2. (p + 1) * PageSize = p * PageSize + PageSize BY <1>1
  <2>3. Received(a, p) = PageSize
    <3> DEFINE offset == p * PageSize
    <3>1. offset \in Nat /\ Len(history[a]) \in Nat /\ PageSize \in Nat BY <1>1 DEF TypeOK
    <3>2. Len(history[a]) > offset + Received(a, p) BY <1>1, <1>4 DEF More
    <3>3. Received(a, p) = IF Len(history[a]) <= offset THEN 0
                           ELSE IF Len(history[a]) <= offset + PageSize
                                THEN Len(history[a]) - offset
                           ELSE PageSize
      BY DEF Received
    <3> HIDE DEF offset
    <3> QED BY <3>1, <3>2, <3>3
  <2>4. check'.inspected = check'.page * PageSize BY <1>1, <2>1, <2>2, <2>3
  <2>5. a \in knew => Beyond(a, p * PageSize + PageSize) BY <1>1, <1>2, <1>4, OnePage
  <2>6. a \in knew' => Beyond(a, check.inspected)'
    <3>1. check'.inspected = p * PageSize + PageSize BY <1>1, <2>1, <2>3
    <3> QED BY <1>1, <2>5, <3>1 DEF Beyond
  <2> QED BY <1>1, <1>2, <1>4, <2>1, <2>4, <2>6 DEF WalkInv, NoImportOverlooked
<1>5. CASE ~found /\ ~More(a, n) /\ Asks(a + 1)
  <2>1. a \notin knew
    <3> SUFFICES ASSUME a \in knew PROVE FALSE OBVIOUS
    <3>1. Received(a, p) = PageSize /\ More(a, p * PageSize + PageSize)
      BY <1>1, <1>2, <1>5, OnePage
    <3> QED BY <1>1, <1>5, <3>1
  <2>2. \A b \in knew' : a + 1 <= b BY <1>1, <1>2, <2>1 DEF TypeOK, Apps
  <2>3. a + 1 \in Nat \ {0} /\ knew' \subseteq Apps BY <1>1 DEF TypeOK, Apps
  <2> QED BY <1>1, <1>2, <1>5, <2>2, <2>3, AsksKeeps
<1> QED BY <1>3, <1>4, <1>5 DEF Answers

LEMMA RecordsWalk ==
    ASSUME TypeOK, WalkInv, NEW a \in Apps, NEW r \in Records, ArrRecords(a, r)
    PROVE  WalkInv'
<1>1. /\ history' = [history EXCEPT ![a] = << r >> \o @]
      /\ UNCHANGED <<disk, check, returned, knew>>
      /\ knew \subseteq Apps
  BY DEF ArrRecords, TypeOK
<1>2. ASSUME NEW b \in Apps, NEW n \in Nat, Beyond(b, n) PROVE Beyond(b, n)'
  <2>1. PICK k \in DOMAIN history[b] : n < k /\ RecordMatchesRelease(history[b][k])
    BY <1>2 DEF Beyond
  <2>2. history[b] \in Seq(Records) /\ k \in 1 .. Len(history[b]) BY LenProperties DEF TypeOK
  <2>3. CASE b # a
    <3>1. history'[b] = history[b] BY <1>1, <2>3 DEF TypeOK
    <3> QED BY <2>1, <3>1 DEF Beyond
  <2>4. CASE b = a
    <3>1. history'[a] = << r >> \o history[a] BY <1>1 DEF TypeOK
    <3>2. /\ history'[a] \in Seq(Records)
          /\ Len(history'[a]) = Len(history[a]) + 1
          /\ history'[a][k + 1] = history[a][k]
      BY <2>2, <2>4, <3>1, InFront
    <3>3. k + 1 \in DOMAIN history'[a] /\ n < k + 1 BY <2>1, <2>2, <2>4, <3>2, LenProperties
    <3> QED BY <2>1, <2>4, <3>2, <3>3 DEF Beyond
  <2> QED BY <2>3, <2>4
<1>3. check.pc = "walking" => check.app \in Apps /\ check.inspected \in Nat BY DEF TypeOK
<1> QED BY <1>1, <1>2, <1>3 DEF WalkInv, NoImportOverlooked

\* An app that drops a record shifts what it has kept: nothing is due from it any more.
LEMMA ForgetsWalk ==
    ASSUME TypeOK, WalkInv, NEW a \in Apps, NEW j \in DOMAIN history[a], ArrForgets(a, j)
    PROVE  WalkInv'
<1>1. /\ history' = [history EXCEPT ![a] = SubSeq(@, 1, j - 1) \o SubSeq(@, j + 1, Len(@))]
      /\ knew' = knew \ {a} /\ knew \subseteq Apps
      /\ UNCHANGED <<disk, check, returned>>
  BY DEF ArrForgets, TypeOK
<1>2. ASSUME NEW b \in knew', NEW n PROVE Beyond(b, n)' <=> Beyond(b, n)
  <2>1. history'[b] = history[b] BY <1>1 DEF TypeOK
  <2> QED BY <2>1 DEF Beyond
<1> QED BY <1>1, <1>2 DEF WalkInv, NoImportOverlooked

LEMMA NextWalk == TypeOK /\ WalkInv /\ [Next]_vars => WalkInv'
<1> SUFFICES ASSUME TypeOK, WalkInv, [Next]_vars PROVE WalkInv' OBVIOUS
<1>1. CASE Tick
  <2>1. Asks(1) /\ knew' = {a \in Apps : Recorded(a)} /\ UNCHANGED history BY <1>1 DEF Tick
  <2>2. \A b \in knew' : Beyond(b, 0)'
    <3>1. \A b \in Apps : \A k \in DOMAIN history[b] : 0 < k BY LenProperties DEF TypeOK
    <3> QED BY <2>1, <3>1 DEF Recorded, Beyond
  <2>3. \A b \in knew' : 1 <= b BY <2>1 DEF Apps
  <2> QED BY <2>1, <2>2, <2>3, AsksKeeps, PageSizeAssumption
<1>2. ASSUME NEW a \in Apps, Answers(a, check.page) PROVE WalkInv' BY <1>2, AnswersWalk
<1>3. CASE Fails BY <1>3 DEF Fails, WalkInv, NoImportOverlooked, Waiting, Beyond
<1>4. CASE Removes
  <2>1. check'.pc = "cleaned" BY <1>4 DEF Removes, TypeOK
  <2> QED BY <1>4, <2>1 DEF Removes, WalkInv, NoImportOverlooked, Beyond
<1>5. CASE RemoveFails BY <1>5 DEF RemoveFails, WalkInv, NoImportOverlooked, Waiting, Beyond
<1>6. CASE Announces BY <1>6 DEF Announces, WalkInv, NoImportOverlooked, Waiting, Beyond
<1>7. ASSUME NEW a \in Apps, NEW r \in Records, ArrRecords(a, r) PROVE WalkInv'
  BY <1>7, RecordsWalk
<1>8. ASSUME NEW a \in Apps, NEW k \in DOMAIN history[a], ArrForgets(a, k) PROVE WalkInv'
  BY <1>8, ForgetsWalk
<1>9. CASE UNCHANGED vars BY <1>9 DEF vars, WalkInv, NoImportOverlooked, Beyond
<1> QED BY <1>1, <1>2, <1>3, <1>4, <1>5, <1>6, <1>7, <1>8, <1>9 DEF Next, Watcher, Arr

\* A check that ends with "not imported" has overlooked no record of an app that
\* keeps its records meanwhile, however the histories grow while their pages are
\* read (arr.go:77-122, downloader.go:456-480).
THEOREM NothingOverlooked == Spec => []NoImportOverlooked
<1>1. TypeOK /\ WalkInv /\ [Next]_vars => WalkInv' BY NextWalk
<1>2. WalkInv => NoImportOverlooked BY DEF WalkInv
<1> QED BY <1>1, <1>2, InitWalk, TypeCorrect, PTL DEF Spec

-----------------------------------------------------------------------------
(* What a record of the release stands for: a media file that was imported. *)

RecordsAreTrue ==
    \A a \in Apps : \A k \in DOMAIN history[a] :
        RecordMatchesRelease(history[a][k]) => history[a][k].path \in imported

TruthInv == RecordsAreTrue /\ ConfirmedIsImported

LEMMA InitTruth == Init => TruthInv
<1> SUFFICES ASSUME Init PROVE TruthInv OBVIOUS
<1>1. \A a \in Apps : DOMAIN history[a] = {} BY DEF Init
<1> QED BY <1>1 DEF Init, TruthInv, RecordsAreTrue, ConfirmedIsImported, Waiting

LEMMA RecordsTruth ==
    ASSUME TypeOK, TruthInv, NEW a \in Apps, NEW r \in Records, ArrRecords(a, r),
           \A path \in Elsewhere : ~PathWithinRelease(path, Release)
    PROVE  TruthInv'
<1>1. /\ history' = [history EXCEPT ![a] = << r >> \o @]
      /\ imported' = IF r.event = "imported" THEN imported \cup ({r.path} \cap Media) ELSE imported
      /\ UNCHANGED <<disk, check, returned, knew>>
  BY DEF ArrRecords
<1>2. imported \subseteq imported' BY <1>1
<1>3. RecordMatchesRelease(r) => r.path \in imported'
  BY <1>1 DEF RecordMatchesRelease, Records
<1>4. ASSUME NEW b \in Apps, NEW k \in DOMAIN history'[b], RecordMatchesRelease(history'[b][k])
      PROVE  history'[b][k].path \in imported'
  <2>1. history[b] \in Seq(Records) /\ history[a] \in Seq(Records) BY DEF TypeOK
  <2>2. CASE b # a
    <3>1. history'[b] = history[b] BY <1>1, <2>2 DEF TypeOK
    <3> QED BY <1>2, <1>4, <3>1 DEF TruthInv, RecordsAreTrue
  <2>3. CASE b = a
    <3>1. history'[a] = << r >> \o history[a] BY <1>1 DEF TypeOK
    <3>2. /\ history'[a] \in Seq(Records) /\ history'[a][1] = r
          /\ Len(history'[a]) = Len(history[a]) + 1
          /\ \A j \in 1 .. Len(history[a]) : history'[a][j + 1] = history[a][j]
      BY <2>1, <3>1, InFront
    <3>3. k \in 1 .. Len(history[a]) + 1 /\ Len(history[a]) \in Nat
      BY <1>4, <2>1, <2>3, <3>2, LenProperties
    <3>4. CASE k = 1 BY <1>3, <1>4, <2>3, <3>2, <3>4
    <3>5. CASE k # 1
      <4>1. k - 1 \in 1 .. Len(history[a]) /\ (k - 1) + 1 = k BY <3>3, <3>5
      <4>2. history'[a][k] = history[a][k - 1] BY <3>2, <4>1
      <4>3. k - 1 \in DOMAIN history[a] BY <2>1, <4>1, LenProperties
      <4> QED BY <1>2, <1>4, <2>3, <4>2, <4>3 DEF TruthInv, RecordsAreTrue
    <3> QED BY <3>4, <3>5
  <2> QED BY <2>2, <2>3
<1> QED BY <1>1, <1>2, <1>4 DEF TruthInv, RecordsAreTrue, ConfirmedIsImported

LEMMA ForgetsTruth ==
    ASSUME TypeOK, TruthInv, NEW a \in Apps, NEW k \in DOMAIN history[a], ArrForgets(a, k)
    PROVE  TruthInv'
<1> DEFINE t == SubSeq(history[a], 1, k - 1) \o SubSeq(history[a], k + 1, Len(history[a]))
<1>1. history' = [history EXCEPT ![a] = t] /\ UNCHANGED <<imported, disk, check, returned>>
  BY DEF ArrForgets
<1>2. history[a] \in Seq(Records) /\ k \in 1 .. Len(history[a]) BY LenProperties DEF TypeOK
<1>3. \A i \in DOMAIN t : \E j \in DOMAIN history[a] : t[i] = history[a][j] BY <1>2, LeftOut
<1> HIDE DEF t
<1>4. \A b \in Apps : history'[b] = IF b = a THEN t ELSE history[b] BY <1>1 DEF TypeOK
<1>5. RecordsAreTrue' BY <1>1, <1>3, <1>4 DEF TruthInv, RecordsAreTrue
<1> QED BY <1>1, <1>5 DEF TruthInv, ConfirmedIsImported

LEMMA NextTruth ==
    ASSUME TypeOK, TruthInv, [Next]_vars,
           \A path \in Elsewhere : ~PathWithinRelease(path, Release)
    PROVE  TruthInv'
<1> USE DEF TruthInv, ConfirmedIsImported
<1>1. CASE Tick BY <1>1 DEF Tick, Asks, RecordsAreTrue, Waiting
<1>2. ASSUME NEW a \in Apps, Answers(a, check.page) PROVE TruthInv'
  <2> DEFINE p == check.page
             found == \E k \in OnPage(a, p) : RecordMatchesRelease(history[a][k])
  <2>1. UNCHANGED <<history, imported>> BY <1>2 DEF Answers
  <2>2. RecordsAreTrue' BY <2>1 DEF RecordsAreTrue
  <2>3. CASE found
    <3>1. PICK k \in DOMAIN history[a] : RecordMatchesRelease(history[a][k])
      BY <2>3 DEF OnPage
    <3>2. imported # {} BY <3>1 DEF RecordsAreTrue
    <3> QED BY <2>1, <2>2, <3>2
  <2>4. CASE ~found
    <3>0. check.pc = "walking" /\ check \in [pc : PCs, app : Nat, page : Nat, inspected : Nat]
      BY <1>2 DEF Answers, TypeOK
    <3>1. check'.pc \in {"walking", "waiting"}
      <4>1. CASE Asks(a + 1) BY <4>1 DEF Asks, Waiting
      <4>2. CASE check' = [check EXCEPT !.page = p + 1,
                                        !.inspected = check.inspected + Received(a, p)]
        BY <3>0, <4>2
      <4> QED BY <1>2, <2>4, <4>1, <4>2 DEF Answers
    <3> QED BY <2>2, <3>1
  <2> QED BY <2>3, <2>4
<1>3. CASE Fails BY <1>3 DEF Fails, RecordsAreTrue, Waiting
<1>4. CASE Removes BY <1>4 DEF Removes, RecordsAreTrue
<1>5. CASE RemoveFails BY <1>5 DEF RemoveFails, RecordsAreTrue, Waiting
<1>6. CASE Announces BY <1>6 DEF Announces, RecordsAreTrue, Waiting
<1>7. ASSUME NEW a \in Apps, NEW r \in Records, ArrRecords(a, r) PROVE TruthInv'
  BY <1>7, RecordsTruth
<1>8. ASSUME NEW a \in Apps, NEW k \in DOMAIN history[a], ArrForgets(a, k) PROVE TruthInv'
  BY <1>8, ForgetsTruth
<1>9. CASE UNCHANGED vars BY <1>9 DEF vars, RecordsAreTrue
<1> QED BY <1>1, <1>2, <1>3, <1>4, <1>5, <1>6, <1>7, <1>8, <1>9 DEF Next, Watcher, Arr

\* When no other release lies within this one, what is taken for its import is one,
\* whatever the apps record, and drop, and when (arr.go:126-157).
THEOREM ConfirmationsAreTrue ==
    ASSUME \A path \in Elsewhere : ~PathWithinRelease(path, Release)
    PROVE  Spec => []ConfirmedIsImported
<1>1. TypeOK /\ TruthInv /\ [Next]_vars => TruthInv' BY NextTruth
<1>2. TruthInv => ConfirmedIsImported BY DEF TruthInv
<1> QED BY <1>1, <1>2, InitTruth, TypeCorrect, PTL DEF Spec

-----------------------------------------------------------------------------
(* The removal. Nothing comes back to the release once it is removed. *)

LEMMA NextRemoved == TypeOK /\ AnnouncedIsRemoved /\ [Next]_vars => AnnouncedIsRemoved'
<1> SUFFICES ASSUME TypeOK, AnnouncedIsRemoved, [Next]_vars PROVE AnnouncedIsRemoved' OBVIOUS
<1> USE DEF AnnouncedIsRemoved
<1>1. CASE Tick BY <1>1 DEF Tick, Asks, Waiting
<1>2. ASSUME NEW a \in Apps, Answers(a, check.page) PROVE AnnouncedIsRemoved'
  <2>1. check.pc = "walking" /\ check \in [pc : PCs, app : Nat, page : Nat, inspected : Nat]
    BY <1>2 DEF Answers, TypeOK
  <2>2. check'.pc \notin {"cleaned", "ended"}
    <3>1. CASE Asks(a + 1) BY <3>1 DEF Asks, Waiting
    <3>2. CASE check' = [check EXCEPT !.pc = "confirmed"] BY <2>1, <3>2
    <3>3. CASE check' = [check EXCEPT !.page = check.page + 1,
                                      !.inspected = check.inspected + Received(a, check.page)]
      BY <2>1, <3>3
    <3> QED BY <1>2, <3>1, <3>2, <3>3 DEF Answers
  <2> QED BY <2>2
<1>3. CASE Fails BY <1>3 DEF Fails, Waiting
<1>4. CASE Removes BY <1>4 DEF Removes
<1>5. CASE RemoveFails BY <1>5 DEF RemoveFails, Waiting
<1>6. CASE Announces BY <1>6 DEF Announces
<1>7. CASE Arr BY <1>7 DEF Arr, ArrRecords, ArrForgets
<1>8. CASE UNCHANGED vars BY <1>8 DEF vars
<1> QED BY <1>1, <1>2, <1>3, <1>4, <1>5, <1>6, <1>7, <1>8 DEF Next, Watcher

\* A transfer is announced only when its release is gone, whatever fails in between
\* (downloader.go:308-320, 502-504).
THEOREM AnnouncedOnlyRemoved == Spec => []AnnouncedIsRemoved
<1>1. Init => AnnouncedIsRemoved BY DEF Init, AnnouncedIsRemoved, Waiting
<1> QED BY <1>1, NextRemoved, TypeCorrect, PTL DEF Spec

=============================================================================
