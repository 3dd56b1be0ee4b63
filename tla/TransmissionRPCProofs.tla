----------------------- MODULE TransmissionRPCProofs ------------------------
(***************************************************************************)
(* Theorems about TransmissionRPC, for any number of torrents, transfers   *)
(* and concurrent calls and for every fault: what a hash goes on to name.  *)
(***************************************************************************)
EXTENDS TransmissionRPC, SequenceTheorems, WellFoundedInduction, TLAPS

-----------------------------------------------------------------------------
(* What RemoveAt leaves of a sequence *)

LEMMA RemoveAtIs ==
    ASSUME NEW S, NEW s \in Seq(S), NEW n \in 1..Len(s)
    PROVE  /\ RemoveAt(s, n) \in Seq(S) /\ Len(RemoveAt(s, n)) = Len(s) - 1
           /\ \A k \in 1..(Len(s) - 1) :
                 RemoveAt(s, n)[k] = s[IF k < n THEN k ELSE k + 1]
<1> DEFINE front == SubSeq(s, 1, n - 1)
           back == SubSeq(s, n + 1, Len(s))
<1>1. n \in Nat /\ 1 <= n /\ n <= Len(s) /\ Len(s) \in Nat
  OBVIOUS
<1>2. front \in Seq(S) /\ Len(front) = n - 1 /\ \A k \in 1..(n - 1) : front[k] = s[k]
  <2>1. \A k \in 1..(n - 1) : k \in 1..Len(s)
    BY <1>1
  <2> QED BY <1>1, <2>1, SubSeqProperties
<1>3. /\ back \in Seq(S) /\ Len(back) = Len(s) - n
      /\ \A k \in 1..(Len(s) - n) : back[k] = s[n + k]
  <2>1. \A k \in (n + 1)..Len(s) : k \in 1..Len(s)
    BY <1>1
  <2> QED BY <1>1, <2>1, SubSeqProperties
<1> DEFINE all == front \o back
<1>4. RemoveAt(s, n) = all
  BY DEF RemoveAt
<1> HIDE DEF front, back
<1>5. /\ all \in Seq(S) /\ Len(all) = Len(front) + Len(back)
      /\ \A k \in 1..(Len(front) + Len(back)) :
            all[k] = IF k <= Len(front) THEN front[k] ELSE back[k - Len(front)]
  BY <1>2, <1>3, ConcatProperties
<1> HIDE DEF all
<1>6. Len(all) = Len(s) - 1
  BY <1>1, <1>2, <1>3, <1>5
<1>7. ASSUME NEW k \in 1..(Len(s) - 1)
      PROVE  all[k] = s[IF k < n THEN k ELSE k + 1]
  <2>0. /\ k \in 1..(Len(front) + Len(back))
        /\ k <= Len(front) <=> k < n
        /\ k - Len(front) = k - (n - 1)
    BY <1>1, <1>2, <1>3
  <2>1. CASE k < n
    <3>1. all[k] = front[k]
      BY <1>5, <2>0, <2>1
    <3>2. front[k] = s[k]
      BY <1>1, <1>2, <2>1
    <3> QED BY <2>1, <3>1, <3>2
  <2>2. CASE k >= n
    <3>0. ~ (k <= Len(front))
      BY <1>1, <2>0, <2>2
    <3>1. all[k] = back[k - (n - 1)]
      BY <1>5, <2>0, <3>0
    <3>2. k - (n - 1) \in 1..(Len(s) - n) /\ n + (k - (n - 1)) = k + 1
      BY <1>1, <2>2
    <3>3. back[k - (n - 1)] = s[k + 1]
      BY <1>3, <3>2
    <3> QED BY <1>1, <2>2, <3>1, <3>3
  <2> QED BY <1>1, <2>1, <2>2
<1> QED BY <1>4, <1>5, <1>6, <1>7

-----------------------------------------------------------------------------
(* The table, seen as a function from hashes to rows *)

LEMMA RowIs ==
    ASSUME TypeOK, NEW h, NEW k \in DOMAIN rows, rows[k].hash = h
    PROVE  Has(h) /\ RowWith(h) = k /\ RowOf(h) = rows[k]
<1>1. \A j \in DOMAIN rows : rows[j].hash = h => j = k
  BY DEF TypeOK
<1>2. Has(h) /\ RowWith(h) = k
  BY <1>1 DEF Has, RowWith
<1> QED BY <1>2 DEF RowOf

LEMMA RowType ==
    ASSUME TypeOK, NEW h \in Hashes
    PROVE  /\ RowOf(h) \in Rows
           /\ RowOf(h).hash = h
           /\ ~ Has(h) => RowOf(h).id = None /\ RowOf(h).criteria = NoCriteria
<1>1. CASE Has(h)
  <2>1. RowWith(h) \in DOMAIN rows /\ rows[RowWith(h)].hash = h
    BY <1>1 DEF Has, RowWith
  <2>2. rows[RowWith(h)] \in Rows
    BY <2>1 DEF TypeOK
  <2> QED BY <1>1, <2>1, <2>2 DEF RowOf
<1>2. CASE ~ Has(h)
  BY <1>2 DEF RowOf, Rows, Criteria, NoCriteria
<1> QED BY <1>1, <1>2

\* What a table holds after a statement, from what its sequence is then.
LEMMA RowIsNow ==
    ASSUME NEW h, NEW k, k \in DOMAIN rows', rows'[k].hash = h,
           \A j \in DOMAIN rows' : rows'[j].hash = h => j = k
    PROVE  Has(h)' /\ RowOf(h)' = rows'[k]
<1>1. Has(h)'
  BY DEF Has
<1>2. RowWith(h)' = k
  BY DEF RowWith
<1> QED BY <1>1, <1>2 DEF RowOf

LEMMA RowIsGone ==
    ASSUME NEW h, \A j \in DOMAIN rows' : rows'[j].hash # h
    PROVE  ~ Has(h)' /\ RowOf(h)' = [hash |-> h, id |-> None, criteria |-> NoCriteria]
<1>1. ~ Has(h)'
  BY DEF Has
<1> QED BY <1>1 DEF RowOf

Keyed == \A j, k \in DOMAIN rows : rows[j].hash = rows[k].hash => j = k
SameRow(g) == (Has(g)' <=> Has(g)) /\ RowOf(g)' = RowOf(g)

\* A hash whose row is at most moved has the row it had.
LEMMA RowIsKept ==
    ASSUME TypeOK, Keyed', NEW g,
           \A k \in DOMAIN rows : rows[k].hash = g =>
               \E j \in DOMAIN rows' : rows'[j] = rows[k],
           \A j \in DOMAIN rows' : rows'[j].hash = g =>
               \E k \in DOMAIN rows : rows[k].hash = g
    PROVE  SameRow(g)
<1>1. CASE Has(g)
  <2>1. PICK k \in DOMAIN rows : rows[k].hash = g
    BY <1>1 DEF Has
  <2>2. PICK j \in DOMAIN rows' : rows'[j] = rows[k]
    BY <2>1
  <2>3. \A m \in DOMAIN rows' : rows'[m].hash = g => m = j
    BY <2>1, <2>2 DEF Keyed
  <2>4. Has(g)' /\ RowOf(g)' = rows'[j]
    BY <2>1, <2>2, <2>3, RowIsNow
  <2>5. RowOf(g) = rows[k]
    BY <2>1, RowIs
  <2> QED BY <1>1, <2>2, <2>4, <2>5 DEF SameRow
<1>2. CASE ~ Has(g)
  <2>1. \A j \in DOMAIN rows' : rows'[j].hash # g
    BY <1>2 DEF Has
  <2>2. ~ Has(g)' /\ RowOf(g)' = [hash |-> g, id |-> None, criteria |-> NoCriteria]
    BY <2>1, RowIsGone
  <2>3. RowOf(g) = [hash |-> g, id |-> None, criteria |-> NoCriteria]
    BY <1>2 DEF RowOf
  <2> QED BY <1>2, <2>2, <2>3 DEF SameRow
<1> QED BY <1>1, <1>2

\* An insertion or update of a hash's row changes no other.
LEMMA UpsertsOne ==
    ASSUME TypeOK, NEW h \in Hashes, NEW row \in Rows, row.hash = h, Upsert(h, row)
    PROVE  /\ rows' \in Seq(Rows)
           /\ Keyed'
           /\ Has(h)' /\ RowOf(h)' = row
           /\ \A g \in Hashes \ {h} : SameRow(g)
<1>0. rows \in Seq(Rows) /\ Keyed
  BY DEF TypeOK, Keyed
<1>1. CASE Has(h)
  <2> DEFINE n == RowWith(h)
  <2>1. n \in DOMAIN rows /\ rows[n].hash = h
    BY <1>1 DEF Has, RowWith
  <2>2. rows' = [rows EXCEPT ![n] = row]
    BY <1>1 DEF Upsert
  <2> HIDE DEF n
  <2>3. /\ rows' \in Seq(Rows) /\ DOMAIN rows' = DOMAIN rows /\ rows'[n] = row
        /\ \A k \in DOMAIN rows : k # n => rows'[k] = rows[k]
    BY <1>0, <2>1, <2>2
  <2>4. \A k \in DOMAIN rows : rows'[k].hash = rows[k].hash
    BY <2>1, <2>3
  <2>5. Keyed'
    BY <1>0, <2>3, <2>4 DEF Keyed
  <2>6. Has(h)' /\ RowOf(h)' = row
    <3>1. n \in DOMAIN rows' /\ rows'[n].hash = h
      BY <2>1, <2>3
    <3>2. \A j \in DOMAIN rows' : rows'[j].hash = h => j = n
      BY <2>5, <3>1 DEF Keyed
    <3> QED BY <2>3, <3>1, <3>2, RowIsNow
  <2>7. ASSUME NEW g \in Hashes \ {h} PROVE SameRow(g)
    <3>1. \A k \in DOMAIN rows : rows[k].hash = g => rows'[k] = rows[k]
      BY <2>1, <2>3, <2>7
    <3>2. \A j \in DOMAIN rows' : rows'[j].hash = g => rows[j].hash = g
      BY <2>3, <2>4
    <3> QED BY <2>3, <2>5, <3>1, <3>2, RowIsKept
  <2> QED BY <2>3, <2>5, <2>6, <2>7
<1>2. CASE ~ Has(h)
  <2> DEFINE n == Len(rows) + 1
  <2>1. /\ rows' = Append(rows, row) /\ rows' \in Seq(Rows)
        /\ DOMAIN rows' = DOMAIN rows \cup {n} /\ n \notin DOMAIN rows
        /\ rows'[n] = row /\ \A k \in DOMAIN rows : rows'[k] = rows[k]
    BY <1>0, <1>2 DEF Upsert
  <2>2. \A k \in DOMAIN rows : rows[k].hash # h
    BY <1>2 DEF Has
  <2> HIDE DEF n
  <2>5. Keyed'
    BY <1>0, <2>1, <2>2 DEF Keyed
  <2>6. Has(h)' /\ RowOf(h)' = row
    <3>1. n \in DOMAIN rows' /\ rows'[n].hash = h
      BY <2>1
    <3>2. \A j \in DOMAIN rows' : rows'[j].hash = h => j = n
      BY <2>5, <3>1 DEF Keyed
    <3> QED BY <2>1, <3>1, <3>2, RowIsNow
  <2>7. ASSUME NEW g \in Hashes \ {h} PROVE SameRow(g)
    <3>1. \A j \in DOMAIN rows' : rows'[j].hash = g => j \in DOMAIN rows /\ rows[j].hash = g
      BY <2>1, <2>7
    <3> QED BY <2>1, <2>5, <3>1, RowIsKept
  <2> QED BY <2>1, <2>5, <2>6, <2>7
<1> QED BY <1>1, <1>2

\* A deletion takes out the row of its hash and no other.
LEMMA DeletesOne ==
    ASSUME TypeOK, NEW h \in Hashes, DeleteTorrentSeedCriteria(h)
    PROVE  /\ rows' \in Seq(Rows)
           /\ Keyed'
           /\ ~ Has(h)' /\ RowOf(h)'.id = None /\ RowOf(h)'.criteria = NoCriteria
           /\ \A g \in Hashes \ {h} : SameRow(g)
<1>0. rows \in Seq(Rows) /\ Keyed
  BY DEF TypeOK, Keyed
<1>1. CASE Has(h)
  <2> DEFINE n == RowWith(h)
             At(k) == IF k < n THEN k ELSE k + 1
  <2>1. n \in DOMAIN rows /\ rows[n].hash = h
    BY <1>1 DEF Has, RowWith
  <2>2. rows' = RemoveAt(rows, n)
    BY <1>1 DEF DeleteTorrentSeedCriteria
  <2> HIDE DEF n
  <2>3. /\ rows' \in Seq(Rows) /\ Len(rows') = Len(rows) - 1
        /\ \A k \in 1..(Len(rows) - 1) : rows'[k] = rows[At(k)]
    <3>1. n \in 1..Len(rows)
      BY <1>0, <2>1
    <3>2. /\ RemoveAt(rows, n) \in Seq(Rows) /\ Len(RemoveAt(rows, n)) = Len(rows) - 1
          /\ \A k \in 1..(Len(rows) - 1) :
                RemoveAt(rows, n)[k] = rows[IF k < n THEN k ELSE k + 1]
      BY <1>0, <3>1, RemoveAtIs
    <3> QED BY <2>2, <3>2
  <2>4. /\ DOMAIN rows' = 1..(Len(rows) - 1)
        /\ \A k \in DOMAIN rows' : At(k) \in DOMAIN rows /\ At(k) # n
        /\ \A j, k \in DOMAIN rows' : At(j) = At(k) => j = k
        /\ \A m \in DOMAIN rows : m # n => \E k \in DOMAIN rows' : At(k) = m
    <3>1. n \in Nat /\ 1 <= n /\ n <= Len(rows) /\ Len(rows) \in Nat
          /\ DOMAIN rows = 1..Len(rows) /\ DOMAIN rows' = 1..(Len(rows) - 1)
      BY <1>0, <2>1, <2>3
    <3>2. ASSUME NEW m \in DOMAIN rows, m # n PROVE \E k \in DOMAIN rows' : At(k) = m
      <4>1. CASE m < n
        BY <3>1, <3>2, <4>1
      <4>2. CASE m > n
        <5>1. m - 1 \in DOMAIN rows' /\ At(m - 1) = m
          BY <3>1, <3>2, <4>2
        <5> QED BY <5>1
      <4> QED BY <3>1, <3>2, <4>1, <4>2
    <3> QED BY <3>1, <3>2
  <2>5. \A k \in DOMAIN rows' : rows'[k] = rows[At(k)]
    BY <2>3, <2>4
  <2> HIDE DEF At
  <2>6. Keyed'
    BY <1>0, <2>4, <2>5 DEF Keyed
  <2>7. \A k \in DOMAIN rows' : rows'[k].hash # h
    BY <1>0, <2>1, <2>4, <2>5 DEF Keyed
  <2>8. ~ Has(h)' /\ RowOf(h)' = [hash |-> h, id |-> None, criteria |-> NoCriteria]
    BY <2>7, RowIsGone
  <2>9. ASSUME NEW g \in Hashes \ {h} PROVE SameRow(g)
    <3>1. \A m \in DOMAIN rows : rows[m].hash = g =>
             \E k \in DOMAIN rows' : rows'[k] = rows[m]
      BY <2>1, <2>4, <2>5, <2>9
    <3>2. \A j \in DOMAIN rows' : rows'[j].hash = g =>
             \E k \in DOMAIN rows : rows[k].hash = g
      BY <2>4, <2>5
    <3> QED BY <2>6, <3>1, <3>2, RowIsKept
  <2> QED BY <2>3, <2>6, <2>8, <2>9
<1>2. CASE ~ Has(h)
  <2>1. rows' = rows
    BY <1>2 DEF DeleteTorrentSeedCriteria
  <2>2. ASSUME NEW g PROVE SameRow(g)
    BY <2>1 DEF SameRow, Has, RowOf, RowWith
  <2>3. ~ Has(h)' /\ RowOf(h)'.id = None /\ RowOf(h)'.criteria = NoCriteria
    BY <1>2, <2>2, RowType DEF SameRow
  <2> QED BY <1>0, <2>1, <2>2, <2>3 DEF Keyed
<1> QED BY <1>1, <1>2

-----------------------------------------------------------------------------
(* What ties the calls, the table and *arr's answers together *)

CallRecords ==
    [op : {"idle", "add", "update", "remove", "delete"}, pc : PCs,
     hash : Hashes \cup {None}, id : Ids \cup {None}, data : BOOLEAN]

\* How far each kind of call may be, and what it may be about.
CallFits(c) ==
    LET h == call[c].hash
        op == call[c].op
        pc == call[c].pc
    IN  /\ op = "idle" <=> pc = "idle"
        /\ op = "add" => pc \in {"add", "associate"} /\ h \in Torrents
        /\ op = "update" => pc \in {"list", "resolve", "associate", "update"}
        /\ op = "remove" => pc \in {"list", "resolve", "associate", "list_again",
                                    "resolve_again", "find", "cancel", "purge", "forget"}
        /\ op = "delete" => pc \in {"find", "absent", "cancel", "purge"}
        /\ op \in {"update", "remove"} => h \in Torrents \cup Legacy
        /\ op \in {"idle", "delete"} => h = None
        /\ h # None => c \in ArrCalls

\* A hash may name a transfer: of its torrent, or the one it was made for.
Names(h, i) == state[i] # "unused" /\ h \in {torrent[i], i}

\* What a call has found is still right when it uses it.
CallStands(c) ==
    LET h == call[c].hash
        i == call[c].id
        op == call[c].op
        pc == call[c].pc
    IN  /\ h # None /\ i # None => Names(h, i)
        /\ op = "add" /\ pc = "associate" => i \notin Legacy
        /\ op # "add" /\ pc = "associate" /\ h \in Torrents => answered[h] = None
        /\ op = "remove" /\ pc \in {"find", "cancel", "purge"} /\ h \in Torrents =>
              answered[h] \in {None, i}

AddsAlone ==
    \A b, c \in ArrCalls :
        call[b].op = "add" /\ call[c].hash = call[b].hash => b = c

RowStands(h) ==
    RowOf(h).id # None => Names(h, RowOf(h).id) /\ h \in Torrents \cup Legacy

GoalKept(h) == RowOf(h).criteria = wanted[h]

AnswerStands(t) ==
    answered[t] # None => RowOf(t).id = answered[t] /\ answered[t] \notin Legacy

TableInv ==
    /\ \A h \in Hashes : RowStands(h) /\ GoalKept(h)
    /\ \A t \in Torrents : AnswerStands(t)

HashInv ==
    /\ TypeOK
    /\ \A c \in Calls : CallFits(c) /\ CallStands(c)
    /\ AddsAlone
    /\ TableInv
    /\ \A i \in Legacy : state[i] # "unused"

LEMMA InitHash == Init => HashInv
<1> SUFFICES ASSUME Init PROVE HashInv
  OBVIOUS
<1> USE HashAssumption, LegacyAssumption
<1>1. TypeOK
  <2>1. rows \in Seq(Rows) /\ DOMAIN rows = {}
    BY DEF Init
  <2>2. call \in [Calls -> CallRecords]
    BY DEF Init, Idle, CallRecords, PCs
  <2>3. \A c \in Calls : call[c].pc = "idle"
    BY DEF Init, Idle
  <2>4. NoCriteria \in Criteria
    BY DEF NoCriteria, Criteria
  <2>5. state \in [Ids -> {"unused", "downloading", "finished", "gone"}]
    BY DEF Init
  <2>6. answered \in [Torrents -> Ids \cup {None}] /\ wanted \in [Hashes -> Criteria]
    BY <2>4 DEF Init
  <2>7. magnet \subseteq Ids /\ stored \subseteq Ids /\ torrent \in [Ids -> Torrents \cup {None}]
    BY DEF Init
  <2> QED BY <2>1, <2>2, <2>3, <2>5, <2>6, <2>7 DEF TypeOK, CallRecords
<1>2. \A c \in Calls : CallFits(c) /\ CallStands(c)
  BY DEF Init, Idle, CallFits, CallStands
<1>3. AddsAlone
  BY DEF Init, Idle, AddsAlone, Calls
<1>4. ASSUME NEW h \in Hashes PROVE RowOf(h).id = None /\ RowOf(h).criteria = NoCriteria
  <2>1. ~ Has(h)
    BY DEF Init, Has
  <2> QED BY <2>1 DEF RowOf
<1>5. TableInv
  BY <1>4 DEF Init, TableInv, RowStands, GoalKept, AnswerStands
<1> QED BY <1>1, <1>2, <1>3, <1>5 DEF HashInv, Init

-----------------------------------------------------------------------------
(* Types *)

LEMMA CallType ==
    ASSUME TypeOK, NEW c \in Calls
    PROVE  /\ call[c] \in CallRecords /\ call \in [Calls -> CallRecords]
BY DEF TypeOK, CallRecords

LEMMA IdleIs ==
    /\ Idle \in CallRecords /\ Idle.op = "idle" /\ Idle.pc = "idle"
    /\ Idle.hash = None /\ Idle.id = None
BY DEF CallRecords, Idle, PCs

\* A call moves to a record of its own and the others stay.
LEMMA CallTypeStep ==
    ASSUME TypeOK, NEW c \in Calls, NEW new \in CallRecords,
           new.pc \in {"associate", "find", "cancel", "purge"} => new.id # None,
           call' = [call EXCEPT ![c] = new]
    PROVE  /\ call' \in [Calls -> CallRecords]
           /\ \A d \in Calls :
                 call'[d].pc \in {"associate", "find", "cancel", "purge"} => call'[d].id # None
           /\ call'[c] = new
           /\ \A d \in Calls \ {c} : call'[d] = call[d]
BY DEF TypeOK, CallRecords

-----------------------------------------------------------------------------
(* What every step leaves as it was *)

\* A transfer that Put.io has once had keeps its torrent.
UsedStays ==
    \A i \in Ids : state[i] # "unused" => state'[i] # "unused" /\ torrent'[i] = torrent[i]

LEMMA NamesStay ==
    ASSUME UsedStays, NEW h, NEW i \in Ids, Names(h, i)
    PROVE  Names(h, i)'
BY DEF UsedStays, Names

LEMMA AloneKept ==
    ASSUME HashInv, NEW c \in Calls, NEW new,
           call' \in [Calls -> CallRecords], call'[c] = new,
           \A d \in Calls \ {c} : call'[d] = call[d],
           \/ new.op # "add" /\ new.hash = None
           \/ new.op = call[c].op /\ new.hash = call[c].hash
    PROVE  AddsAlone'
<1>1. \A d \in Calls : call[d].op = "add" => call[d].hash # None
  BY HashAssumption DEF HashInv, CallFits
<1>2. AddsAlone
  BY DEF HashInv
<1> SUFFICES ASSUME NEW a \in ArrCalls, NEW b \in ArrCalls,
                    call'[a].op = "add", call'[b].hash = call'[a].hash
             PROVE  a = b
  BY DEF AddsAlone
<1>3. a \in Calls /\ b \in Calls
  BY DEF Calls
<1> QED BY <1>1, <1>2, <1>3 DEF AddsAlone

\* The calls that do not move stand as they did.
LEMMA OthersStand ==
    ASSUME HashInv, UsedStays, NEW d \in Calls, call'[d] = call[d],
           \A t \in Torrents : t = call[d].hash => answered'[t] \in {answered[t], None}
    PROVE  (CallFits(d) /\ CallStands(d))'
<1>1. CallFits(d) /\ CallStands(d)
  BY DEF HashInv
<1>2. call[d] \in CallRecords
  BY CallType DEF HashInv
<1>3. CallFits(d)'
  BY <1>1 DEF CallFits
<1>4. call[d].hash # None /\ call[d].id # None =>
          call[d].id \in Ids /\ Names(call[d].hash, call[d].id)
  BY <1>1, <1>2 DEF CallStands, CallRecords
<1>5. call'[d].hash # None /\ call'[d].id # None =>
          state'[call'[d].id] # "unused" /\ call'[d].hash \in {torrent'[call'[d].id], call'[d].id}
  BY <1>4 DEF UsedStays, Names
<1>6. CallStands(d)'
  BY <1>1, <1>5 DEF CallStands, Names
<1> QED BY <1>3, <1>6

LEMMA TableStays ==
    ASSUME HashInv, UsedStays, UNCHANGED <<rows, seen>>
    PROVE  TableInv'
<1>0. TypeOK /\ TableInv
  BY DEF HashInv
<1>1. \A h \in Hashes : RowOf(h)' = RowOf(h) /\ RowOf(h) \in Rows
  <2>1. \A h \in Hashes : RowOf(h)' = RowOf(h)
    BY DEF RowOf, Has, RowWith
  <2> QED BY <1>0, <2>1, RowType
<1>2. answered' = answered /\ wanted' = wanted
  BY DEF seen
<1>3. ASSUME NEW h \in Hashes PROVE RowStands(h)' /\ GoalKept(h)'
  <2>1. RowStands(h) /\ GoalKept(h)
    BY <1>0 DEF TableInv
  <2>2. GoalKept(h)'
    BY <1>1, <1>2, <2>1 DEF GoalKept
  <2>3. CASE RowOf(h).id # None
    <3>1. PICK i \in Ids : RowOf(h).id = i
      BY <1>1, <2>3 DEF Rows
    <3>2. Names(h, i) /\ h \in Torrents \cup Legacy
      BY <2>1, <2>3, <3>1 DEF RowStands
    <3>3. Names(h, i)'
      BY <3>2, NamesStay
    <3>4. RowOf(h)'.id = i
      BY <1>1, <3>1
    <3> QED BY <2>2, <3>2, <3>3, <3>4 DEF RowStands
  <2>4. CASE RowOf(h).id = None
    BY <1>1, <2>2, <2>4 DEF RowStands
  <2> QED BY <2>3, <2>4
<1>4. ASSUME NEW t \in Torrents PROVE AnswerStands(t)'
  BY <1>0, <1>1, <1>2 DEF TableInv, AnswerStands, Hashes
<1> QED BY <1>3, <1>4 DEF TableInv

\* A step that is only a call's: it moves to a new record.
LEMMA QuietStep ==
    ASSUME HashInv, UNCHANGED <<putio, rows, seen>>,
           NEW c \in Calls, NEW new \in CallRecords,
           call' = [call EXCEPT ![c] = new],
           new.pc \in {"associate", "find", "cancel", "purge"} => new.id # None,
           (CallFits(c) /\ CallStands(c))', AddsAlone'
    PROVE  HashInv'
<1>0. TypeOK
  BY DEF HashInv
<1>1. UsedStays
  BY DEF UsedStays, putio
<1>2. TableInv'
  BY <1>1, TableStays
<1>3. /\ call' \in [Calls -> CallRecords]
      /\ \A d \in Calls :
            call'[d].pc \in {"associate", "find", "cancel", "purge"} => call'[d].id # None
      /\ \A d \in Calls \ {c} : call'[d] = call[d]
  BY <1>0, CallTypeStep
<1>4. TypeOK'
  BY <1>0, <1>3 DEF TypeOK, CallRecords, putio, seen
<1>5. \A d \in Calls \ {c} : (CallFits(d) /\ CallStands(d))'
  BY <1>1, <1>3, OthersStand DEF seen
<1>6. \A d \in Calls : (CallFits(d) /\ CallStands(d))'
  BY <1>5
<1>7. \A i \in Legacy : state'[i] # "unused"
  BY DEF HashInv, putio
<1> QED BY <1>2, <1>4, <1>6, <1>7 DEF HashInv

-----------------------------------------------------------------------------
(* Calls arrive *)

LEMMA AddBegins ==
    ASSUME HashInv, NEW c \in ArrCalls, TorrentAdd(c)
    PROVE  HashInv'
<1>1. PICK t \in Torrents :
          Untouched(t) /\ Begin(c, [Idle EXCEPT !.op = "add", !.pc = "add", !.hash = t])
  BY DEF TorrentAdd
<1> DEFINE new == [Idle EXCEPT !.op = "add", !.pc = "add", !.hash = t]
<1>2. call' = [call EXCEPT ![c] = new] /\ UNCHANGED <<putio, rows, seen>> /\ call[c] = Idle
  BY <1>1 DEF Begin
<1>3. new \in CallRecords /\ c \in Calls
  BY IdleIs DEF CallRecords, PCs, Hashes, Calls
<1>4. /\ new.op = "add" /\ new.pc = "add" /\ new.hash = t /\ new.id = None
      /\ t # None
  BY IdleIs, HashAssumption DEF CallRecords
<1> HIDE DEF new
<1>5. TypeOK /\ AddsAlone
  BY DEF HashInv
<1>6. call'[c] = new /\ \A d \in Calls \ {c} : call'[d] = call[d]
  BY <1>2, <1>3, <1>4, <1>5, CallTypeStep
<1>7. (CallFits(c) /\ CallStands(c))'
  BY <1>4, <1>6 DEF CallFits, CallStands
<1>8. AddsAlone'
  BY <1>1, <1>4, <1>5, <1>6 DEF AddsAlone, Untouched, Calls
<1> QED BY <1>2, <1>3, <1>4, <1>7, <1>8, QuietStep

\* torrent-set and torrent-remove begin alike.
LEMMA AskBegins ==
    ASSUME HashInv, NEW c \in ArrCalls, NEW op \in {"update", "remove"}, NEW h \in Told,
           ~ Adding(h), Begin(c, [Idle EXCEPT !.op = op, !.pc = "list", !.hash = h])
    PROVE  HashInv'
<1> DEFINE new == [Idle EXCEPT !.op = op, !.pc = "list", !.hash = h]
<1>2. call' = [call EXCEPT ![c] = new] /\ UNCHANGED <<putio, rows, seen>> /\ call[c] = Idle
  BY DEF Begin
<1>3. new \in CallRecords /\ c \in Calls
  BY IdleIs, LegacyAssumption DEF CallRecords, PCs, Hashes, Calls, Told
<1>4. /\ new.op = op /\ new.pc = "list" /\ new.hash = h /\ new.id = None
      /\ h # None /\ h \in Torrents \cup Legacy
  BY IdleIs, HashAssumption, LegacyAssumption DEF Told, CallRecords
<1> HIDE DEF new
<1>5. TypeOK /\ AddsAlone
  BY DEF HashInv
<1>6. call'[c] = new /\ \A d \in Calls \ {c} : call'[d] = call[d]
  BY <1>2, <1>3, <1>4, <1>5, CallTypeStep
<1>7. (CallFits(c) /\ CallStands(c))'
  BY <1>4, <1>6 DEF CallFits, CallStands
<1>8. AddsAlone'
  BY <1>4, <1>5, <1>6 DEF AddsAlone, Adding, Calls
<1> QED BY <1>2, <1>3, <1>4, <1>7, <1>8, QuietStep

LEMMA UIBegins ==
    ASSUME HashInv, NEW c \in UICalls, UIDelete(c)
    PROVE  HashInv'
<1>1. PICK i \in Ids : Begin(c, [Idle EXCEPT !.op = "delete", !.pc = "find", !.id = i])
  BY DEF UIDelete
<1> DEFINE new == [Idle EXCEPT !.op = "delete", !.pc = "find", !.id = i]
<1>2. call' = [call EXCEPT ![c] = new] /\ UNCHANGED <<putio, rows, seen>> /\ call[c] = Idle
  BY <1>1 DEF Begin
<1>3. new \in CallRecords /\ c \in Calls
  BY IdleIs DEF CallRecords, PCs, Calls
<1>4. /\ new.op = "delete" /\ new.pc = "find" /\ new.hash = None /\ new.id = i
      /\ i # None
  BY IdleIs, HashAssumption DEF CallRecords
<1> HIDE DEF new
<1>5. TypeOK
  BY DEF HashInv
<1>6. /\ call'[c] = new /\ call' \in [Calls -> CallRecords]
      /\ \A d \in Calls \ {c} : call'[d] = call[d]
  BY <1>2, <1>3, <1>4, <1>5, CallTypeStep
<1>7. (CallFits(c) /\ CallStands(c))'
  BY <1>4, <1>6 DEF CallFits, CallStands
<1>8. AddsAlone'
  BY <1>3, <1>4, <1>6, AloneKept
<1> QED BY <1>2, <1>3, <1>4, <1>7, <1>8, QuietStep

-----------------------------------------------------------------------------
(* Steps that change nothing but their call *)

LEMMA EndStep ==
    ASSUME HashInv, NEW c \in Calls, Ends(c), UNCHANGED <<putio, rows, seen>>
    PROVE  HashInv'
<1>1. TypeOK
  BY DEF HashInv
<1>2. Idle \in CallRecords /\ Idle.op = "idle" /\ Idle.pc = "idle" /\ Idle.hash = None
      /\ Idle.id = None
  BY IdleIs
<1>3. call' = [call EXCEPT ![c] = Idle]
  BY DEF Ends
<1>4. /\ call'[c] = Idle /\ call' \in [Calls -> CallRecords]
      /\ \A d \in Calls \ {c} : call'[d] = call[d]
  BY <1>1, <1>2, <1>3, CallTypeStep
<1>5. (CallFits(c) /\ CallStands(c))'
  BY <1>2, <1>4 DEF CallFits, CallStands
<1>6. AddsAlone'
  BY <1>2, <1>4, AloneKept
<1> QED BY <1>2, <1>3, <1>5, <1>6, QuietStep

\* A call goes on: to a record of the same kind and hash.
LEMMA GoOnStep ==
    ASSUME HashInv, NEW c \in Calls, UNCHANGED <<putio, rows, seen>>,
           NEW new \in CallRecords, call' = [call EXCEPT ![c] = new],
           new.op = call[c].op, new.hash = call[c].hash,
           new.pc \in {"associate", "find", "cancel", "purge"} => new.id # None,
           call'[c] = new => (CallFits(c) /\ CallStands(c))'
    PROVE  HashInv'
<1>1. TypeOK
  BY DEF HashInv
<1>4. /\ call'[c] = new /\ call' \in [Calls -> CallRecords]
      /\ \A d \in Calls \ {c} : call'[d] = call[d]
  BY <1>1, CallTypeStep
<1>6. AddsAlone'
  BY <1>4, AloneKept
<1> QED BY <1>4, <1>6, QuietStep

LEMMA ListsStep ==
    ASSUME HashInv, NEW c \in Calls, Lists(c)
    PROVE  HashInv'
<1> DEFINE h == call[c].hash
           found == FindTransferByHash(h)
<1>1. PICK i \in found \cup {None} :
          call' = [call EXCEPT ![c].id = i,
                               ![c].pc = IF @ = "list" THEN "resolve" ELSE "resolve_again"]
  BY DEF Lists
<1>2. call[c].pc \in {"list", "list_again"} /\ UNCHANGED <<putio, rows, seen>>
  BY DEF Lists
<1>3. call[c] \in CallRecords /\ call \in [Calls -> CallRecords] /\ CallFits(c)
  BY CallType DEF HashInv
<1>4. i # None => i \in Ids /\ Names(h, i)
  BY HashAssumption DEF FindTransferByHash, Listed, Names
<1> DEFINE pc == IF call[c].pc = "list" THEN "resolve" ELSE "resolve_again"
           new == [call[c] EXCEPT !.id = i, !.pc = pc]
<1>5. call' = [call EXCEPT ![c] = new]
  BY <1>1, <1>3
<1>6. /\ new \in CallRecords /\ new.op = call[c].op /\ new.hash = h
      /\ new.id = i /\ new.pc = pc
  BY <1>3, <1>4 DEF CallRecords, PCs
<1> HIDE DEF new
<1>7. call'[c] = new => (CallFits(c) /\ CallStands(c))'
  BY <1>2, <1>3, <1>4, <1>6 DEF CallFits, CallStands, Names, putio
<1>8. new.pc \notin {"associate", "find", "cancel", "purge"}
  BY <1>6
<1> QED BY <1>2, <1>5, <1>6, <1>7, <1>8, GoOnStep

\* What a call's hash resolves to is a transfer it names, and the one that
\* torrent-add answered with.
LEMMA ResolvedNames ==
    ASSUME HashInv, NEW c \in Calls, call[c].pc \in {"resolve", "resolve_again"}
    PROVE  LET h == call[c].hash
               i == Resolved(c)
           IN  /\ h \in Torrents \cup Legacy /\ h \in Hashes
               /\ i # None => i \in Ids /\ Names(h, i)
               /\ i # None /\ h \in Torrents => answered[h] \in {None, i}
               /\ ~ Has(h) => i = call[c].id /\ (h \in Torrents => answered[h] = None)
<1> DEFINE h == call[c].hash
<1>1. TypeOK /\ call[c] \in CallRecords /\ CallFits(c) /\ CallStands(c) /\ TableInv
  BY CallType DEF HashInv
<1>2. h \in Torrents \cup Legacy /\ h \in Hashes /\ h # None
  BY <1>1, HashAssumption, LegacyAssumption DEF CallFits, CallRecords, Hashes
<1> HIDE DEF h
<1>3. RowOf(h) \in Rows /\ (~ Has(h) => RowOf(h).id = None)
  BY <1>1, <1>2, RowType
<1>4. RowStands(h) /\ (h \in Torrents => AnswerStands(h))
  BY <1>1, <1>2 DEF TableInv
<1>5. CASE Has(h)
  <2>1. Resolved(c) = RowOf(h).id
    BY <1>5 DEF Resolved, h
  <2>2. Resolved(c) # None => Resolved(c) \in Ids /\ Names(h, Resolved(c))
    BY <1>3, <1>4, <2>1 DEF Rows, RowStands
  <2> QED BY <1>2, <1>4, <1>5, <2>1, <2>2 DEF AnswerStands, h
<1>6. CASE ~ Has(h)
  <2>1. Resolved(c) = call[c].id
    BY <1>6 DEF Resolved, h
  <2>2. Resolved(c) # None => Resolved(c) \in Ids /\ Names(h, Resolved(c))
    BY <1>1, <1>2, <2>1 DEF CallStands, CallRecords, h
  <2>3. h \in Torrents => answered[h] = None
    BY <1>3, <1>4, <1>6 DEF AnswerStands
  <2> QED BY <1>2, <2>1, <2>2, <2>3 DEF h
<1> QED BY <1>5, <1>6

LEMMA ResolvesStep ==
    ASSUME HashInv, NEW c \in Calls, Resolves(c)
    PROVE  HashInv'
<1> DEFINE h == call[c].hash
<1>1. call[c].pc = "resolve" /\ UNCHANGED <<putio, rows, seen>>
  BY DEF Resolves
<1>2. call[c] \in CallRecords /\ call \in [Calls -> CallRecords] /\ CallFits(c)
  BY CallType DEF HashInv
<1>3. /\ h \in Torrents \cup Legacy
      /\ Resolved(c) # None => Resolved(c) \in Ids /\ Names(h, Resolved(c))
      /\ ~ Has(h) => Resolved(c) = call[c].id /\ (h \in Torrents => answered[h] = None)
  BY <1>1, ResolvedNames
<1>4. CASE Resolved(c) = None
  BY <1>1, <1>4, EndStep DEF Resolves
<1>5. CASE Resolved(c) # None /\ ~ Has(h)
  <2> DEFINE new == [call[c] EXCEPT !.pc = "associate"]
  <2>1. call' = [call EXCEPT ![c] = new]
    BY <1>2, <1>5 DEF Resolves, Goto
  <2>2. /\ new \in CallRecords /\ new.op = call[c].op /\ new.hash = h
        /\ new.id = call[c].id /\ new.pc = "associate"
    BY <1>2 DEF CallRecords, PCs
  <2> HIDE DEF new
  <2>3. new.id # None /\ Names(h, new.id)
    BY <1>3, <1>5, <2>2
  <2>4. call'[c] = new => (CallFits(c) /\ CallStands(c))'
    BY <1>1, <1>2, <1>3, <1>5, <2>2, <2>3 DEF CallFits, CallStands, Names, putio, seen
  <2> QED BY <1>1, <2>1, <2>2, <2>3, <2>4, GoOnStep
<1>6. CASE Resolved(c) # None /\ Has(h)
  <2> DEFINE new == [call[c] EXCEPT !.id = None, !.pc = AfterEnsured(c)]
  <2>1. call' = [call EXCEPT ![c] = new]
    BY <1>2, <1>6 DEF Resolves
  <2>2. /\ new \in CallRecords /\ new.op = call[c].op /\ new.hash = h
        /\ new.id = None /\ new.pc = AfterEnsured(c)
    BY <1>2 DEF CallRecords, PCs, AfterEnsured
  <2> HIDE DEF new
  <2>4. call'[c] = new => (CallFits(c) /\ CallStands(c))'
    BY <1>1, <1>2, <2>2 DEF CallFits, CallStands, AfterEnsured
  <2>5. new.pc \notin {"associate", "find", "cancel", "purge"}
    BY <2>2 DEF AfterEnsured
  <2> QED BY <1>1, <2>1, <2>2, <2>4, <2>5, GoOnStep
<1> QED BY <1>4, <1>5, <1>6

LEMMA ResolvesAgainStep ==
    ASSUME HashInv, NEW c \in Calls, ResolvesAgain(c)
    PROVE  HashInv'
<1> DEFINE h == call[c].hash
<1>1. call[c].pc = "resolve_again" /\ UNCHANGED <<putio, rows, seen>>
  BY DEF ResolvesAgain
<1>2. call[c] \in CallRecords /\ call \in [Calls -> CallRecords] /\ CallFits(c)
  BY CallType DEF HashInv
<1>3. /\ Resolved(c) # None => Resolved(c) \in Ids /\ Names(h, Resolved(c))
      /\ Resolved(c) # None /\ h \in Torrents => answered[h] \in {None, Resolved(c)}
  BY <1>1, ResolvedNames
<1>4. CASE Resolved(c) = None
  BY <1>1, <1>4, EndStep DEF ResolvesAgain
<1>5. CASE Resolved(c) # None
  <2> DEFINE i == Resolved(c)
             new == [call[c] EXCEPT !.pc = "find", !.id = i]
  <2> HIDE DEF i
  <2>1. call' = [call EXCEPT ![c] = new]
    BY <1>2, <1>5 DEF ResolvesAgain, i
  <2>2. i \in Ids /\ i # None /\ Names(h, i) /\ (h \in Torrents => answered[h] \in {None, i})
    BY <1>3, <1>5 DEF i
  <2>3. /\ new \in CallRecords /\ new.op = call[c].op /\ new.hash = h
        /\ new.id = i /\ new.pc = "find"
    BY <1>2, <2>2 DEF CallRecords, PCs
  <2> HIDE DEF new
  <2>4. call'[c] = new => (CallFits(c) /\ CallStands(c))'
    BY <1>1, <1>2, <2>2, <2>3 DEF CallFits, CallStands, Names, putio, seen
  <2> QED BY <1>1, <2>1, <2>2, <2>3, <2>4, GoOnStep
<1> QED BY <1>4, <1>5

LEMMA FindsStep ==
    ASSUME HashInv, NEW c \in Calls, Finds(c)
    PROVE  HashInv'
<1>1. call[c].pc = "find" /\ UNCHANGED <<putio, rows, seen>>
  BY DEF Finds
<1>2. /\ call[c] \in CallRecords /\ call \in [Calls -> CallRecords]
      /\ CallFits(c) /\ CallStands(c) /\ call[c].id # None
  BY <1>1, CallType DEF HashInv, TypeOK
<1>3. ASSUME NEW b \in BOOLEAN, call' = [call EXCEPT ![c].pc = "cancel", ![c].data = b]
      PROVE  HashInv'
  <2> DEFINE new == [call[c] EXCEPT !.pc = "cancel", !.data = b]
  <2>1. call' = [call EXCEPT ![c] = new]
    BY <1>2, <1>3
  <2>2. new \in CallRecords
    BY <1>2 DEF CallRecords, PCs
  <2>3. /\ new.op = call[c].op /\ new.hash = call[c].hash
        /\ new.id = call[c].id /\ new.pc = "cancel"
    BY <1>2 DEF CallRecords
  <2> HIDE DEF new
  <2>4. call'[c] = new => (CallFits(c) /\ CallStands(c))'
    BY <1>1, <1>2, <2>3 DEF CallFits, CallStands, Names, putio, seen
  <2> QED BY <1>1, <1>2, <2>1, <2>2, <2>3, <2>4, GoOnStep
<1>4. CASE Ends(c)
  BY <1>1, <1>4, EndStep
<1>5. CASE call[c].op = "delete" /\ Goto(c, "absent")
  <2> DEFINE new == [call[c] EXCEPT !.pc = "absent"]
  <2>1. call' = [call EXCEPT ![c] = new]
    BY <1>2, <1>5 DEF Goto
  <2>2. /\ new \in CallRecords /\ new.op = call[c].op /\ new.hash = call[c].hash
        /\ new.id = call[c].id /\ new.pc = "absent"
    BY <1>2 DEF CallRecords, PCs
  <2> HIDE DEF new
  <2>4. call'[c] = new => (CallFits(c) /\ CallStands(c))'
    BY <1>1, <1>2, <1>5, <2>2 DEF CallFits, CallStands, Names, putio, seen
  <2>5. new.pc \notin {"associate", "find", "cancel", "purge"}
    BY <2>2
  <2> QED BY <1>1, <2>1, <2>2, <2>4, <2>5, GoOnStep
<1>6. /\ call[c].id \in stored \/ call[c].id \notin stored
      /\ \A b \in BOOLEAN : (b /\ call[c].id \in stored) \in BOOLEAN
  OBVIOUS
<1> QED BY <1>3, <1>4, <1>5, <1>6 DEF Finds

-----------------------------------------------------------------------------
(* Steps that act on Put.io or on the table *)

\* The types of everything but the calls.
StoreType ==
    /\ state \in [Ids -> {"unused", "downloading", "finished", "gone"}]
    /\ torrent \in [Ids -> Torrents \cup {None}]
    /\ magnet \subseteq Ids /\ stored \subseteq Ids
    /\ rows \in Seq(Rows) /\ Keyed
    /\ answered \in [Torrents -> Ids \cup {None}]
    /\ wanted \in [Hashes -> Criteria]

LEMMA MovesStep ==
    ASSUME HashInv, UsedStays, StoreType', TableInv',
           NEW c \in Calls, NEW new \in CallRecords,
           call' = [call EXCEPT ![c] = new],
           \/ new = Idle
           \/ new.op = call[c].op /\ new.hash = call[c].hash,
           new.pc \in {"associate", "find", "cancel", "purge"} => new.id # None,
           call'[c] = new => (CallFits(c) /\ CallStands(c))',
           \A d \in Calls \ {c} : \A t \in Torrents :
               t = call[d].hash => answered'[t] \in {answered[t], None}
    PROVE  HashInv'
<1>0. TypeOK
  BY DEF HashInv
<1>1. /\ call' \in [Calls -> CallRecords]
      /\ \A d \in Calls :
            call'[d].pc \in {"associate", "find", "cancel", "purge"} => call'[d].id # None
      /\ call'[c] = new
      /\ \A d \in Calls \ {c} : call'[d] = call[d]
  BY <1>0, CallTypeStep
<1>2. TypeOK'
  BY <1>1 DEF TypeOK, StoreType, Keyed, CallRecords
<1>3. \A d \in Calls \ {c} : (CallFits(d) /\ CallStands(d))'
  BY <1>1, OthersStand
<1>4. AddsAlone'
  <2>1. new = Idle => new.op # "add" /\ new.hash = None
    BY IdleIs
  <2> QED BY <1>1, <2>1, AloneKept
<1>5. \A i \in Legacy : state'[i] # "unused"
  BY LegacyAssumption DEF HashInv, UsedStays
<1>6. \A d \in Calls : (CallFits(d) /\ CallStands(d))'
  BY <1>1, <1>3
<1> QED BY <1>2, <1>4, <1>5, <1>6 DEF HashInv

LEMMA IdleStands ==
    ASSUME NEW c, call'[c] = Idle
    PROVE  (CallFits(c) /\ CallStands(c))'
BY IdleIs DEF CallFits, CallStands

LEMMA StoreTyped ==
    ASSUME HashInv
    PROVE  StoreType
BY DEF HashInv, TypeOK, StoreType, Keyed

LEMMA AddsStep ==
    ASSUME HashInv, NEW c \in Calls, Adds(c)
    PROVE  HashInv'
<1> DEFINE h == call[c].hash
<1>1. PICK i \in Ids :
          /\ state[i] = "unused"
          /\ state' = [state EXCEPT ![i] = "downloading"]
          /\ torrent' = [torrent EXCEPT ![i] = h]
          /\ magnet' \in {magnet, magnet \cup {i}}
          /\ \/ call' = [call EXCEPT ![c].pc = "associate", ![c].id = i]
             \/ Ends(c)
  BY DEF Adds
<1>2. call[c].pc = "add" /\ UNCHANGED <<stored, rows, seen>>
  BY DEF Adds
<1>3. call[c] \in CallRecords /\ call \in [Calls -> CallRecords] /\ CallFits(c)
  BY CallType DEF HashInv
<1>4. call[c].op = "add" /\ h \in Torrents
  BY <1>2, <1>3 DEF CallFits, CallRecords
<1>5. StoreType
  BY StoreTyped
<1>6. UsedStays
  BY <1>1, <1>5 DEF UsedStays, StoreType
<1>7. TableInv'
  BY <1>2, <1>6, TableStays
<1>8. StoreType'
  <2>1. Keyed'
    BY <1>2, <1>5 DEF StoreType, Keyed
  <2> QED BY <1>1, <1>2, <1>4, <1>5, <2>1 DEF StoreType, seen
<1>9. answered' = answered
  BY <1>2 DEF seen
<1>10. i \notin Legacy /\ i # None
  BY <1>1, HashAssumption DEF HashInv
<1>11. CASE Ends(c)
  <2>1. call' = [call EXCEPT ![c] = Idle]
    BY <1>11 DEF Ends
  <2> QED BY <1>6, <1>7, <1>8, <1>9, <2>1, IdleIs, IdleStands, MovesStep
<1>12. CASE call' = [call EXCEPT ![c].pc = "associate", ![c].id = i]
  <2> DEFINE new == [call[c] EXCEPT !.pc = "associate", !.id = i]
  <2>1. call' = [call EXCEPT ![c] = new]
    BY <1>3, <1>12
  <2>2. /\ new \in CallRecords /\ new.op = call[c].op /\ new.hash = h
        /\ new.id = i /\ new.pc = "associate"
    BY <1>3 DEF CallRecords, PCs
  <2> HIDE DEF new
  <2>3. state'[i] # "unused" /\ torrent'[i] = h
    BY <1>1, <1>5 DEF StoreType
  <2>4. call'[c] = new => (CallFits(c) /\ CallStands(c))'
    BY <1>3, <1>4, <1>10, <2>2, <2>3 DEF CallFits, CallStands, Names
  <2> QED BY <1>6, <1>7, <1>8, <1>9, <1>10, <2>1, <2>2, <2>4, MovesStep
<1> QED BY <1>1, <1>11, <1>12

\* What follows a removal: the UI's call ends, *arr's goes on to forget.
LEMMA AfterRemovalIs ==
    ASSUME HashInv, NEW c \in Calls, AfterRemoval(c), call[c].pc \in {"cancel", "purge"}
    PROVE  \E new \in CallRecords :
              /\ call' = [call EXCEPT ![c] = new]
              /\ \/ new = Idle
                 \/ /\ call[c].op = "remove" /\ new.pc = "forget" /\ new.op = call[c].op
                    /\ new.hash = call[c].hash /\ new.id = call[c].id
<1>1. call[c] \in CallRecords /\ call \in [Calls -> CallRecords]
  BY CallType DEF HashInv
<1>2. CASE call[c].op = "remove"
  <2> DEFINE new == [call[c] EXCEPT !.pc = "forget"]
  <2>1. call' = [call EXCEPT ![c] = new]
    BY <1>1, <1>2 DEF AfterRemoval, Goto
  <2>2. /\ new \in CallRecords /\ new.pc = "forget" /\ new.op = call[c].op
        /\ new.hash = call[c].hash /\ new.id = call[c].id
    BY <1>1 DEF CallRecords, PCs
  <2> QED BY <1>2, <2>1, <2>2
<1>3. CASE call[c].op # "remove"
  BY <1>3, IdleIs DEF AfterRemoval, Ends
<1> QED BY <1>2, <1>3

LEMMA CancelsStep ==
    ASSUME HashInv, NEW c \in Calls, Cancels(c)
    PROVE  HashInv'
<1>1. /\ call[c].pc = "cancel" /\ UNCHANGED <<torrent, stored, rows, seen>>
      /\ state' = [state EXCEPT ![call[c].id] = "gone"]
      /\ magnet' = magnet \ {call[c].id}
  BY DEF Cancels
<1>2. /\ call[c] \in CallRecords /\ call \in [Calls -> CallRecords]
      /\ CallFits(c) /\ CallStands(c) /\ call[c].id \in Ids
  BY <1>1, CallType DEF HashInv, TypeOK, CallRecords
<1>3. StoreType
  BY StoreTyped
<1>4. UsedStays
  BY <1>1, <1>2, <1>3 DEF UsedStays, StoreType
<1>5. TableInv'
  BY <1>1, <1>4, TableStays
<1>6. StoreType'
  <2>1. Keyed'
    BY <1>1, <1>3 DEF StoreType, Keyed
  <2> QED BY <1>1, <1>2, <1>3, <2>1 DEF StoreType, seen
<1>7. answered' = answered
  BY <1>1 DEF seen
<1>8. call[c].hash # None =>
          state'[call[c].id] # "unused" /\ call[c].hash \in {torrent'[call[c].id], call[c].id}
  <2>1. call[c].hash # None => Names(call[c].hash, call[c].id)
    BY <1>2, HashAssumption DEF CallStands
  <2> QED BY <1>1, <1>2, <1>3, <2>1 DEF Names, StoreType
<1>9. CASE Goto(c, "purge")
  <2> DEFINE new == [call[c] EXCEPT !.pc = "purge"]
  <2>1. call' = [call EXCEPT ![c] = new]
    BY <1>2, <1>9 DEF Goto
  <2>2. /\ new \in CallRecords /\ new.op = call[c].op /\ new.hash = call[c].hash
        /\ new.id = call[c].id /\ new.pc = "purge"
    BY <1>2 DEF CallRecords, PCs
  <2> HIDE DEF new
  <2>3. call'[c] = new => CallFits(c)'
    BY <1>1, <1>2, <2>2 DEF CallFits, CallRecords
  <2>4. call'[c] = new => CallStands(c)'
    BY <1>1, <1>2, <1>7, <1>8, <2>2 DEF CallStands, Names
  <2>5. new.id # None
    BY <1>2, <2>2, HashAssumption
  <2> QED BY <1>4, <1>5, <1>6, <1>7, <2>1, <2>2, <2>3, <2>4, <2>5, MovesStep
<1>10. CASE AfterRemoval(c)
  <2>1. PICK new \in CallRecords :
              /\ call' = [call EXCEPT ![c] = new]
              /\ \/ new = Idle
                 \/ /\ call[c].op = "remove" /\ new.pc = "forget" /\ new.op = call[c].op
                    /\ new.hash = call[c].hash /\ new.id = call[c].id
    BY <1>1, <1>10, AfterRemovalIs
  <2>2. call'[c] = new => (CallFits(c) /\ CallStands(c))'
    <3>1. CASE new = Idle
      BY <3>1, IdleStands
    <3>2. CASE new # Idle
      BY <1>2, <1>8, <2>1, <3>2 DEF CallFits, CallStands, Names
    <3> QED BY <3>1, <3>2
  <2>3. new.pc \notin {"associate", "find", "cancel", "purge"}
    BY <2>1, IdleIs
  <2> QED BY <1>4, <1>5, <1>6, <1>7, <2>1, <2>2, <2>3, MovesStep
<1> QED BY <1>9, <1>10 DEF Cancels

LEMMA PurgesStep ==
    ASSUME HashInv, NEW c \in Calls, Purges(c)
    PROVE  HashInv'
<1>1. /\ call[c].pc = "purge" /\ UNCHANGED <<state, torrent, magnet, rows, seen>>
      /\ stored' = stored \ {call[c].id} /\ AfterRemoval(c)
  BY DEF Purges
<1>2. /\ call[c] \in CallRecords /\ call \in [Calls -> CallRecords]
      /\ CallFits(c) /\ CallStands(c)
  BY <1>1, CallType DEF HashInv
<1>3. StoreType
  BY StoreTyped
<1>4. UsedStays
  BY <1>1 DEF UsedStays
<1>5. TableInv'
  BY <1>1, <1>4, TableStays
<1>6. StoreType'
  <2>1. Keyed'
    BY <1>1, <1>3 DEF StoreType, Keyed
  <2> QED BY <1>1, <1>3, <2>1 DEF StoreType, seen
<1>7. answered' = answered
  BY <1>1 DEF seen
<1>8. PICK new \in CallRecords :
            /\ call' = [call EXCEPT ![c] = new]
            /\ \/ new = Idle
               \/ /\ call[c].op = "remove" /\ new.pc = "forget" /\ new.op = call[c].op
                  /\ new.hash = call[c].hash /\ new.id = call[c].id
  BY <1>1, AfterRemovalIs
<1>9. call'[c] = new => (CallFits(c) /\ CallStands(c))'
  <2>1. CASE new = Idle
    BY <2>1, IdleStands
  <2>2. CASE new # Idle
    BY <1>1, <1>2, <1>8, <2>2 DEF CallFits, CallStands, Names
  <2> QED BY <2>1, <2>2
<1>10. new.pc \notin {"associate", "find", "cancel", "purge"}
  BY <1>8, IdleIs
<1> QED BY <1>4, <1>5, <1>6, <1>7, <1>8, <1>9, <1>10, MovesStep

LEMMA CompletesStep ==
    ASSUME HashInv, NEW i \in Ids, Completes(i)
    PROVE  HashInv'
<1>1. /\ UNCHANGED <<torrent, magnet, rows, call, seen>>
      /\ state' = [state EXCEPT ![i] = "finished"] /\ stored' = stored \cup {i}
  BY DEF Completes
<1>2. TypeOK /\ AddsAlone
  BY DEF HashInv
<1>3. UsedStays
  BY <1>1, <1>2 DEF UsedStays, TypeOK
<1>4. TableInv'
  BY <1>1, <1>3, TableStays
<1>5. TypeOK'
  BY <1>1, <1>2 DEF TypeOK, seen
<1>6. answered' = answered
  BY <1>1 DEF seen
<1>7. \A d \in Calls : (CallFits(d) /\ CallStands(d))'
  BY <1>1, <1>3, <1>6, OthersStand
<1>8. AddsAlone'
  BY <1>1, <1>2 DEF AddsAlone
<1>9. \A j \in Legacy : state'[j] # "unused"
  BY <1>3, LegacyAssumption DEF HashInv, UsedStays
<1> QED BY <1>4, <1>5, <1>7, <1>8, <1>9 DEF HashInv

-----------------------------------------------------------------------------
(* Statements on the table *)

\* A hash whose row stays has all that holds of it.
LEMMA SameRowStands ==
    ASSUME HashInv, UNCHANGED <<state, torrent>>, NEW h \in Hashes, SameRow(h)
    PROVE  /\ RowStands(h)'
           /\ wanted'[h] = wanted[h] => GoalKept(h)'
           /\ h \in Torrents /\ answered'[h] \in {answered[h], None} => AnswerStands(h)'
<1>1. RowStands(h) /\ GoalKept(h) /\ (h \in Torrents => AnswerStands(h))
  BY DEF HashInv, TableInv
<1>2. RowOf(h)' = RowOf(h)
  BY DEF SameRow
<1> QED BY <1>1, <1>2 DEF RowStands, GoalKept, AnswerStands, Names

LEMMA AssociatesStep ==
    ASSUME HashInv, NEW c \in Calls, Associates(c)
    PROVE  HashInv'
<1>0. PICK h, i : h = call[c].hash /\ i = call[c].id
  OBVIOUS
<1> DEFINE row == [RowOf(h) EXCEPT !.id = i]
<1>1. /\ call[c].pc = "associate" /\ UNCHANGED <<putio, wanted>>
      /\ Upsert(h, row)
  BY <1>0 DEF Associates, AssociateTorrentHash
<1>2. /\ TypeOK /\ StoreType /\ TableInv /\ call[c] \in CallRecords
      /\ call \in [Calls -> CallRecords] /\ CallFits(c) /\ CallStands(c)
  BY CallType, StoreTyped DEF HashInv
<1>3. /\ h \in Torrents \cup Legacy /\ h \in Hashes /\ h # None /\ c \in ArrCalls
      /\ i \in Ids /\ i # None /\ Names(h, i)
      /\ call[c].op \in {"add", "update", "remove"}
  <2>1. call[c].op \in {"add", "update", "remove"}
    BY <1>1, <1>2 DEF CallFits, CallRecords
  <2>2. h \in Torrents \cup Legacy /\ h \in Hashes /\ h # None
    BY <1>0, <1>2, <2>1, HashAssumption, LegacyAssumption DEF CallFits, Hashes
  <2>3. i \in Ids /\ i # None
    BY <1>0, <1>1, <1>2 DEF TypeOK, CallRecords
  <2> QED BY <1>0, <1>2, <2>1, <2>2, <2>3 DEF CallFits, CallStands
<1>4. /\ row \in Rows /\ row.hash = h /\ row.id = i /\ row.criteria = RowOf(h).criteria
  BY <1>2, <1>3, RowType DEF Rows
<1> HIDE DEF row
<1>5. /\ rows' \in Seq(Rows) /\ Keyed' /\ RowOf(h)' = row
      /\ \A g \in Hashes \ {h} : SameRow(g)
  BY <1>1, <1>2, <1>3, <1>4, UpsertsOne
<1>6. UsedStays /\ UNCHANGED <<state, torrent>>
  BY <1>1 DEF UsedStays, putio
<1>7. answered' = IF call[c].op = "add" THEN [answered EXCEPT ![h] = i] ELSE answered
  BY <1>0 DEF Associates
<1>8. StoreType'
  <2>1. call[c].op = "add" => h \in Torrents
    BY <1>0, <1>2 DEF CallFits
  <2>2. answered' \in [Torrents -> Ids \cup {None}]
    BY <1>2, <1>3, <1>7, <2>1 DEF StoreType
  <2> QED BY <1>1, <1>2, <1>5, <2>2 DEF StoreType, putio
<1>9. RowStands(h)' /\ GoalKept(h)'
  <2>1. GoalKept(h)
    BY <1>2, <1>3 DEF TableInv
  <2>2. wanted' = wanted
    BY <1>1
  <2>3. GoalKept(h)'
    BY <1>4, <1>5, <2>1, <2>2 DEF GoalKept
  <2>4. state'[i] # "unused" /\ h \in {torrent'[i], i}
    BY <1>3, <1>6 DEF Names
  <2>5. RowOf(h)'.id = i
    BY <1>4, <1>5
  <2>6. RowStands(h)'
    BY <1>3, <2>4, <2>5 DEF RowStands, Names
  <2> QED BY <2>3, <2>6
<1>10. h \in Torrents => AnswerStands(h)'
  <2>1. RowOf(h)'.id = i
    BY <1>4, <1>5
  <2>2. CASE call[c].op = "add"
    <3>1. i \notin Legacy
      BY <1>0, <1>1, <1>2, <2>2 DEF CallStands
    <3>2. h \in Torrents => answered'[h] = i
      BY <1>2, <1>7, <2>2 DEF StoreType
    <3> QED BY <2>1, <3>1, <3>2 DEF AnswerStands
  <2>3. CASE call[c].op # "add"
    <3>1. h \in Torrents => answered[h] = None
      BY <1>0, <1>1, <1>2, <2>3 DEF CallStands
    <3> QED BY <1>7, <2>3, <3>1 DEF AnswerStands
  <2> QED BY <2>2, <2>3
<1>11. TableInv'
  <2>1. ASSUME NEW g \in Hashes \ {h}
        PROVE  RowStands(g)' /\ GoalKept(g)' /\ (g \in Torrents => AnswerStands(g)')
    <3>1. wanted' = wanted
      BY <1>1
    <3>2. g \in Torrents => answered'[g] = answered[g]
      BY <1>2, <1>7, <2>1 DEF StoreType
    <3> QED BY <1>5, <1>6, <3>1, <3>2, SameRowStands
  <2> QED BY <1>3, <1>9, <1>10, <2>1 DEF TableInv, Hashes
<1>12. \A d \in Calls \ {c} : \A t \in Torrents :
           t = call[d].hash => answered'[t] \in {answered[t], None}
  <2> SUFFICES ASSUME NEW d \in Calls \ {c}, NEW t \in Torrents, t = call[d].hash
               PROVE  answered'[t] = answered[t]
    OBVIOUS
  <2>1. t # None /\ d \in ArrCalls
    BY HashAssumption DEF HashInv, CallFits
  <2>2. call[c].op = "add" => t # h
    BY <1>0, <1>3, <2>1 DEF HashInv, AddsAlone
  <2> QED BY <1>2, <1>7, <2>2 DEF StoreType
<1>13. CASE call[c].op = "add"
  <2>1. call' = [call EXCEPT ![c] = Idle]
    BY <1>13 DEF Associates, Ends
  <2> QED BY <1>6, <1>8, <1>11, <1>12, <2>1, IdleIs, IdleStands, MovesStep
<1>14. CASE call[c].op # "add"
  <2> DEFINE new == [call[c] EXCEPT !.id = None, !.pc = AfterEnsured(c)]
  <2>1. call' = [call EXCEPT ![c] = new]
    BY <1>2, <1>14 DEF Associates
  <2>2. /\ new \in CallRecords /\ new.op = call[c].op /\ new.hash = call[c].hash
        /\ new.id = None /\ new.pc = AfterEnsured(c)
    BY <1>2 DEF CallRecords, PCs, AfterEnsured
  <2> HIDE DEF new
  <2>3. call'[c] = new => (CallFits(c) /\ CallStands(c))'
    BY <1>0, <1>1, <1>2, <1>3, <1>14, <2>2 DEF CallFits, CallStands, AfterEnsured
  <2>4. new.pc \notin {"associate", "find", "cancel", "purge"}
    BY <2>2 DEF AfterEnsured
  <2> QED BY <1>6, <1>8, <1>11, <1>12, <2>1, <2>2, <2>3, <2>4, MovesStep
<1> QED BY <1>13, <1>14

LEMMA UpdatesStep ==
    ASSUME HashInv, NEW c \in Calls, Updates(c)
    PROVE  HashInv'
<1>0. PICK h : h = call[c].hash
  OBVIOUS
<1>1. /\ call[c].pc = "update" /\ UNCHANGED <<putio, answered>>
      /\ call' = [call EXCEPT ![c] = Idle]
  BY DEF Updates, Ends
<1>2. PICK new \in Criteria :
          /\ Upsert(h, [RowOf(h) EXCEPT !.criteria = Merge(@, new)])
          /\ wanted' = [wanted EXCEPT ![h] = Merge(@, new)]
  BY <1>0 DEF Updates, UpdateTorrentSeedCriteria
<1>3. /\ TypeOK /\ StoreType /\ TableInv /\ call[c] \in CallRecords /\ CallFits(c)
  BY CallType, StoreTyped DEF HashInv
<1>4. h \in Torrents \cup Legacy /\ h \in Hashes
  BY <1>0, <1>1, <1>3, LegacyAssumption DEF CallFits, CallRecords, Hashes
<1>5. RowOf(h) \in Rows /\ RowOf(h).hash = h /\ RowOf(h).criteria = wanted[h] /\ RowStands(h)
  BY <1>3, <1>4, RowType DEF TableInv, GoalKept
<1> DEFINE merged == Merge(wanted[h], new)
<1>6. merged \in Criteria
  BY <1>3, <1>4 DEF StoreType, Merge, Criteria
<1> HIDE DEF merged
<1> DEFINE row == [RowOf(h) EXCEPT !.criteria = merged]
<1>7. Upsert(h, row) /\ wanted' = [wanted EXCEPT ![h] = merged]
  BY <1>2, <1>3, <1>4, <1>5 DEF merged, Rows, StoreType
<1>8. row \in Rows /\ row.hash = h /\ row.id = RowOf(h).id /\ row.criteria = merged
  BY <1>5, <1>6 DEF Rows
<1> HIDE DEF row
<1>9. /\ rows' \in Seq(Rows) /\ Keyed' /\ RowOf(h)' = row
      /\ \A g \in Hashes \ {h} : SameRow(g)
  BY <1>3, <1>4, <1>7, <1>8, UpsertsOne
<1>10. UsedStays /\ UNCHANGED <<state, torrent>> /\ answered' = answered
  BY <1>1 DEF UsedStays, putio
<1>11. StoreType'
  <2>1. wanted' \in [Hashes -> Criteria]
    BY <1>3, <1>6, <1>7 DEF StoreType
  <2> QED BY <1>1, <1>3, <1>9, <2>1 DEF StoreType, putio
<1>12. RowStands(h)' /\ GoalKept(h)' /\ (h \in Torrents => AnswerStands(h)')
  <2>1. RowOf(h)'.id = RowOf(h).id /\ RowOf(h)'.criteria = merged
    BY <1>8, <1>9
  <2>2. wanted'[h] = merged
    BY <1>3, <1>4, <1>7 DEF StoreType
  <2>3. h \in Torrents => AnswerStands(h)
    BY <1>3 DEF TableInv
  <2> QED BY <1>5, <1>10, <2>1, <2>2, <2>3 DEF RowStands, GoalKept, AnswerStands, Names
<1>13. TableInv'
  <2>1. ASSUME NEW g \in Hashes \ {h}
        PROVE  RowStands(g)' /\ GoalKept(g)' /\ (g \in Torrents => AnswerStands(g)')
    <3>1. wanted'[g] = wanted[g]
      BY <1>3, <1>7, <2>1 DEF StoreType
    <3> QED BY <1>9, <1>10, <3>1, SameRowStands
  <2> QED BY <1>4, <1>12, <2>1 DEF TableInv, Hashes
<1> QED BY <1>1, <1>10, <1>11, <1>13, IdleIs, IdleStands, MovesStep

LEMMA ForgetsStep ==
    ASSUME HashInv, NEW c \in Calls, Forgets(c)
    PROVE  HashInv'
<1>0. PICK h : h = call[c].hash
  OBVIOUS
<1>1. /\ call[c].pc = "forget" /\ UNCHANGED putio
      /\ call' = [call EXCEPT ![c] = Idle]
      /\ answered' = [t \in Torrents |-> IF t = h THEN None ELSE answered[t]]
      /\ \/ /\ DeleteTorrentSeedCriteria(h)
            /\ wanted' = [wanted EXCEPT ![h] = NoCriteria]
         \/ UNCHANGED <<rows, wanted>>
  BY <1>0 DEF Forgets, Ends
<1>2. /\ TypeOK /\ StoreType /\ TableInv /\ call[c] \in CallRecords /\ CallFits(c)
  BY CallType, StoreTyped DEF HashInv
<1>3. h \in Torrents \cup Legacy /\ h \in Hashes
  BY <1>0, <1>1, <1>2, LegacyAssumption DEF CallFits, CallRecords, Hashes
<1>4. UsedStays /\ UNCHANGED <<state, torrent>>
  BY <1>1 DEF UsedStays, putio
<1>5. /\ answered' \in [Torrents -> Ids \cup {None}]
      /\ \A t \in Torrents : answered'[t] \in {answered[t], None}
      /\ h \in Torrents => answered'[h] = None
  BY <1>1, <1>2 DEF StoreType
<1>6. CASE UNCHANGED <<rows, wanted>>
  <2>1. StoreType'
    BY <1>1, <1>2, <1>5, <1>6 DEF StoreType, Keyed, putio
  <2>2. ASSUME NEW g \in Hashes
        PROVE  RowStands(g)' /\ GoalKept(g)' /\ (g \in Torrents => AnswerStands(g)')
    <3>1. SameRow(g)
      BY <1>6 DEF SameRow, RowOf, Has, RowWith
    <3> QED BY <1>4, <1>5, <1>6, <3>1, SameRowStands
  <2>3. TableInv'
    BY <2>2 DEF TableInv, Hashes
  <2> QED BY <1>1, <1>4, <1>5, <2>1, <2>3, IdleIs, IdleStands, MovesStep
<1>7. CASE /\ DeleteTorrentSeedCriteria(h)
           /\ wanted' = [wanted EXCEPT ![h] = NoCriteria]
  <2>1. /\ rows' \in Seq(Rows) /\ Keyed'
        /\ RowOf(h)'.id = None /\ RowOf(h)'.criteria = NoCriteria
        /\ \A g \in Hashes \ {h} : SameRow(g)
    BY <1>2, <1>3, <1>7, DeletesOne
  <2>2. StoreType'
    <3>1. NoCriteria \in Criteria
      BY DEF NoCriteria, Criteria
    <3>2. wanted' \in [Hashes -> Criteria]
      BY <1>2, <1>7, <3>1 DEF StoreType
    <3> QED BY <1>1, <1>2, <1>5, <2>1, <3>2 DEF StoreType, putio
  <2>3. RowStands(h)' /\ GoalKept(h)' /\ (h \in Torrents => AnswerStands(h)')
    <3>1. wanted'[h] = NoCriteria
      BY <1>2, <1>3, <1>7 DEF StoreType
    <3> QED BY <1>5, <2>1, <3>1 DEF RowStands, GoalKept, AnswerStands
  <2>4. ASSUME NEW g \in Hashes \ {h}
        PROVE  RowStands(g)' /\ GoalKept(g)' /\ (g \in Torrents => AnswerStands(g)')
    <3>1. wanted'[g] = wanted[g]
      BY <1>2, <1>7, <2>4 DEF StoreType
    <3> QED BY <1>4, <1>5, <2>1, <3>1, SameRowStands
  <2>5. TableInv'
    BY <1>3, <2>3, <2>4 DEF TableInv, Hashes
  <2> QED BY <1>1, <1>4, <1>5, <2>2, <2>5, IdleIs, IdleStands, MovesStep
<1> QED BY <1>1, <1>6, <1>7

-----------------------------------------------------------------------------
(* The invariant and what follows from it *)

LEMMA HashStep == HashInv /\ [Next]_vars => HashInv'
<1> SUFFICES ASSUME HashInv, [Next]_vars PROVE HashInv'
  OBVIOUS
<1>1. ASSUME NEW c \in ArrCalls, ArrBegins(c) PROVE HashInv'
  <2>1. CASE TorrentAdd(c)
    BY <2>1, AddBegins
  <2>2. CASE TorrentSet(c)
    BY <2>2, AskBegins DEF TorrentSet
  <2>3. CASE TorrentRemove(c)
    BY <2>3, AskBegins DEF TorrentRemove
  <2> QED BY <1>1, <2>1, <2>2, <2>3 DEF ArrBegins
<1>2. ASSUME NEW c \in UICalls, UIDelete(c) PROVE HashInv'
  BY <1>2, UIBegins
<1>3. ASSUME NEW c \in Calls, Step(c) PROVE HashInv'
  <2>1. CASE Adds(c)
    BY <2>1, AddsStep
  <2>2. CASE Lists(c)
    BY <2>2, ListsStep
  <2>3. CASE Resolves(c)
    BY <2>3, ResolvesStep
  <2>4. CASE Associates(c)
    BY <2>4, AssociatesStep
  <2>5. CASE Updates(c)
    BY <2>5, UpdatesStep
  <2>6. CASE ResolvesAgain(c)
    BY <2>6, ResolvesAgainStep
  <2>7. CASE Finds(c)
    BY <2>7, FindsStep
  <2>8. CASE AnswersAbsent(c)
    BY <2>8, EndStep DEF AnswersAbsent
  <2>9. CASE Cancels(c)
    BY <2>9, CancelsStep
  <2>10. CASE Purges(c)
    BY <2>10, PurgesStep
  <2>11. CASE Forgets(c)
    BY <2>11, ForgetsStep
  <2>12. CASE Fails(c)
    BY <2>12, EndStep DEF Fails
  <2> QED BY <1>3, <2>1, <2>2, <2>3, <2>4, <2>5, <2>6, <2>7, <2>8, <2>9, <2>10, <2>11,
             <2>12 DEF Step
<1>4. ASSUME NEW i \in Ids, Completes(i) PROVE HashInv'
  BY <1>4, CompletesStep
<1>5. CASE UNCHANGED vars
  <2>1. UNCHANGED <<state, torrent, magnet, stored, rows, call, answered, wanted>>
    BY <1>5 DEF vars, putio, seen
  <2>2. TypeOK' /\ AddsAlone'
    BY <2>1 DEF HashInv, TypeOK, AddsAlone
  <2>3. UsedStays /\ TableInv'
    <3>1. UsedStays
      BY <2>1 DEF UsedStays
    <3> QED BY <2>1, <3>1, TableStays DEF seen
  <2>4. \A d \in Calls : (CallFits(d) /\ CallStands(d))'
    BY <2>1, <2>3, OthersStand
  <2>5. \A i \in Legacy : state'[i] # "unused"
    BY <2>1 DEF HashInv
  <2> QED BY <2>2, <2>3, <2>4, <2>5 DEF HashInv
<1> QED BY <1>1, <1>2, <1>3, <1>4, <1>5 DEF Next

LEMMA HashInvariant == Spec => []HashInv
BY InitHash, HashStep, PTL DEF Spec

\* Every reachable state is well typed, and the table has one row per hash.
THEOREM RPCTypeCorrect == Spec => []TypeOK
<1>1. HashInv => TypeOK
  BY DEF HashInv
<1> QED BY <1>1, HashInvariant, PTL

\* The first row of a transfer is one of its rows.
LEMMA FirstRow ==
    ASSUME TypeOK, NEW i, HasFor(i)
    PROVE  FirstFor(i) \in DOMAIN rows /\ rows[FirstFor(i)].id = i
<1> DEFINE T == {k \in DOMAIN rows : rows[k].id = i}
<1>1. T \subseteq Nat /\ T # {}
  BY DEF TypeOK, HasFor
<1>2. PICK x \in T : \A y \in T : ~ (<<y, x>> \in OpToRel(<, Nat))
  BY <1>1, NatLessThanWellFounded, WFMin
<1>3. \A y \in T : ~ (y < x)
  BY <1>1, <1>2 DEF OpToRel
<1>4. \A y \in T : x <= y
  BY <1>1, <1>3
<1>5. x \in DOMAIN rows /\ rows[x].id = i /\ \A j \in DOMAIN rows : rows[j].id = i => x <= j
  BY <1>4
<1> QED BY <1>5 DEF FirstFor

\* The transfer that torrent-add answered with has one row, that of the hash.
LEMMA AnsweredRow ==
    ASSUME HashInv, NEW t \in Torrents, answered[t] # None
    PROVE  /\ RowOf(t).id = answered[t] /\ HasFor(answered[t])
           /\ rows[FirstFor(answered[t])] = RowOf(t) /\ RowOf(t).hash = t
<1> DEFINE i == answered[t]
<1>1. /\ TypeOK /\ RowOf(t).id = i /\ i \notin Legacy /\ i \in Ids
      /\ \A h \in Hashes : RowStands(h)
  BY DEF HashInv, TableInv, AnswerStands, TypeOK
<1>2. RowOf(t) \in Rows /\ RowOf(t).hash = t /\ Has(t) /\ t \in Hashes
  BY <1>1, RowType DEF Hashes
<1>3. PICK k \in DOMAIN rows : rows[k].hash = t
  BY <1>2 DEF Has
<1>4. rows[k] = RowOf(t)
  BY <1>1, <1>3, RowIs
<1>5. HasFor(i)
  BY <1>1, <1>4 DEF HasFor
<1>6. PICK f \in DOMAIN rows : f = FirstFor(i) /\ rows[f].id = i
  BY <1>1, <1>5, FirstRow
<1>7. rows[f] \in Rows /\ rows[f].hash \in Hashes
  <2>1. rows \in Seq(Rows)
    BY <1>1 DEF TypeOK
  <2>2. rows[f] \in Rows
    BY <2>1
  <2> QED BY <2>2 DEF Rows
<1>8. RowOf(rows[f].hash) = rows[f]
  BY <1>1, RowIs
<1>9. Names(rows[f].hash, i) /\ rows[f].hash \in Torrents \cup Legacy
  BY <1>1, <1>6, <1>7, <1>8 DEF RowStands
<1>10. Names(t, i)
  BY <1>1, <1>2 DEF RowStands
<1>11. rows[f].hash = t
  BY <1>1, <1>9, <1>10, HashAssumption, LegacyAssumption DEF Names
<1> QED BY <1>1, <1>2, <1>5, <1>6, <1>8, <1>11

\* A hash that torrent-add answered with goes on to name that transfer in
\* torrent-get, torrent-set and torrent-remove, whatever other calls, lost
\* answers and removals by the UI come between.
THEOREM AnsweredHashHolds == Spec => []AddedKeepsItsHash
<1>1. HashInv => AddedKeepsItsHash
  <2> SUFFICES ASSUME HashInv, NEW t \in Torrents, answered[t] \in Listed
               PROVE  ListedAs(answered[t]) = t /\ RowOf(t).id = answered[t]
    BY DEF AddedKeepsItsHash
  <2>1. answered[t] # None
    BY HashAssumption DEF Listed
  <2> QED BY <2>1, AnsweredRow DEF ListedAs
<1> QED BY <1>1, HashInvariant, PTL

\* The criteria a torrent is judged by are those *arr set for its hash.
THEOREM GoalsHold == Spec => []GoalsAreFollowed
<1>1. HashInv => GoalsAreFollowed
  <2> SUFFICES ASSUME HashInv, NEW t \in Torrents, answered[t] \in Listed
               PROVE  CriteriaOf(answered[t]) = wanted[t]
    BY DEF GoalsAreFollowed
  <2>1. answered[t] # None
    BY HashAssumption DEF Listed
  <2>2. RowOf(t).criteria = wanted[t]
    BY DEF HashInv, TableInv, GoalKept, Hashes
  <2> QED BY <2>1, <2>2, AnsweredRow DEF CriteriaOf
<1> QED BY <1>1, HashInvariant, PTL

\* A step that takes a transfer off Put.io is the cancellation of a call.
LEMMA OnlyCancelsRemove ==
    ASSUME HashInv, [Next]_vars, NEW i \in Listed, state'[i] = "gone"
    PROVE  \E c \in Calls : Cancels(c) /\ call[c].id = i
<1>1. state \in [Ids -> {"unused", "downloading", "finished", "gone"}] /\ i \in Ids
      /\ state[i] \in {"downloading", "finished"}
  BY DEF HashInv, TypeOK, Listed
<1>2. state' # state
  BY <1>1
<1>3. CASE UNCHANGED vars
  BY <1>2, <1>3 DEF vars, putio
<1>4. ASSUME NEW c, ArrBegins(c) PROVE FALSE
  BY <1>2, <1>4 DEF ArrBegins, TorrentAdd, TorrentSet, TorrentRemove, Begin, putio
<1>5. ASSUME NEW c, UIDelete(c) PROVE FALSE
  BY <1>2, <1>5 DEF UIDelete, Begin, putio
<1>6. ASSUME NEW c \in Calls, Step(c) PROVE Cancels(c) /\ call[c].id = i
  <2>1. CASE Cancels(c)
    BY <1>1, <2>1 DEF Cancels
  <2>2. CASE Adds(c)
    BY <1>1, <2>2 DEF Adds
  <2>3. CASE Lists(c) \/ Resolves(c) \/ Associates(c) \/ Updates(c) \/ ResolvesAgain(c)
    BY <1>2, <2>3 DEF Lists, Resolves, Associates, Updates, ResolvesAgain, putio
  <2>4. CASE Finds(c) \/ AnswersAbsent(c) \/ Purges(c) \/ Forgets(c) \/ Fails(c)
    BY <1>2, <2>4 DEF Finds, AnswersAbsent, Purges, Forgets, Fails, putio
  <2> QED BY <1>6, <2>1, <2>2, <2>3, <2>4 DEF Step
<1>7. ASSUME NEW j \in Ids, Completes(j) PROVE FALSE
  BY <1>1, <1>7 DEF Completes
<1> QED BY <1>3, <1>4, <1>5, <1>6, <1>7 DEF Next

\* A call that has cancelled a transfer has moved on.
LEMMA CancelsMoves ==
    ASSUME HashInv, NEW c \in Calls, Cancels(c)
    PROVE  call'[c] # call[c]
<1>1. call[c].pc = "cancel" /\ call[c] \in CallRecords /\ call \in [Calls -> CallRecords]
  BY CallType DEF HashInv, Cancels
<1>2. CASE Goto(c, "purge")
  BY <1>1, <1>2 DEF Goto, CallRecords
<1>3. CASE AfterRemoval(c)
  <2>1. PICK new \in CallRecords :
              /\ call' = [call EXCEPT ![c] = new]
              /\ new = Idle \/ new.pc = "forget"
    BY <1>1, <1>3, AfterRemovalIs
  <2>2. call'[c] = new /\ new.pc # "cancel"
    BY <1>1, <2>1, IdleIs
  <2> QED BY <1>1, <2>2
<1> QED BY <1>2, <1>3 DEF Cancels

\* Only the transfer that was meant is taken off Put.io, of several of one
\* torrent the one torrent-add had answered with.
THEOREM RemovalsAreMeant == Spec => RemovesOnlyWhatWasMeant
<1>1. HashInv /\ [Next]_vars =>
        [\A i \in Listed : state'[i] = "gone" =>
            \E c \in Calls :
                LET h == call[c].hash
                IN  /\ call'[c] # call[c]
                    /\ \/ call[c].op = "delete" /\ call[c].id = i
                       \/ /\ call[c].op = "remove" /\ h \in {torrent[i], i}
                          /\ h \in Torrents /\ answered[h] \in Listed => answered[h] = i]_vars
  <2> SUFFICES ASSUME HashInv, [Next]_vars, NEW i \in Listed, state'[i] = "gone"
               PROVE  \E c \in Calls :
                LET h == call[c].hash
                IN  /\ call'[c] # call[c]
                    /\ \/ call[c].op = "delete" /\ call[c].id = i
                       \/ /\ call[c].op = "remove" /\ h \in {torrent[i], i}
                          /\ h \in Torrents /\ answered[h] \in Listed => answered[h] = i
    OBVIOUS
  <2>1. PICK c \in Calls : Cancels(c) /\ call[c].id = i
    BY OnlyCancelsRemove
  <2>2. call'[c] # call[c]
    BY <2>1, CancelsMoves
  <2>3. /\ call[c].pc = "cancel" /\ call[c] \in CallRecords /\ CallFits(c) /\ CallStands(c)
        /\ i # None /\ None \notin Listed
    BY <2>1, CallType, HashAssumption DEF HashInv, Cancels, Listed
  <2>4. call[c].op \in {"remove", "delete"}
    BY <2>3 DEF CallFits, CallRecords
  <2>5. call[c].op = "remove" => call[c].hash # None
    BY <2>3, HashAssumption, LegacyAssumption DEF CallFits
  <2> QED BY <2>1, <2>2, <2>3, <2>4, <2>5 DEF CallStands, Names
<1> QED BY <1>1, HashInvariant, PTL DEF Spec, RemovesOnlyWhatWasMeant
=============================================================================
