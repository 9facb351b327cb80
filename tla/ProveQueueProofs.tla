--------------------------- MODULE ProveQueueProofs ---------------------------
(***************************************************************************)
(* Proofs about ProveQueue for every finite set of jobs and every pair of  *)
(* limits with MAX_QUEUED < MAX_JOBS_RETAINED: the type invariant, the     *)
(* bounds of the table, that no unfinished job is ever evicted, that every *)
(* queued frame can be reached, and that the queue implements JobBoard.    *)
(***************************************************************************)
EXTENDS ProveQueue, FiniteSetTheorems, SequenceTheorems,
        WellFoundedInduction, TLAPS

\* An id that no caller was given has no row, so an insert never doubles one.
IdleHasNoRow == \A j \in Jobs : reply[j] \in {"IDLE", "FULL"} => table[j] = "ABSENT"

\* The row that is being proved is the worker's, and the worker has one job.
ProvingIsHeld ==
  /\ \A j, k \in current : j = k
  /\ \A j \in Jobs : table[j] = "PROVING" => j \in current /\ worker \in {"PROVING", "GONE"}

Limits == Len(order) <= MAX_JOBS_RETAINED /\ queued_count <= MAX_QUEUED

\* The inductive invariant.
QueueInv ==
  /\ TypeOK
  /\ IdleHasNoRow
  /\ ProvingIsHeld
  /\ OrderMatchesTable
  /\ Limits

--------------------------------------------------------------------------------
\* A sequence without repetitions is as long as the set of its elements is
\* large: the row count (order) and the rows (table) can be compared.
LEMMA DistinctLength ==
  ASSUME NEW S, NEW s \in Seq(S),
         \A i, k \in 1..Len(s) : s[i] = s[k] => i = k
  PROVE  LET T == {s[i] : i \in 1..Len(s)}
         IN  IsFiniteSet(T) /\ Cardinality(T) = Len(s)
<1> DEFINE T == {s[i] : i \in 1..Len(s)}
<1>1. s \in [1..Len(s) -> S] /\ Len(s) \in Nat
  BY LenProperties
<1>2. [i \in 1..Len(s) |-> s[i]] \in Bijection(1..Len(s), T)
  BY <1>1 DEF Bijection, Injection, Surjection, IsInjective
<1>3. ExistsBijection(1..Len(s), T)
  BY <1>2 DEF ExistsBijection
<1>4. IsFiniteSet(T)
  BY <1>1, <1>3, FS_NatBijection
<1>5. Cardinality(T) = Len(s)
  BY <1>1, <1>3, FS_CountingElements
<1> QED
  BY <1>4, <1>5

\* The place evict picks is the first finished one.
LEMMA EvictPlaceIsFinished ==
  ASSUME NEW ord \in Seq(Jobs), NEW tab, FinishedPlaces(ord, tab) # {}
  PROVE  EvictPlace(ord, tab) \in FinishedPlaces(ord, tab)
<1> DEFINE F == FinishedPlaces(ord, tab)
<1>1. F \in SUBSET Nat /\ F # {}
  BY LenProperties DEF FinishedPlaces
<1> DEFINE R == {ss \in Nat \X Nat : ss[1] < ss[2]}
<1>2. IsWellFoundedOn(R, Nat)
  BY NatLessThanWellFounded DEF OpToRel
<1>3. PICK i \in F : \A k \in F : <<k, i>> \notin R
  BY <1>1, <1>2, WFMin
<1>4. ASSUME NEW k \in F
      PROVE  i <= k
  <2>1. i \in Nat /\ k \in Nat
    BY <1>1
  <2>2. k < i => <<k, i>> \in R
    BY <2>1
  <2>3. ~(k < i)
    BY <1>3, <2>2
  <2> QED
    BY <2>1, <2>3
<1> QED
  BY <1>3, <1>4 DEF EvictPlace

\* Taking place p out of a sequence without repetitions, by rotation, removes
\* exactly that element.
LEMMA RotateOut ==
  ASSUME NEW s \in Seq(Jobs), NEW p \in 1..Len(s),
         \A i, k \in 1..Len(s) : s[i] = s[k] => i = k
  PROVE  LET r == SubSeq(s, p + 1, Len(s)) \o SubSeq(s, 1, p - 1)
         IN  /\ r \in Seq(Jobs)
             /\ Len(r) = Len(s) - 1
             /\ {r[i] : i \in 1..Len(r)} = {s[i] : i \in 1..Len(s)} \ {s[p]}
             /\ \A i, k \in 1..Len(r) : r[i] = r[k] => i = k
<1> DEFINE n == Len(s)
           a == SubSeq(s, p + 1, n)
           b == SubSeq(s, 1, p - 1)
           r == a \o b
           At(i) == IF i <= n - p THEN p + i ELSE i - (n - p)
<1>1. n \in Nat /\ p \in 1..n /\ \A i \in 1..n : s[i] \in Jobs
  BY LenProperties, ElementOfSeq
<1>2. a \in Seq(Jobs) /\ Len(a) = n - p /\ \A i \in 1..(n - p) : a[i] = s[p + i]
  <2>1. /\ a \in Seq(Jobs)
        /\ Len(a) = IF p + 1 <= n THEN n - (p + 1) + 1 ELSE 0
        /\ \A i \in 1..(n - (p + 1) + 1) : a[i] = s[(p + 1) + i - 1]
    BY <1>1, SubSeqProperties, p + 1 \in Int, n \in Int, \A i \in (p + 1)..n : s[i] \in Jobs
  <2> QED
    BY <1>1, <2>1
<1>3. b \in Seq(Jobs) /\ Len(b) = p - 1 /\ \A i \in 1..(p - 1) : b[i] = s[i]
  <2>1. /\ b \in Seq(Jobs)
        /\ Len(b) = IF 1 <= p - 1 THEN (p - 1) - 1 + 1 ELSE 0
        /\ \A i \in 1..((p - 1) - 1 + 1) : b[i] = s[1 + i - 1]
    BY <1>1, SubSeqProperties, p - 1 \in Int, 1 \in Int, \A i \in 1..(p - 1) : s[i] \in Jobs
  <2> QED
    BY <1>1, <2>1
<1> HIDE DEF a, b
<1>4. /\ r \in Seq(Jobs)
      /\ Len(r) = Len(a) + Len(b)
      /\ \A i \in 1..(Len(a) + Len(b)) :
            r[i] = IF i <= Len(a) THEN a[i] ELSE b[i - Len(a)]
  <2>1. a \in Seq(Jobs) /\ b \in Seq(Jobs)
    BY <1>2, <1>3
  <2> QED
    BY ONLY <2>1, ConcatProperties
<1> HIDE DEF r
<1>5. Len(r) = n - 1 /\ \A i \in 1..(n - 1) : r[i] = s[At(i)] /\ At(i) \in 1..n /\ At(i) # p
  BY <1>1, <1>2, <1>3, <1>4
<1>6. \A i, k \in 1..(n - 1) : At(i) = At(k) => i = k
  BY <1>1
<1>7. \A i, k \in 1..Len(r) : r[i] = r[k] => i = k
  BY <1>5, <1>6
<1>8. ASSUME NEW m \in 1..n, m # p
      PROVE  \E i \in 1..(n - 1) : At(i) = m
  <2>1. CASE m > p
    <3>1. m - p \in 1..(n - 1) /\ At(m - p) = m
      BY <1>1, <2>1
    <3> QED
      BY <3>1
  <2>2. CASE m < p
    <3>1. m + (n - p) \in 1..(n - 1) /\ At(m + (n - p)) = m
      BY <1>1, <2>2
    <3> QED
      BY <3>1
  <2> QED
    BY <1>1, <1>8, <2>1, <2>2
<1>9. {r[i] : i \in 1..Len(r)} = {s[i] : i \in 1..n} \ {s[p]}
  <2>1. ASSUME NEW x \in {r[i] : i \in 1..Len(r)}
        PROVE  x \in {s[k] : k \in 1..n} \ {s[p]}
    <3>1. PICK i \in 1..(n - 1) : x = r[i]
      BY <1>5
    <3>2. PICK m \in 1..n : x = s[m] /\ m # p
      BY <1>5, <3>1
    <3> QED
      BY <1>1, <3>2
  <2>2. ASSUME NEW x \in {s[k] : k \in 1..n} \ {s[p]}
        PROVE  x \in {r[i] : i \in 1..Len(r)}
    <3>1. PICK m \in 1..n : x = s[m] /\ m # p
      OBVIOUS
    <3>2. PICK i \in 1..(n - 1) : At(i) = m
      BY <1>8, <3>1
    <3> QED
      BY <1>5, <3>1, <3>2
  <2> QED
    BY <2>1, <2>2
<1> QED
  BY <1>4, <1>5, <1>7, <1>9 DEF a, b, r

--------------------------------------------------------------------------------
\* The jobs being proved are one at most, because they are all the worker's.
LEMMA OneProving ==
  ASSUME NEW S \in SUBSET Jobs, \A j, k \in S : j = k
  PROVE  IsFiniteSet(S) /\ Cardinality(S) <= 1
<1>1. CASE S = {}
  BY <1>1, FS_EmptySet
<1>2. CASE S # {}
  <2>1. PICK j \in S : TRUE
    BY <1>2
  <2>2. S = {j}
    BY <2>1
  <2>3. IsFiniteSet({j}) /\ Cardinality({j}) = 1
    BY FS_Singleton
  <2> QED
    BY <2>2, <2>3
<1> QED
  BY <1>1, <1>2

\* What Jobs::insert leaves behind when enqueue's guard let it run: the row and
\* the order agree, both limits hold, and only a finished row went.
LEMMA InsertKeeps ==
  ASSUME QueueInv, NEW j \in Jobs, reply[j] = "IDLE",
         queued_count < MAX_QUEUED, Insert(j)
  PROVE  /\ table' \in [Jobs -> JobStatus \cup {"ABSENT"}]
         /\ order' \in Seq(Jobs)
         /\ OrderMatchesTable'
         /\ Limits'
         /\ \A k \in Jobs : table'[k] = "PROVING" => table[k] = "PROVING"
         /\ \A k \in Jobs : k # j /\ table[k] = "ABSENT" => table'[k] = "ABSENT"
         /\ \A k \in Jobs : table'[k] = "ABSENT" => table[k] \in Terminal \cup {"ABSENT"}
<1> DEFINE tab == [table EXCEPT ![j] = "QUEUED"]
           ord == Append(order, j)
           at  == EvictPlace(ord, tab)
           QS  == {k \in Jobs : tab[k] = "QUEUED"}
           PS  == {k \in Jobs : table[k] = "PROVING"}
           Ids == {ord[i] : i \in 1..Len(ord)}
<1>1. /\ table[j] = "ABSENT"
      /\ table \in [Jobs -> JobStatus \cup {"ABSENT"}]
      /\ order \in Seq(Jobs)
  BY DEF QueueInv, IdleHasNoRow, TypeOK
<1>2. /\ tab \in [Jobs -> JobStatus \cup {"ABSENT"}]
      /\ tab[j] = "QUEUED"
      /\ \A k \in Jobs : k # j => tab[k] = table[k]
  BY <1>1 DEF JobStatus
<1>3. /\ ord \in Seq(Jobs)
      /\ Len(order) \in Nat
      /\ Len(ord) = Len(order) + 1
      /\ ord[Len(order) + 1] = j
      /\ \A i \in 1..Len(order) : ord[i] = order[i] /\ order[i] \in Jobs
  BY <1>1, AppendProperties, LenProperties, ElementOfSeq
<1> HIDE DEF tab, ord
<1>4. Ids = {k \in Jobs : tab[k] # "ABSENT"}
  <2>1. {order[i] : i \in 1..Len(order)} = {k \in Jobs : table[k] # "ABSENT"}
    BY DEF QueueInv, OrderMatchesTable, Rows
  <2>2. ASSUME NEW x \in Ids
        PROVE  x \in Jobs /\ tab[x] # "ABSENT"
    <3>1. PICK i \in 1..Len(ord) : x = ord[i]
      OBVIOUS
    <3>2. CASE i = Len(order) + 1
      BY <1>2, <1>3, <3>1, <3>2
    <3>3. CASE i \in 1..Len(order)
      <4>1. x \in {k \in Jobs : table[k] # "ABSENT"}
        BY <1>3, <2>1, <3>1, <3>3
      <4> QED
        BY <1>1, <1>2, <4>1
    <3> QED
      BY <1>3, <3>2, <3>3
  <2>3. ASSUME NEW x \in Jobs, tab[x] # "ABSENT"
        PROVE  x \in Ids
    <3>1. CASE x = j
      BY <1>3, <3>1
    <3>2. CASE x # j
      <4>1. PICK i \in 1..Len(order) : x = order[i]
        BY <1>2, <2>1, <2>3, <3>2
      <4> QED
        BY <1>3, <4>1
    <3> QED
      BY <3>1, <3>2
  <2> QED
    BY <2>2, <2>3
<1>5. \A i, k \in 1..Len(ord) : ord[i] = ord[k] => i = k
  <2>1. \A i \in 1..Len(order) : order[i] # j
    BY <1>1 DEF QueueInv, OrderMatchesTable, Rows
  <2>2. \A i, k \in 1..Len(order) : order[i] = order[k] => i = k
    BY DEF QueueInv, OrderMatchesTable
  <2> QED
    BY <1>3, <2>1, <2>2
<1>6. IsFiniteSet(QS) /\ Cardinality(QS) \in Nat /\ Cardinality(QS) <= MAX_QUEUED
  <2>1. Queued \in SUBSET Jobs /\ IsFiniteSet(Queued)
    BY JobsAssumption, FS_Subset DEF Queued
  <2>2. QS = Queued \cup {j} /\ j \notin Queued
    BY <1>1, <1>2 DEF Queued
  <2>3. IsFiniteSet(QS) /\ Cardinality(QS) = queued_count + 1
    BY <2>1, <2>2, FS_AddElement DEF queued_count
  <2>4. queued_count \in Nat
    BY <2>1, FS_CardinalityType DEF queued_count
  <2> QED
    BY <2>3, <2>4, LimitsAssumption
<1>7. CASE ~MustEvict(ord, tab)
  <2>1. table' = tab /\ order' = ord
    BY <1>7 DEF Insert, tab, ord
  <2>2. Len(ord) <= MAX_JOBS_RETAINED
    <3>1. CASE FinishedPlaces(ord, tab) = {}
      <4>1. Ids \subseteq QS \cup PS
        <5>1. \A i \in 1..Len(ord) : tab[ord[i]] \notin Terminal
          BY <3>1 DEF FinishedPlaces
        <5>2. \A x \in Ids : tab[x] \in {"QUEUED", "PROVING"}
          BY <1>2, <1>4, <5>1 DEF JobStatus
        <5> QED
          BY <1>2, <1>4, <5>2
      <4>2. \A x, y \in PS : x = y
        BY DEF QueueInv, ProvingIsHeld
      <4>3. PS \in SUBSET Jobs /\ IsFiniteSet(PS) /\ Cardinality(PS) <= 1 /\ Cardinality(PS) \in Nat
        BY <4>2, OneProving, FS_CardinalityType
      <4>4. IsFiniteSet(QS \cup PS) /\ Cardinality(QS \cup PS) <= Cardinality(QS) + Cardinality(PS)
        <5>1. /\ IsFiniteSet(QS \cup PS)
              /\ Cardinality(QS \cup PS) = Cardinality(QS) + Cardinality(PS) - Cardinality(QS \cap PS)
          BY <1>6, <4>3, FS_Union
        <5>2. Cardinality(QS \cap PS) \in Nat
          BY <1>6, FS_Intersection, FS_CardinalityType
        <5> QED
          BY <1>6, <4>3, <5>1, <5>2
      <4>5. Cardinality(Ids) <= Cardinality(QS \cup PS) /\ Cardinality(QS \cup PS) \in Nat
        BY <4>1, <4>4, FS_Subset, FS_CardinalityType
      <4>6. Cardinality(Ids) = Len(ord)
        BY <1>3, <1>5, DistinctLength
      <4> QED
        BY <1>3, <1>6, <4>3, <4>4, <4>5, <4>6, LimitsAssumption
    <3>2. CASE FinishedPlaces(ord, tab) # {}
      BY <1>3, <1>7, <3>2, LimitsAssumption DEF MustEvict
    <3> QED
      BY <3>1, <3>2
  <2>3. OrderMatchesTable'
    BY <1>4, <1>5, <2>1 DEF OrderMatchesTable, Rows
  <2>4. Limits'
    BY <1>6, <2>1, <2>2 DEF Limits, queued_count, Queued
  <2> QED
    BY <1>1, <1>2, <1>3, <2>1, <2>3, <2>4
<1>8. CASE MustEvict(ord, tab)
  <2> DEFINE r == SubSeq(ord, at + 1, Len(ord)) \o SubSeq(ord, 1, at - 1)
  <2>1. table' = [tab EXCEPT ![ord[at]] = "ABSENT"] /\ order' = r
    BY <1>8 DEF Insert, tab, ord
  <2>2. at \in 1..Len(ord) /\ tab[ord[at]] \in Terminal
    <3>1. at \in FinishedPlaces(ord, tab)
      BY <1>3, <1>8, EvictPlaceIsFinished DEF MustEvict
    <3> QED
      BY <3>1 DEF FinishedPlaces
  <2> HIDE DEF at
  <2>3. /\ r \in Seq(Jobs)
        /\ Len(r) = Len(ord) - 1
        /\ {r[i] : i \in 1..Len(r)} = Ids \ {ord[at]}
        /\ \A i, k \in 1..Len(r) : r[i] = r[k] => i = k
    BY <1>3, <1>5, <2>2, RotateOut
  <2> HIDE DEF r
  <2>4. ord[at] \in Jobs /\ ord[at] # j
    BY <1>2, <1>3, <1>4, <2>2 DEF Terminal
  <2>5. /\ table' \in [Jobs -> JobStatus \cup {"ABSENT"}]
        /\ table'[ord[at]] = "ABSENT"
        /\ \A k \in Jobs : k # ord[at] => table'[k] = tab[k]
    BY <1>2, <2>1, <2>4
  <2>6. OrderMatchesTable'
    <3>1. {k \in Jobs : table'[k] # "ABSENT"} = Ids \ {ord[at]}
      BY <1>4, <2>4, <2>5
    <3>2. {r[i] : i \in 1..Len(r)} = {k \in Jobs : table'[k] # "ABSENT"}
      BY <2>3, <3>1
    <3>3. \A i, k \in 1..Len(r) : r[i] = r[k] => i = k
      BY <2>3
    <3> QED
      BY <2>1, <3>2, <3>3 DEF OrderMatchesTable, Rows
  <2>7. Limits'
    <3>1. {k \in Jobs : table'[k] = "QUEUED"} \subseteq QS
      BY <2>4, <2>5
    <3>2. Cardinality({k \in Jobs : table'[k] = "QUEUED"}) <= MAX_QUEUED
      BY <1>6, <3>1, FS_Subset, FS_CardinalityType, LimitsAssumption
    <3>3. Len(order') <= MAX_JOBS_RETAINED
      BY <1>3, <2>1, <2>3, LimitsAssumption DEF QueueInv, Limits
    <3> QED
      BY <3>2, <3>3 DEF Limits, queued_count, Queued
  <2>8. table[ord[at]] \in Terminal
    BY <1>2, <2>2, <2>4
  <2> QED
    BY <1>1, <1>2, <2>1, <2>3, <2>4, <2>5, <2>6, <2>7, <2>8
<1> QED
  BY <1>7, <1>8

--------------------------------------------------------------------------------
\* The daemon starts with an empty table, so the inductive invariant holds.
LEMMA InitEstablishes == Init => QueueInv
<1> SUFFICES ASSUME Init
             PROVE  QueueInv
  OBVIOUS
<1>1. TypeOK
  BY BootsAssumption DEF Init, TypeOK, Reply
<1>2. IdleHasNoRow /\ ProvingIsHeld
  BY DEF Init, IdleHasNoRow, ProvingIsHeld
<1>3. OrderMatchesTable
  <2>1. Len(order) = 0
    BY DEF Init
  <2>2. Rows = {}
    BY DEF Init, Rows
  <2> QED
    BY <2>1, <2>2 DEF OrderMatchesTable
<1>4. Limits
  <2>1. Queued = {}
    BY DEF Init, Queued
  <2>2. queued_count = 0
    BY <2>1, FS_EmptySet DEF queued_count
  <2> QED
    BY <2>2, LimitsAssumption DEF Init, Limits
<1> QED
  BY <1>1, <1>2, <1>3, <1>4 DEF QueueInv

\* A step that moves one row between statuses other than ABSENT, and never to
\* QUEUED, keeps the order in step with the table and the backlog bounded.
LEMMA UpdateKeeps ==
  ASSUME QueueInv, NEW j \in Jobs, NEW s \in JobStatus \ {"QUEUED"},
         Update(j, s), order' = order
  PROVE  /\ table' \in [Jobs -> JobStatus \cup {"ABSENT"}]
         /\ OrderMatchesTable'
         /\ Limits'
         /\ \A k \in Jobs : (table'[k] = "ABSENT") = (table[k] = "ABSENT")
         /\ \A k \in Jobs : k # j => table'[k] = table[k]
         /\ table[j] # "ABSENT" => table'[j] = s
<1>1. table \in [Jobs -> JobStatus \cup {"ABSENT"}]
  BY DEF QueueInv, TypeOK
<1>2. /\ table' \in [Jobs -> JobStatus \cup {"ABSENT"}]
      /\ \A k \in Jobs : (table'[k] = "ABSENT") = (table[k] = "ABSENT")
      /\ \A k \in Jobs : k # j => table'[k] = table[k]
      /\ table[j] # "ABSENT" => table'[j] = s
  BY <1>1 DEF Update, JobStatus, Terminal
<1>3. Rows' = Rows
  BY <1>2 DEF Rows
<1>4. OrderMatchesTable'
  BY <1>3 DEF QueueInv, OrderMatchesTable
<1>5. Queued' \subseteq Queued
  BY <1>1, <1>2 DEF Queued
<1>6. queued_count' <= queued_count /\ queued_count \in Nat /\ queued_count' \in Nat
  <2>1. IsFiniteSet(Queued)
    BY JobsAssumption, FS_Subset DEF Queued
  <2> QED
    BY <1>5, <2>1, FS_Subset, FS_CardinalityType DEF queued_count
<1>7. Limits'
  BY <1>6, LimitsAssumption DEF QueueInv, Limits
<1> QED
  BY <1>2, <1>4, <1>7

\* A step that leaves the table and its order alone keeps what is said of them.
LEMMA TableUntouched ==
  ASSUME QueueInv, table' = table, order' = order
  PROVE  OrderMatchesTable' /\ Limits'
BY DEF QueueInv, OrderMatchesTable, Limits, Rows, queued_count, Queued

\* Every critical section of a caller or of the worker, a panic and a restart
\* keep the inductive invariant.
LEMMA StepKeeps == QueueInv /\ [Next]_vars => QueueInv'
<1> SUFFICES ASSUME QueueInv, [Next]_vars
             PROVE  QueueInv'
  OBVIOUS
<1> USE DEF QueueInv
<1>1. ASSUME NEW j \in Jobs, EnqueueInsert(j)
      PROVE  QueueInv'
  <2>1. /\ table' \in [Jobs -> JobStatus \cup {"ABSENT"}]
        /\ order' \in Seq(Jobs)
        /\ OrderMatchesTable'
        /\ Limits'
        /\ \A k \in Jobs : table'[k] = "PROVING" => table[k] = "PROVING"
        /\ \A k \in Jobs : k # j /\ table[k] = "ABSENT" => table'[k] = "ABSENT"
    BY <1>1, InsertKeeps DEF EnqueueInsert
  <2>2. TypeOK'
    BY <1>1, <2>1 DEF EnqueueInsert, TypeOK, Reply
  <2>3. IdleHasNoRow'
    BY <1>1, <2>1 DEF EnqueueInsert, TypeOK, IdleHasNoRow
  <2>4. ProvingIsHeld'
    BY <1>1, <2>1 DEF EnqueueInsert, ProvingIsHeld
  <2> QED
    BY <2>1, <2>2, <2>3, <2>4
<1>2. ASSUME NEW j \in Jobs, EnqueueFull(j)
      PROVE  QueueInv'
  <2>1. TypeOK'
    BY <1>2 DEF EnqueueFull, TypeOK, Reply
  <2>2. IdleHasNoRow'
    BY <1>2 DEF EnqueueFull, TypeOK, IdleHasNoRow
  <2>3. ProvingIsHeld'
    BY <1>2 DEF EnqueueFull, ProvingIsHeld
  <2> QED
    BY <1>2, <2>1, <2>2, <2>3, TableUntouched DEF EnqueueFull
<1>3. ASSUME NEW j \in Jobs, EnqueueSend(j)
      PROVE  QueueInv'
  <2>1. TypeOK'
    BY <1>3 DEF EnqueueSend, TypeOK, Reply
  <2>2. IdleHasNoRow'
    BY <1>3 DEF EnqueueSend, TypeOK, IdleHasNoRow
  <2>3. ProvingIsHeld'
    BY <1>3 DEF EnqueueSend, ProvingIsHeld
  <2> QED
    BY <1>3, <2>1, <2>2, <2>3, TableUntouched DEF EnqueueSend
<1>4. ASSUME NEW j \in Jobs, EnqueueWorkerGone(j)
      PROVE  QueueInv'
  <2>1. TypeOK'
    BY <1>4 DEF EnqueueWorkerGone, TypeOK, Reply
  <2>2. IdleHasNoRow'
    BY <1>4 DEF EnqueueWorkerGone, TypeOK, IdleHasNoRow
  <2>3. ProvingIsHeld'
    BY <1>4 DEF EnqueueWorkerGone, ProvingIsHeld
  <2> QED
    BY <1>4, <2>1, <2>2, <2>3, TableUntouched DEF EnqueueWorkerGone
<1>5. CASE WorkerRecv
  <2>1. Head(channel) \in Jobs /\ Tail(channel) \in Seq(Jobs)
    BY <1>5, HeadTailProperties DEF WorkerRecv, TypeOK
  <2>2. TypeOK'
    BY <1>5, <2>1 DEF WorkerRecv, TypeOK
  <2>3. IdleHasNoRow'
    BY <1>5 DEF WorkerRecv, IdleHasNoRow
  <2>4. ProvingIsHeld'
    BY <1>5 DEF WorkerRecv, ProvingIsHeld
  <2> QED
    BY <1>5, <2>2, <2>3, <2>4, TableUntouched DEF WorkerRecv
<1>6. ASSUME NEW j \in Jobs, WorkerStart(j)
      PROVE  QueueInv'
  <2>1. /\ table' \in [Jobs -> JobStatus \cup {"ABSENT"}]
        /\ OrderMatchesTable'
        /\ Limits'
        /\ \A k \in Jobs : (table'[k] = "ABSENT") = (table[k] = "ABSENT")
        /\ \A k \in Jobs : k # j => table'[k] = table[k]
    BY <1>6, UpdateKeeps DEF WorkerStart, JobStatus
  <2>2. TypeOK'
    BY <1>6, <2>1 DEF WorkerStart, TypeOK
  <2>3. IdleHasNoRow'
    BY <1>6, <2>1 DEF WorkerStart, IdleHasNoRow
  <2>4. ProvingIsHeld'
    BY <1>6, <2>1 DEF WorkerStart, ProvingIsHeld
  <2> QED
    BY <2>1, <2>2, <2>3, <2>4
<1>7. ASSUME NEW j \in Jobs, NEW s \in Terminal, WorkerFinish(j, s)
      PROVE  QueueInv'
  <2>1. /\ table' \in [Jobs -> JobStatus \cup {"ABSENT"}]
        /\ OrderMatchesTable'
        /\ Limits'
        /\ \A k \in Jobs : (table'[k] = "ABSENT") = (table[k] = "ABSENT")
        /\ \A k \in Jobs : k # j => table'[k] = table[k]
        /\ table[j] # "ABSENT" => table'[j] = s
    BY <1>7, UpdateKeeps DEF WorkerFinish, JobStatus, Terminal
  <2>2. TypeOK'
    BY <1>7, <2>1 DEF WorkerFinish, TypeOK
  <2>3. IdleHasNoRow'
    BY <1>7, <2>1 DEF WorkerFinish, IdleHasNoRow
  <2>4. ProvingIsHeld'
    <3>1. \A k \in Jobs : table'[k] # "PROVING"
      BY <1>7, <2>1 DEF WorkerFinish, ProvingIsHeld, Terminal
    <3> QED
      BY <1>7, <3>1 DEF WorkerFinish, ProvingIsHeld
  <2> QED
    BY <2>1, <2>2, <2>3, <2>4
<1>8. CASE WorkerPanic
  <2>1. TypeOK'
    BY <1>8 DEF WorkerPanic, TypeOK
  <2>2. IdleHasNoRow'
    BY <1>8 DEF WorkerPanic, IdleHasNoRow
  <2>3. ProvingIsHeld'
    BY <1>8 DEF WorkerPanic, ProvingIsHeld
  <2> QED
    BY <1>8, <2>1, <2>2, <2>3, TableUntouched DEF WorkerPanic
<1>9. CASE Restart
  <2>1. TypeOK'
    BY <1>9, BootsAssumption DEF Restart, TypeOK, Reply
  <2>2. IdleHasNoRow'
    BY <1>9 DEF Restart, IdleHasNoRow
  <2>3. ProvingIsHeld'
    BY <1>9 DEF Restart, ProvingIsHeld
  <2>4. OrderMatchesTable'
    <3>1. order' = <<>> /\ Rows' = {}
      BY <1>9 DEF Restart, Rows
    <3> QED
      BY <3>1 DEF OrderMatchesTable
  <2>5. Limits'
    <3>1. order' = <<>> /\ Queued' = {}
      BY <1>9 DEF Restart, Queued
    <3>2. queued_count' = 0
      BY <3>1, FS_EmptySet DEF queued_count
    <3> QED
      BY <3>1, <3>2, LimitsAssumption DEF Limits
  <2> QED
    BY <2>1, <2>2, <2>3, <2>4, <2>5
<1>10. CASE UNCHANGED vars
  BY <1>10 DEF vars, TypeOK, IdleHasNoRow, ProvingIsHeld, OrderMatchesTable,
               Limits, Rows, queued_count, Queued
<1> QED
  BY <1>1, <1>2, <1>3, <1>4, <1>5, <1>6, <1>7, <1>8, <1>9, <1>10 DEF Next

\* The inductive invariant holds in every state of the queue.
LEMMA Invariance == Spec => []QueueInv
BY InitEstablishes, StepKeeps, PTL DEF Spec

--------------------------------------------------------------------------------
\* The state of the daemon's queue is always of its type.
THEOREM TypeCorrect == Spec => []TypeOK
<1>1. QueueInv => TypeOK
  BY DEF QueueInv
<1> QED
  BY <1>1, Invariance, PTL

\* The table never holds more than MAX_JOBS_RETAINED rows, of which at most
\* MAX_QUEUED wait and one is being proved (queue.rs, enqueue and evict).
THEOREM Bounded == Spec => []TableBounded
<1>1. QueueInv => TableBounded
  <2> SUFFICES ASSUME QueueInv
               PROVE  TableBounded
    OBVIOUS
  <2> DEFINE PS == {j \in Jobs : table[j] = "PROVING"}
  <2>1. \A j, k \in PS : j = k
    BY DEF QueueInv, ProvingIsHeld
  <2>2. Cardinality(PS) <= 1
    BY <2>1, OneProving
  <2> QED
    BY <2>2 DEF QueueInv, Limits, TableBounded
<1> QED
  BY <1>1, Invariance, PTL

\* The eviction order lists the rows of the table, each once, whatever
\* rotations evict has made.
THEOREM OrderIsFaithful == Spec => []OrderMatchesTable
<1>1. QueueInv => OrderMatchesTable
  BY DEF QueueInv
<1> QED
  BY <1>1, Invariance, PTL

\* While the daemon lives, a row that goes was GENERATED or FAILED.
THEOREM UnfinishedStay == Spec => OnlyFinishedEvicted
<1> DEFINE Kept == boots' = boots =>
             \A j \in Jobs : table'[j] = "ABSENT" => table[j] \in Terminal \cup {"ABSENT"}
<1>1. QueueInv /\ [Next]_vars => [Kept]_vars
  <2> SUFFICES ASSUME QueueInv, Next, boots' = boots,
                      NEW k \in Jobs, table'[k] = "ABSENT"
               PROVE  table[k] \in Terminal \cup {"ABSENT"}
    OBVIOUS
  <2>1. ASSUME NEW j \in Jobs, EnqueueInsert(j)
        PROVE  table[k] \in Terminal \cup {"ABSENT"}
    BY <2>1, InsertKeeps DEF EnqueueInsert
  <2>2. ASSUME NEW j \in Jobs, WorkerStart(j)
        PROVE  table[k] \in Terminal \cup {"ABSENT"}
    BY <2>2, UpdateKeeps DEF WorkerStart, JobStatus
  <2>3. ASSUME NEW j \in Jobs, NEW s \in Terminal, WorkerFinish(j, s)
        PROVE  table[k] \in Terminal \cup {"ABSENT"}
    BY <2>3, UpdateKeeps DEF WorkerFinish, JobStatus, Terminal
  <2>4. CASE Restart
    BY <2>4 DEF Restart, QueueInv, TypeOK
  <2>5. CASE table' = table
    BY <2>5
  <2> QED
    BY <2>1, <2>2, <2>3, <2>4, <2>5 DEF Next, EnqueueFull, EnqueueSend,
       EnqueueWorkerGone, WorkerRecv, WorkerPanic
<1> QED
  BY <1>1, Invariance, PTL DEF Spec, OnlyFinishedEvicted
--------------------------------------------------------------------------------
\* What insert does to the rows: the new one is queued, and one finished row at
\* most makes room for it.
LEMMA InsertShape ==
  ASSUME QueueInv, NEW j \in Jobs, reply[j] = "IDLE", Insert(j)
  PROVE  \/ table' = [table EXCEPT ![j] = "QUEUED"]
         \/ \E k \in Jobs : /\ k # j /\ table[k] \in Terminal
                            /\ table' = [table EXCEPT ![j] = "QUEUED", ![k] = "ABSENT"]
<1> DEFINE tab == [table EXCEPT ![j] = "QUEUED"]
           ord == Append(order, j)
           at  == EvictPlace(ord, tab)
<1>1. table \in [Jobs -> JobStatus \cup {"ABSENT"}] /\ order \in Seq(Jobs)
  BY DEF QueueInv, TypeOK
<1>2. /\ ord \in Seq(Jobs)
      /\ \A i \in 1..Len(ord) : ord[i] \in Jobs
  <2>1. ord \in Seq(Jobs)
    BY <1>1, AppendProperties
  <2> QED
    BY <2>1, ElementOfSeq
<1>3. CASE ~MustEvict(ord, tab)
  BY <1>3 DEF Insert
<1>4. CASE MustEvict(ord, tab)
  <2>1. table' = [tab EXCEPT ![ord[at]] = "ABSENT"]
    BY <1>4 DEF Insert
  <2>2. at \in 1..Len(ord) /\ tab[ord[at]] \in Terminal
    <3>1. at \in FinishedPlaces(ord, tab)
      BY <1>2, <1>4, EvictPlaceIsFinished DEF MustEvict
    <3> QED
      BY <3>1 DEF FinishedPlaces
  <2>3. PICK k \in Jobs : k = ord[at]
    BY <1>2, <2>2
  <2>4. k # j /\ table[k] \in Terminal
    BY <1>1, <2>2, <2>3 DEF Terminal
  <2>5. table' = [table EXCEPT ![j] = "QUEUED", ![k] = "ABSENT"]
    BY <2>1, <2>3
  <2> QED
    BY <2>4, <2>5
<1> QED
  BY <1>3, <1>4

\* How a frame travels, in full: a job is the caller's until it is sent, then it has
\* one place in the channel, then it is the worker's, and its row says so.
HandOver ==
  /\ worker = "WAITING" => current = {}
  /\ \A j \in current :
       /\ reply[j] = "OK"
       /\ worker = "RECEIVED" => table[j] = "QUEUED"
       /\ worker = "PROVING" => table[j] = "PROVING"
       /\ \A i \in 1..Len(channel) : channel[i] # j
  /\ \A i \in 1..Len(channel) : reply[channel[i]] = "OK" /\ table[channel[i]] = "QUEUED"
  /\ \A i, k \in 1..Len(channel) : channel[i] = channel[k] => i = k
  /\ \A j \in Jobs : reply[j] = "SENDING" => table[j] = "QUEUED"
  /\ worker # "GONE" =>
       \A j \in Jobs : table[j] = "QUEUED" =>
         \/ reply[j] = "SENDING"
         \/ j \in current /\ worker = "RECEIVED"
         \/ \E i \in 1..Len(channel) : channel[i] = j

\* Every critical section hands the frame over, or leaves it where it is.
LEMMA HandOverKept == QueueInv /\ HandOver /\ [Next]_vars => HandOver'
<1> SUFFICES ASSUME QueueInv, HandOver, [Next]_vars
             PROVE  HandOver'
  OBVIOUS
<1>0. /\ TypeOK
      /\ Len(channel) \in Nat
      /\ \A i \in 1..Len(channel) : channel[i] \in Jobs
  BY LenProperties, ElementOfSeq DEF QueueInv, TypeOK
<1>1. ASSUME NEW j \in Jobs, EnqueueInsert(j)
      PROVE  HandOver'
  <2>1. table'[j] = "QUEUED" /\ reply[j] = "IDLE"
        /\ \A k \in Jobs : k # j =>
             table'[k] = table[k] \/ (table[k] \in Terminal /\ table'[k] = "ABSENT")
    BY <1>0, <1>1, InsertShape DEF EnqueueInsert, TypeOK
  <2>2. UNCHANGED <<channel, worker, current>>
        /\ reply' = [reply EXCEPT ![j] = "SENDING"]
    BY <1>1 DEF EnqueueInsert
  <2>3. \A k \in Jobs : table[k] = "QUEUED" => table'[k] = "QUEUED"
    BY <2>1 DEF Terminal
  <2>4. \A k \in Jobs : table[k] = "PROVING" => table'[k] = "PROVING"
    BY <1>1, <2>1 DEF Terminal, QueueInv, IdleHasNoRow
  <2>5. \A k \in Jobs : k # j /\ table'[k] = "QUEUED" => table[k] = "QUEUED"
    BY <2>1
  <2> QED
    BY <1>0, <2>1, <2>2, <2>3, <2>4, <2>5 DEF HandOver, TypeOK
<1>2. ASSUME NEW j \in Jobs, EnqueueFull(j)
      PROVE  HandOver'
  BY <1>0, <1>2 DEF EnqueueFull, HandOver, TypeOK
<1>3. ASSUME NEW j \in Jobs, EnqueueSend(j)
      PROVE  HandOver'
  <2>1. /\ Len(channel') = Len(channel) + 1
        /\ channel'[Len(channel) + 1] = j
        /\ \A i \in 1..Len(channel) : channel'[i] = channel[i]
    BY <1>3, AppendProperties DEF EnqueueSend, QueueInv, TypeOK
  <2>2. UNCHANGED <<table, worker, current>> /\ reply[j] = "SENDING"
        /\ reply' = [reply EXCEPT ![j] = "OK"]
    BY <1>3 DEF EnqueueSend
  <2>3. j \notin current /\ \A i \in 1..Len(channel) : channel[i] # j
    BY <2>2 DEF HandOver
  <2>4. \A i \in 1..Len(channel') : i = Len(channel) + 1 \/ i \in 1..Len(channel)
    BY <1>0, <2>1
  <2>5. ASSUME NEW k \in Jobs, table'[k] = "QUEUED", worker' # "GONE"
        PROVE  \/ reply'[k] = "SENDING"
               \/ k \in current' /\ worker' = "RECEIVED"
               \/ \E i \in 1..Len(channel') : channel'[i] = k
    <3>1. CASE k = j
      <4>1. Len(channel) + 1 \in 1..Len(channel')
        BY <1>0, <2>1
      <4> QED
        BY <2>1, <3>1, <4>1
    <3>2. CASE k # j
      <4>1. reply'[k] = reply[k]
        BY <1>0, <2>2, <3>2 DEF TypeOK
      <4>2. \A i \in 1..Len(channel) : i \in 1..Len(channel')
        BY <1>0, <2>1
      <4>3. \/ reply[k] = "SENDING"
            \/ k \in current /\ worker = "RECEIVED"
            \/ \E i \in 1..Len(channel) : channel[i] = k
        BY <2>2, <2>5 DEF HandOver
      <4> QED
        BY <2>1, <2>2, <4>1, <4>2, <4>3
    <3> QED
      BY <3>1, <3>2
  <2>6. /\ \A k \in current : k \in Jobs /\ k # j /\ reply'[k] = reply[k]
        /\ \A i \in 1..Len(channel) : channel[i] \in Jobs /\ reply'[channel[i]] = "OK"
        /\ reply'[j] = "OK" /\ table[j] = "QUEUED"
    BY <1>0, <2>2, <2>3 DEF TypeOK, HandOver
  <2>7. \A k \in current' :
          /\ reply'[k] = "OK"
          /\ worker' = "RECEIVED" => table'[k] = "QUEUED"
          /\ worker' = "PROVING" => table'[k] = "PROVING"
          /\ \A i \in 1..Len(channel') : channel'[i] # k
    BY <2>1, <2>2, <2>4, <2>6 DEF HandOver
  <2>8. \A i \in 1..Len(channel') : reply'[channel'[i]] = "OK" /\ table'[channel'[i]] = "QUEUED"
    BY <2>1, <2>2, <2>4, <2>6 DEF HandOver
  <2>9. \A i, k \in 1..Len(channel') : channel'[i] = channel'[k] => i = k
    BY <2>1, <2>3, <2>4 DEF HandOver
  <2>10. \A k \in Jobs : reply'[k] = "SENDING" => table'[k] = "QUEUED"
    BY <1>0, <2>2 DEF HandOver, TypeOK
  <2>11. worker' = "WAITING" => current' = {}
    BY <2>2 DEF HandOver
  <2> QED
    BY <2>5, <2>7, <2>8, <2>9, <2>10, <2>11 DEF HandOver
<1>4. ASSUME NEW j \in Jobs, EnqueueWorkerGone(j)
      PROVE  HandOver'
  BY <1>0, <1>4 DEF EnqueueWorkerGone, HandOver, TypeOK
<1>5. CASE WorkerRecv
  <2>1. UNCHANGED <<table, reply>> /\ worker = "WAITING" /\ worker' = "RECEIVED"
        /\ current' = {Head(channel)} /\ channel' = Tail(channel) /\ channel # <<>>
    BY <1>5 DEF WorkerRecv
  <2>2. /\ Len(channel) >= 1
        /\ Head(channel) = channel[1]
        /\ Len(channel') = Len(channel) - 1
        /\ \A i \in 1..Len(channel') : channel'[i] = channel[i + 1]
    BY <1>0, <2>1, HeadTailProperties DEF TypeOK
  <2>3. \A i \in 1..Len(channel') : i + 1 \in 1..Len(channel) /\ i + 1 # 1
    BY <1>0, <2>2
  <2>4. \A k \in 1..Len(channel) : k = 1 \/ (k - 1 \in 1..Len(channel') /\ channel'[k - 1] = channel[k])
    BY <1>0, <2>2
  <2>5. ASSUME NEW k \in Jobs, table'[k] = "QUEUED"
        PROVE  \/ reply'[k] = "SENDING"
               \/ k \in current'
               \/ \E i \in 1..Len(channel') : channel'[i] = k
    <3>1. CASE reply[k] = "SENDING"
      BY <2>1, <3>1
    <3>2. ASSUME NEW i \in 1..Len(channel), channel[i] = k
          PROVE  k \in current' \/ \E m \in 1..Len(channel') : channel'[m] = k
      BY <2>1, <2>2, <2>4, <3>2
    <3> QED
      BY <2>1, <2>5, <3>1, <3>2 DEF HandOver
  <2>6. 1 \in 1..Len(channel)
    BY <1>0, <2>2
  <2>7. reply'[channel[1]] = "OK" /\ table'[channel[1]] = "QUEUED"
        /\ \A i \in 1..Len(channel') : channel'[i] # channel[1]
    BY <2>1, <2>2, <2>3, <2>6 DEF HandOver
  <2>8. \A i \in 1..Len(channel') : reply'[channel'[i]] = "OK" /\ table'[channel'[i]] = "QUEUED"
    BY <2>1, <2>2, <2>3 DEF HandOver
  <2>9. \A i, k \in 1..Len(channel') : channel'[i] = channel'[k] => i = k
    <3> SUFFICES ASSUME NEW i \in 1..Len(channel'), NEW k \in 1..Len(channel'),
                        channel'[i] = channel'[k]
                 PROVE  i = k
      OBVIOUS
    <3>1. i + 1 = k + 1
      BY <2>2, <2>3 DEF HandOver
    <3> QED
      BY <3>1
  <2> QED
    BY <2>1, <2>2, <2>5, <2>7, <2>8, <2>9 DEF HandOver
<1>6. ASSUME NEW j \in Jobs, WorkerStart(j)
      PROVE  HandOver'
  <2>1. table[j] = "QUEUED" /\ reply[j] = "OK" /\ current = {j}
    BY <1>6 DEF WorkerStart, HandOver, QueueInv, ProvingIsHeld
  <2>2. table' = [table EXCEPT ![j] = "PROVING"]
    BY <1>6, <2>1 DEF WorkerStart, Update
  <2> QED
    BY <1>0, <1>6, <2>1, <2>2 DEF WorkerStart, HandOver, TypeOK
<1>7. ASSUME NEW j \in Jobs, NEW s \in Terminal, WorkerFinish(j, s)
      PROVE  HandOver'
  <2>1. table[j] = "PROVING" /\ reply[j] = "OK" /\ current = {j}
    BY <1>7 DEF WorkerFinish, HandOver, QueueInv, ProvingIsHeld
  <2>2. table' = [table EXCEPT ![j] = s] /\ s # "QUEUED"
    BY <1>7, <2>1 DEF WorkerFinish, Update, Terminal
  <2> QED
    BY <1>0, <1>7, <2>1, <2>2 DEF WorkerFinish, HandOver, TypeOK
<1>8. CASE WorkerPanic
  <2>1. Len(channel') = 0
    BY <1>8 DEF WorkerPanic
  <2> QED
    BY <1>8, <2>1 DEF WorkerPanic, HandOver
<1>9. CASE Restart
  <2>1. Len(channel') = 0 /\ current' = {} /\ \A j \in Jobs : table'[j] = "ABSENT"
    BY <1>9 DEF Restart
  <2>2. \A j \in Jobs : reply'[j] # "SENDING"
    BY <1>9 DEF Restart
  <2> QED
    BY <2>1, <2>2 DEF HandOver
<1>10. CASE UNCHANGED vars
  BY <1>10 DEF vars, HandOver
<1> QED
  BY <1>1, <1>2, <1>3, <1>4, <1>5, <1>6, <1>7, <1>8, <1>9, <1>10 DEF Next

\* Nothing is on its way when the daemon starts.
LEMMA HandOverInvariance == Spec => []HandOver
<1>1. Init => HandOver
  <2> SUFFICES ASSUME Init
               PROVE  HandOver
    OBVIOUS
  <2>1. Len(channel) = 0
    BY DEF Init
  <2> QED
    BY <2>1 DEF Init, HandOver
<1> QED
  BY <1>1, HandOverKept, Invariance, PTL DEF Spec

\* While the worker lives, every queued row has its frame in exactly one of the three
\* places where it will be found: a caller that stalls between its two critical
\* sections, an eviction and a restart in between included.
THEOREM FramesReachable == Spec => []QueuedIsReachable
<1>1. QueueInv /\ HandOver => QueuedIsReachable
  <2> SUFFICES ASSUME QueueInv, HandOver, worker # "GONE", NEW j \in Queued
               PROVE  \/ reply[j] = "SENDING" /\ j \notin current
                           /\ \A i \in 1..Len(channel) : channel[i] # j
                      \/ reply[j] = "OK" /\ j \in current /\ worker = "RECEIVED"
                           /\ \A i \in 1..Len(channel) : channel[i] # j
                      \/ /\ reply[j] = "OK" /\ j \notin current
                         /\ \E i \in 1..Len(channel) :
                              /\ channel[i] = j
                              /\ \A k \in 1..Len(channel) : channel[k] = j => k = i
    BY DEF QueuedIsReachable
  <2>1. j \in Jobs /\ table[j] = "QUEUED"
    BY DEF Queued
  <2>2. CASE reply[j] = "SENDING"
    BY <2>2 DEF HandOver
  <2>3. CASE j \in current /\ worker = "RECEIVED"
    BY <2>3 DEF HandOver
  <2>4. CASE \E i \in 1..Len(channel) : channel[i] = j
    BY <2>4 DEF HandOver
  <2> QED
    BY <2>1, <2>2, <2>3, <2>4 DEF HandOver
<1> QED
  BY <1>1, Invariance, HandOverInvariance, PTL

--------------------------------------------------------------------------------
\* The board a poll sees starts without a job.
LEMMA BoardStarts == Init => Board!BoardInit
BY DEF Init, Board!BoardInit, BoardView

\* Every step of the queue is a step of the board, or leaves what a poll sees alone.
LEMMA BoardSteps == QueueInv /\ HandOver /\ [Next]_vars => [Board!BoardNext]_BoardView
<1> SUFFICES ASSUME QueueInv, HandOver, [Next]_vars
             PROVE  Board!BoardNext \/ BoardView' = BoardView
  OBVIOUS
<1>0. TypeOK /\ IdleHasNoRow
  BY DEF QueueInv
<1>1. ASSUME NEW j \in Jobs, EnqueueInsert(j)
      PROVE  Board!BoardNext
  <2>1. /\ reply[j] = "IDLE" /\ reply' = [reply EXCEPT ![j] = "SENDING"]
        /\ table[j] = "ABSENT" /\ BoardView[j] = "NONE"
    BY <1>0, <1>1 DEF EnqueueInsert, IdleHasNoRow, BoardView
  <2>2. CASE table' = [table EXCEPT ![j] = "QUEUED"]
    <3>1. BoardView' = [BoardView EXCEPT ![j] = "QUEUED"]
      BY <1>0, <2>1, <2>2 DEF BoardView, TypeOK
    <3>2. Board!Accept(j)
      BY <2>1, <3>1 DEF Board!Accept, Board!Move
    <3> QED
      BY <3>2 DEF Board!BoardNext
  <2>3. ASSUME NEW k \in Jobs, k # j, table[k] \in Terminal,
               table' = [table EXCEPT ![j] = "QUEUED", ![k] = "ABSENT"]
        PROVE  Board!BoardNext
    <3>1. reply[k] \notin {"IDLE", "FULL"}
      BY <1>0, <2>3 DEF IdleHasNoRow, Terminal
    <3>2. BoardView' = [BoardView EXCEPT ![j] = "QUEUED", ![k] = "GONE"]
      BY <1>0, <2>1, <2>3, <3>1 DEF BoardView, TypeOK
    <3>3. BoardView[k] \in Board!Finished
      BY <2>3 DEF BoardView, Board!Finished, Terminal
    <3>4. Board!AcceptForgetting(j, k)
      BY <2>1, <2>3, <3>2, <3>3 DEF Board!AcceptForgetting
    <3> QED
      BY <3>4 DEF Board!BoardNext
  <2> QED
    BY <1>1, <2>1, <2>2, <2>3, InsertShape DEF EnqueueInsert
<1>2. ASSUME NEW j \in Jobs, EnqueueFull(j)
      PROVE  BoardView' = BoardView
  BY <1>0, <1>2 DEF EnqueueFull, BoardView, TypeOK
<1>3. ASSUME NEW j \in Jobs, EnqueueSend(j) \/ EnqueueWorkerGone(j)
      PROVE  BoardView' = BoardView
  BY <1>0, <1>3 DEF EnqueueSend, EnqueueWorkerGone, BoardView, TypeOK
<1>4. CASE WorkerRecv \/ WorkerPanic
  BY <1>4 DEF WorkerRecv, WorkerPanic, BoardView
<1>5. ASSUME NEW j \in Jobs, WorkerStart(j)
      PROVE  Board!BoardNext
  <2>1. table[j] = "QUEUED" /\ table' = [table EXCEPT ![j] = "PROVING"] /\ reply' = reply
    BY <1>0, <1>5 DEF WorkerStart, HandOver, Update
  <2>2. BoardView[j] = "QUEUED" /\ BoardView' = [BoardView EXCEPT ![j] = "PROVING"]
    BY <1>0, <2>1 DEF BoardView, TypeOK
  <2>3. Board!StartProving(j)
    BY <2>2 DEF Board!StartProving, Board!Move
  <2> QED
    BY <2>3 DEF Board!BoardNext
<1>6. ASSUME NEW j \in Jobs, NEW s \in Terminal, WorkerFinish(j, s)
      PROVE  Board!BoardNext
  <2>1. table[j] = "PROVING" /\ table' = [table EXCEPT ![j] = s] /\ reply' = reply
    BY <1>0, <1>6 DEF WorkerFinish, HandOver, Update
  <2>2. BoardView[j] = "PROVING" /\ BoardView' = [BoardView EXCEPT ![j] = s]
    BY <1>0, <2>1 DEF BoardView, TypeOK, Terminal
  <2>3. s \in Board!Finished
    BY DEF Board!Finished, Terminal
  <2>4. Board!Finish(j)
    BY <2>2, <2>3 DEF Board!Finish, Board!Move
  <2> QED
    BY <2>4 DEF Board!BoardNext
<1>7. CASE Restart
  <2>1. ASSUME NEW j \in Jobs
        PROVE  BoardView'[j] = IF BoardView[j] = "NONE" THEN "NONE" ELSE "GONE"
    <3>1. /\ table'[j] = "ABSENT"
          /\ reply'[j] = IF reply[j] = "SENDING" THEN "LOST" ELSE reply[j]
      BY <1>7 DEF Restart
    <3>2. table[j] \in JobStatus \cup {"ABSENT"}
      BY <1>0 DEF TypeOK
    <3> QED
      BY <1>0, <3>1, <3>2 DEF BoardView, IdleHasNoRow, JobStatus, Terminal
  <2>2. BoardView' = [j \in Jobs |-> BoardView'[j]]
    BY DEF BoardView
  <2>3. Board!LoseAll
    BY <2>1, <2>2 DEF Board!LoseAll
  <2> QED
    BY <2>3 DEF Board!BoardNext
<1>8. CASE UNCHANGED vars
  BY <1>8 DEF vars, BoardView
<1> QED
  BY <1>1, <1>2, <1>3, <1>4, <1>5, <1>6, <1>7, <1>8 DEF Next

\* The queue implements JobBoard: whoever polls sees a job queued, proved, finished
\* and forgotten in that order only, which is what RequestLifecycle relies on.
THEOREM RefinesBoard == Spec => ImplementsJobBoard
<1>1. QueueInv /\ HandOver /\ [Next]_vars => [Board!BoardNext]_BoardView
  BY BoardSteps
<1> QED
  BY <1>1, BoardStarts, Invariance, HandOverInvariance, PTL
     DEF Spec, ImplementsJobBoard, Board!BoardSpec
================================================================================
