-------------------------- MODULE DailyUsage_proofs --------------------------
(* Proofs about TokenRecorder and DailyUsage, for any models, days and counts. *)
EXTENDS DailyUsage, FiniteSetTheorems, WellFoundedInduction, TLAPS

USE RecorderAssumption

-----------------------------------------------------------------------------
(* Counting *)

LEMMA NoDataType == NoData \in Data
  BY DEF NoData, Data, Counter

LEMMA DataReadable == ASSUME NEW f \in Data PROVE Readable(f)
<1>1. 1 \in Days
  BY DEF Days
<1>2. DOMAIN f = Days /\ DOMAIN Unreadable = {}
  BY DEF Data, Unreadable
<1> QED
  BY <1>1, <1>2 DEF Readable

\* A count changes the day's entry and stays in the type.
LEMMA CountedType ==
    ASSUME NEW data \in Data, NEW m \in Models, NEW n \in Nat, day \in Days
    PROVE  Counted(data, m, n) \in Data
  BY DEF Counted, Data, Counter

LEMMA PlusType == ASSUME NEW f \in Data, NEW g \in Data PROVE Plus(f, g) \in Data
  BY DEF Plus, Data, Counter

LEMMA SameCounters ==
    ASSUME NEW f \in Data, NEW g \in Data,
           \A d \in Days, c \in Counters : f[d][c] = g[d][c]
    PROVE  f = g
<1>1. ASSUME NEW d \in Days PROVE f[d] = g[d]
  BY DEF Data
<1> QED
  BY <1>1 DEF Data

\* Counting on top of a sum adds to its second part.
LEMMA CountedPlus ==
    ASSUME NEW f \in Data, NEW g \in Data, NEW m \in Models, NEW n \in Nat, day \in Days
    PROVE  Counted(Plus(f, g), m, n) = Plus(f, Counted(g, m, n))
<1> DEFINE left == Counted(Plus(f, g), m, n)
           right == Plus(f, Counted(g, m, n))
<1>1. left \in Data /\ right \in Data
  BY CountedType, PlusType
<1>2. ASSUME NEW d \in Days, NEW c \in Counters PROVE left[d][c] = right[d][c]
  <2>1. CASE d = day /\ c \in {All, m}
    BY <2>1 DEF Counted, Plus, Data, Counter
  <2>2. CASE ~(d = day /\ c \in {All, m})
    BY <2>2 DEF Counted, Plus, Data, Counter
  <2> QED
    BY <2>1, <2>2
<1> HIDE DEF left, right
<1>3. left = right
  BY <1>1, <1>2, SameCounters
<1> QED
  BY <1>3 DEF left, right

LEMMA PlusNothing == ASSUME NEW f \in Data PROVE Plus(f, NoData) = f
  BY DEF Plus, NoData, Data, Counter

LEMMA PlusCovers == ASSUME NEW f \in Data, NEW g \in Data PROVE Covers(f, Plus(f, g))
  BY DEF Covers, Plus, Data, Counter

LEMMA CountedCovers ==
    ASSUME NEW f \in Data, NEW data \in Data, NEW m \in Models, NEW n \in Nat,
           day \in Days, Covers(f, data)
    PROVE  Covers(f, Counted(data, m, n))
  BY DEF Covers, Counted, Data, Counter

-----------------------------------------------------------------------------
(* The recorder *)

\* Before the file has been read nothing is in memory.
RecorderInv ==
    /\ RecorderTypeOK
    /\ OnlyFailedWritesAreMissing
    /\ ~loaded => unsaved = NoData

LEMMA KeptType == RecorderTypeOK => Kept \in Data
  BY NoDataType DEF RecorderTypeOK, Kept, Readable

\* What _ensure_loaded leaves in memory: the file and what was counted since, or that
\* alone when the file could not be read.
LEMMA LoadedSum ==
    ASSUME RecorderInv, NEW read \in BOOLEAN, EnsureLoaded(read)
    PROVE  /\ Loaded(read) \in Data
           /\ Loaded(read) = Plus(Kept, unsaved) \/ (missed' /\ Loaded(read) = unsaved)
<1>1. Kept \in Data /\ memory \in Data
  BY KeptType DEF RecorderInv, RecorderTypeOK
<1>2. CASE loaded
  <2>1. Loaded(read) = memory
    BY <1>2 DEF Loaded
  <2>2. missed => missed'
    BY DEF EnsureLoaded
  <2> QED
    BY <1>1, <1>2, <2>1, <2>2 DEF RecorderInv, OnlyFailedWritesAreMissing
<1>3. CASE ~loaded /\ read
  <2>1. Loaded(read) = Kept /\ unsaved = NoData
    BY <1>3 DEF RecorderInv, Loaded
  <2> QED
    BY <1>1, <2>1, PlusNothing
<1>4. CASE ~loaded /\ ~read
  <2>1. Loaded(read) = NoData /\ unsaved = NoData
    BY <1>4 DEF RecorderInv, Loaded
  <2>2. missed'
    BY <1>4 DEF EnsureLoaded
  <2> QED
    BY <2>1, <2>2, NoDataType
<1> QED
  BY <1>2, <1>3, <1>4

LEMMA MissedType ==
    ASSUME NEW read \in BOOLEAN, EnsureLoaded(read)
    PROVE  loaded' /\ loaded' \in BOOLEAN /\ missed' \in BOOLEAN
  BY DEF EnsureLoaded

LEMMA FirstTask ==
    ASSUME RecorderTypeOK, scheduled # <<>>
    PROVE  /\ Head(scheduled).model \in Models /\ Head(scheduled).tokens \in Tokens
           /\ Tail(scheduled) \in Seq([model : Models, tokens : Tokens])
<1> DEFINE S == [model : Models, tokens : Tokens]
<1>1. scheduled \in Seq(S)
  BY DEF RecorderTypeOK
<1> HIDE DEF S
<1>2. Head(scheduled) \in S /\ Tail(scheduled) \in Seq(S)
  BY <1>1
<1> QED
  BY <1>2 DEF S

LEMMA InitRecorder == RecorderInit => RecorderInv
<1> SUFFICES ASSUME RecorderInit PROVE RecorderInv
  OBVIOUS
<1>1. day \in Days
  BY DEF RecorderInit, Days
<1>2. file \in Data \cup {Unreadable}
  <2>1. PICK m \in Models, n \in Tokens \ {0} :
            file \in { Unreadable, NoData, Counted(NoData, m, n),
                       [NoData EXCEPT ![1][All] = [tokens |-> n, requests |-> 1]] }
    BY DEF RecorderInit
  <2>2. Counted(NoData, m, n) \in Data
    BY <1>1, CountedType, NoDataType
  <2>3. [NoData EXCEPT ![1][All] = [tokens |-> n, requests |-> 1]] \in Data
    BY DEF NoData, Data, Counter, Days, Counters
  <2> QED
    BY <2>1, <2>2, <2>3, NoDataType
<1>3. /\ loaded = FALSE /\ memory = NoData /\ scheduled = <<>> /\ made = 0
      /\ unsaved = NoData /\ missed = FALSE
  BY DEF RecorderInit
<1>4. RecorderTypeOK
  <2>1. scheduled \in Seq([model : Models, tokens : Tokens])
    BY <1>3
  <2>2. loaded \in BOOLEAN /\ missed \in BOOLEAN
    BY <1>3
  <2>3. made \in 0..MaxFinishes
    BY <1>3
  <2> QED
    BY <1>1, <1>2, <1>3, <2>1, <2>2, <2>3, NoDataType DEF RecorderTypeOK
<1> QED
  BY <1>3, <1>4 DEF RecorderInv, OnlyFailedWritesAreMissing

LEMMA StepRecorder == RecorderInv /\ [RecorderNext]_recorderVars => RecorderInv'
<1> SUFFICES ASSUME RecorderInv, [RecorderNext]_recorderVars PROVE RecorderInv'
  OBVIOUS
<1>0. Kept \in Data
  BY KeptType DEF RecorderInv
<1>1. ASSUME NEW m \in Models, NEW n \in Tokens, Finish(m, n) PROVE RecorderInv'
  <2>1. scheduled' \in Seq([model : Models, tokens : Tokens]) /\ made' \in 0..MaxFinishes
    BY <1>1 DEF RecorderInv, RecorderTypeOK, Finish
  <2>2. UNCHANGED <<day, loaded, memory, file, unsaved, missed>>
    BY <1>1 DEF Finish
  <2> QED
    BY <2>1, <2>2 DEF RecorderInv, RecorderTypeOK, OnlyFailedWritesAreMissing, Kept, Readable
<1>2. ASSUME NEW read \in BOOLEAN, NEW written \in BOOLEAN, Record(read, written)
      PROVE  RecorderInv'
  <2> DEFINE m == Head(scheduled).model
             n == Head(scheduled).tokens
             data == Loaded(read)
  <2>1. /\ m \in Models /\ n \in Tokens /\ n \in Nat
        /\ scheduled' \in Seq([model : Models, tokens : Tokens])
    BY <1>2, FirstTask DEF Record, RecorderInv, RecorderTypeOK
  <2>2. /\ UNCHANGED <<day, made>>
        /\ n = 0 => memory' = data /\ UNCHANGED <<file, unsaved>>
        /\ n # 0 => /\ memory' = Counted(data, m, n)
                    /\ Writes(written, Counted(data, m, n))
                    /\ ~written => unsaved' = Counted(unsaved, m, n)
    BY <1>2 DEF Record
  <2>a. /\ data \in Data
        /\ data = Plus(Kept, unsaved) \/ (missed' /\ data = unsaved)
    BY <1>2, LoadedSum DEF Record
  <2>b. loaded' /\ loaded' \in BOOLEAN /\ missed' \in BOOLEAN
    BY <1>2, MissedType DEF Record
  <2> HIDE DEF m, n, data
  <2>3. day \in Days /\ unsaved \in Data /\ file \in Data \cup {Unreadable}
        /\ made \in 0..MaxFinishes
    BY DEF RecorderInv, RecorderTypeOK
  <2>4. Counted(data, m, n) \in Data /\ Counted(unsaved, m, n) \in Data
    BY <2>a, <2>1, <2>3, CountedType
  <2>5. CASE n = 0
    <3>1. memory' = data /\ UNCHANGED <<file, unsaved>> /\ Kept' = Kept
      BY <2>2, <2>5 DEF Kept, Readable
    <3>2. memory' = Plus(Kept', unsaved') \/ (missed' /\ memory' = unsaved')
      BY <2>a, <3>1
    <3>3. RecorderTypeOK'
      BY <2>1, <2>2, <2>3, <2>a, <2>b, <3>1 DEF RecorderTypeOK
    <3> QED
      BY <2>b, <3>2, <3>3 DEF RecorderInv, OnlyFailedWritesAreMissing
  <2>6. CASE n # 0 /\ written
    <3>1. file' = Counted(data, m, n) /\ unsaved' = NoData /\ memory' = file'
      BY <2>2, <2>6 DEF Writes
    <3>2. Kept' = file'
      BY <3>1, <2>4, DataReadable DEF Kept, Readable
    <3>3. memory' = Plus(Kept', unsaved')
      BY <3>1, <3>2, <2>4, PlusNothing
    <3>4. RecorderTypeOK'
      BY <2>1, <2>2, <2>3, <2>4, <2>b, <3>1, NoDataType DEF RecorderTypeOK
    <3> QED
      BY <2>b, <3>3, <3>4 DEF RecorderInv, OnlyFailedWritesAreMissing
  <2>7. CASE n # 0 /\ ~written
    <3>1. file' = file /\ unsaved' = Counted(unsaved, m, n) /\ memory' = Counted(data, m, n)
      BY <2>2, <2>7 DEF Writes
    <3>2. Kept' = Kept
      BY <3>1 DEF Kept, Readable
    <3>3. memory' = Plus(Kept', unsaved') \/ (missed' /\ memory' = unsaved')
      <4>1. CASE data = Plus(Kept, unsaved)
        BY <1>0, <2>1, <2>3, <3>1, <3>2, <4>1, CountedPlus
      <4>2. CASE missed' /\ data = unsaved
        BY <3>1, <4>2
      <4> QED
        BY <2>a, <4>1, <4>2
    <3>4. RecorderTypeOK'
      BY <2>1, <2>2, <2>3, <2>4, <2>b, <3>1 DEF RecorderTypeOK
    <3> QED
      BY <2>b, <3>3, <3>4 DEF RecorderInv, OnlyFailedWritesAreMissing
  <2> QED
    BY <2>5, <2>6, <2>7
<1>3. ASSUME NEW read \in BOOLEAN, Query(read) PROVE RecorderInv'
  <2>1. memory' = Loaded(read) /\ UNCHANGED <<day, scheduled, file, made, unsaved>>
    BY <1>3 DEF Query
  <2>2. /\ Loaded(read) \in Data
        /\ Loaded(read) = Plus(Kept, unsaved) \/ (missed' /\ Loaded(read) = unsaved)
    BY <1>3, LoadedSum DEF Query
  <2>3. loaded' /\ loaded' \in BOOLEAN /\ missed' \in BOOLEAN
    BY <1>3, MissedType DEF Query
  <2>4. Kept' = Kept
    BY <2>1 DEF Kept, Readable
  <2>5. memory' = Plus(Kept', unsaved') \/ (missed' /\ memory' = unsaved')
    BY <2>1, <2>2, <2>4
  <2>6. RecorderTypeOK'
    BY <2>1, <2>2, <2>3 DEF RecorderInv, RecorderTypeOK
  <2> QED
    BY <2>3, <2>5, <2>6 DEF RecorderInv, OnlyFailedWritesAreMissing
<1>4. CASE Midnight
  BY <1>4 DEF Midnight, Days, RecorderInv, RecorderTypeOK, OnlyFailedWritesAreMissing, Kept,
     Readable, Data
<1>5. CASE Restart
  <2>1. /\ loaded' = FALSE /\ memory' = NoData /\ scheduled' = <<>> /\ unsaved' = NoData
        /\ UNCHANGED <<day, file, made>> /\ missed' = FALSE
    BY <1>5 DEF Restart
  <2>2. loaded' \in BOOLEAN /\ missed' \in BOOLEAN
    BY <2>1
  <2>3. scheduled' \in Seq([model : Models, tokens : Tokens])
    BY <2>1
  <2>4. RecorderTypeOK'
    BY <2>1, <2>2, <2>3, NoDataType DEF RecorderInv, RecorderTypeOK
  <2> QED
    BY <2>1, <2>4 DEF RecorderInv, OnlyFailedWritesAreMissing
<1>6. CASE UNCHANGED recorderVars
  BY <1>6 DEF recorderVars, RecorderInv, RecorderTypeOK, OnlyFailedWritesAreMissing, Kept, Readable
<1> QED
  BY <1>1, <1>2, <1>3, <1>4, <1>5, <1>6 DEF RecorderNext

\* A write that succeeds writes at least what the file has held, where it was read.
LEMMA StepGrows ==
    RecorderInv /\ [RecorderNext]_recorderVars =>
        [Readable(file) => \/ Readable(file') /\ Covers(file, file')
                           \/ missed']_recorderVars
<1> SUFFICES ASSUME RecorderInv, RecorderNext, Readable(file), ~missed'
             PROVE  Readable(file') /\ Covers(file, file')
  OBVIOUS
<1>0. file \in Data /\ Kept = file
  BY DEF RecorderInv, RecorderTypeOK, Kept, Readable
<1>1. CASE file' = file
  BY <1>0, <1>1 DEF Covers, Data, Counter
<1>2. ASSUME NEW read \in BOOLEAN, NEW written \in BOOLEAN, Record(read, written), file' # file
      PROVE  Readable(file') /\ Covers(file, file')
  <2> DEFINE m == Head(scheduled).model
             n == Head(scheduled).tokens
             data == Loaded(read)
  <2>1. m \in Models /\ n \in Nat /\ day \in Days /\ unsaved \in Data
    BY <1>2, FirstTask DEF Record, RecorderInv, RecorderTypeOK
  <2>2. file' = Counted(data, m, n)
    BY <1>2 DEF Record, Writes
  <2>3. data \in Data /\ data = Plus(file, unsaved)
    BY <1>0, <1>2, LoadedSum DEF Record
  <2> HIDE DEF m, n, data
  <2>4. Covers(file, data)
    BY <1>0, <2>1, <2>3, PlusCovers
  <2> QED
    BY <1>0, <2>1, <2>2, <2>3, <2>4, CountedType, CountedCovers, DataReadable
<1> QED
  BY <1>1, <1>2 DEF RecorderNext, Finish, Query, Midnight, Restart

-----------------------------------------------------------------------------
(* Sums over a set *)

\* Induction over the numbers, with a set for the property.
LEMMA SetInduction ==
    ASSUME NEW S, 0 \in S, \A n \in S : n + 1 \in S
    PROVE  Nat \subseteq S
<1> SUFFICES ASSUME ~(Nat \subseteq S) PROVE FALSE
  OBVIOUS
<1> DEFINE T == Nat \ S
<1>1. T \subseteq Nat /\ T # {}
  OBVIOUS
<1>2. PICK i \in T : \A j \in T : ~(<<j, i>> \in OpToRel(<, Nat))
  BY <1>1, NatLessThanWellFounded, WFMin
<1>3. i \in Nat /\ i # 0 /\ i - 1 \in Nat
  OBVIOUS
<1>4. \A j \in T : ~(j < i)
  BY <1>2 DEF OpToRel
<1>5. i - 1 \notin T
  BY <1>3, <1>4
<1> QED
  BY <1>3, <1>5

\* Sum and Since, for any costs and days.
Total(c, S) == MapThenSumSet(LAMBDA d : c[d], S)

Pick(s) == CHOOSE x \in s : TRUE

\* What the recursive definition inside MapThenSumSet asks of its function.
Recurs(g, c, Q) ==
    \A s \in Q : g[s] = IF s = {} THEN 0 ELSE c[Pick(s)] + g[s \ {Pick(s)}]

Adds(g, c, Q) == g \in [Q -> Nat] /\ Recurs(g, c, Q)

LEMMA Picked ==
    ASSUME NEW s, IsFiniteSet(s), s # {}
    PROVE  /\ Pick(s) \in s /\ IsFiniteSet(s \ {Pick(s)})
           /\ Cardinality(s) \in Nat /\ Cardinality(s \ {Pick(s)}) = Cardinality(s) - 1
<1>1. Pick(s) \in s
  BY DEF Pick
<1> QED
  BY <1>1, FS_RemoveElement, FS_CardinalityType

LEMMA AddsExists ==
    ASSUME NEW S, IsFiniteSet(S), NEW c, \A d \in S : c[d] \in Nat
    PROVE  \E g : Adds(g, c, SUBSET S)
<1> DEFINE Level(n) == { s \in SUBSET S : Cardinality(s) <= n }
           N == { n \in Nat : \E g : Adds(g, c, Level(n)) }
<1>0. \A s \in SUBSET S : IsFiniteSet(s) /\ Cardinality(s) \in Nat /\ Cardinality(s) <= Cardinality(S)
  BY FS_Subset, FS_CardinalityType
<1>1. 0 \in N
  <2> DEFINE g == [s \in Level(0) |-> 0]
  <2>1. \A s \in Level(0) : s = {}
    BY <1>0, FS_EmptySet
  <2>2. Adds(g, c, Level(0))
    BY <2>1 DEF Adds, Recurs
  <2> HIDE DEF g, Level
  <2> QED
    BY <2>2
<1>2. ASSUME NEW n \in N PROVE n + 1 \in N
  <2>1. n \in Nat
    OBVIOUS
  <2>2. PICK g : Adds(g, c, Level(n))
    OBVIOUS
  <2> DEFINE h == [s \in Level(n + 1) |-> IF s = {} THEN 0 ELSE c[Pick(s)] + g[s \ {Pick(s)}]]
  <2>3. ASSUME NEW s \in Level(n + 1), s # {}
        PROVE  Pick(s) \in S /\ s \ {Pick(s)} \in Level(n) /\ s \ {Pick(s)} \in Level(n + 1)
    <3>1. s \in SUBSET S /\ Cardinality(s) <= n + 1
      BY <2>3
    <3>2. /\ Pick(s) \in s /\ Cardinality(s) \in Nat
          /\ Cardinality(s \ {Pick(s)}) = Cardinality(s) - 1
      BY <1>0, <2>3, <3>1, Picked
    <3> QED
      BY <2>1, <3>1, <3>2
  <2>4. \A t \in Level(n) : t \in Level(n + 1) /\ h[t] = g[t]
    <3>1. \A t \in Level(n) : t \in Level(n + 1)
      BY <1>0, <2>1
    <3> HIDE DEF Level, N
    <3> QED
      BY <2>2, <3>1 DEF Adds, Recurs
  <2>5. h \in [Level(n + 1) -> Nat]
    <3> HIDE DEF Level, N
    <3>1. ASSUME NEW s \in Level(n + 1), s # {} PROVE c[Pick(s)] + g[s \ {Pick(s)}] \in Nat
      BY <2>2, <2>3, <3>1 DEF Adds, Recurs
    <3> QED
      BY <3>1
  <2>6. \A s \in Level(n + 1) : h[s] = IF s = {} THEN 0 ELSE c[Pick(s)] + h[s \ {Pick(s)}]
    <3> HIDE DEF Level, N
    <3> QED
      BY <2>3, <2>4
  <2>7. Adds(h, c, Level(n + 1))
    <3> HIDE DEF h, Level, N
    <3> QED
      BY <2>5, <2>6 DEF Adds, Recurs
  <2> HIDE DEF h, Level
  <2> QED
    BY <2>1, <2>7
<1>3. Cardinality(S) \in N
  <2> HIDE DEF N
  <2> QED
    BY <1>1, <1>2, FS_CardinalityType, SetInduction
<1>4. Level(Cardinality(S)) = SUBSET S
  BY <1>0
<1> HIDE DEF Level
<1> QED
  BY <1>3, <1>4

\* The function is determined by the costs on the set.
Agree(c, e, R) == \A x \in R : c[x] = e[x]

LEMMA AddsSame ==
    ASSUME NEW R, IsFiniteSet(R), NEW c, NEW e, Agree(c, e, R),
           NEW g, Recurs(g, c, SUBSET R), NEW h, Recurs(h, e, SUBSET R)
    PROVE  g[R] = h[R]
<1> DEFINE N == { n \in Nat : \A s \in SUBSET R : Cardinality(s) = n => g[s] = h[s] }
<1>0. \A s \in SUBSET R : IsFiniteSet(s) /\ Cardinality(s) \in Nat
  BY FS_Subset, FS_CardinalityType
<1>1. 0 \in N
  <2>1. \A s \in SUBSET R : Cardinality(s) = 0 => s = {}
    BY <1>0, FS_EmptySet
  <2>2. g[{}] = 0 /\ h[{}] = 0
    BY DEF Recurs
  <2> QED
    BY <2>1, <2>2
<1>2. ASSUME NEW n \in N PROVE n + 1 \in N
  <2>1. n \in Nat
    OBVIOUS
  <2>2. ASSUME NEW s \in SUBSET R, Cardinality(s) = n + 1 PROVE g[s] = h[s]
    <3>1. s # {}
      BY <1>0, <2>1, <2>2, FS_EmptySet
    <3> DEFINE x == Pick(s)
               t == s \ {x}
    <3>2. x \in s /\ Cardinality(t) = n
      BY <1>0, <2>1, <2>2, <3>1, Picked
    <3>3. t \in SUBSET R /\ x \in R
      BY <3>2
    <3>4. g[t] = h[t] /\ c[x] = e[x]
      BY <3>2, <3>3 DEF Agree
    <3>5. g[s] = c[x] + g[t] /\ h[s] = e[x] + h[t]
      BY <3>1 DEF Recurs
    <3> QED
      BY <3>4, <3>5
  <2> QED
    BY <2>1, <2>2
<1>3. Cardinality(R) \in N
  <2> HIDE DEF N
  <2> QED
    BY <1>0, <1>1, <1>2, SetInduction
<1> QED
  BY <1>0, <1>3

LEMMA TotalBy ==
    ASSUME NEW S, IsFiniteSet(S), NEW c, \A d \in S : c[d] \in Nat
    PROVE  \E g : Adds(g, c, SUBSET S) /\ Total(c, S) = g[S]
<1> DEFINE E(f, s) == IF s = {} THEN 0 ELSE c[Pick(s)] + f[s \ {Pick(s)}]
           R(f) == f = [s \in SUBSET S |-> E(f, s)]
           i == CHOOSE f : R(f)
<1>1. PICK g : Adds(g, c, SUBSET S)
  BY AddsExists
<1>2. R(g)
  BY <1>1 DEF Adds, Recurs
<1>3. R(i)
  BY <1>2
<1>4. Total(c, S) = i[S]
  BY DEF Total, MapThenSumSet, MapThenFoldSet, Pick
<1> HIDE DEF i
<1>5. Recurs(i, c, SUBSET S)
  BY <1>3 DEF Recurs
<1>6. i[S] = g[S]
  BY <1>1, <1>5, AddsSame DEF Adds, Agree
<1> QED
  BY <1>1, <1>4, <1>6

LEMMA TotalPart ==
    ASSUME NEW S, IsFiniteSet(S), NEW c, \A d \in S : c[d] \in Nat,
           NEW g, Adds(g, c, SUBSET S), NEW R, R \subseteq S
    PROVE  Total(c, R) = g[R]
<1>1. IsFiniteSet(R) /\ \A d \in R : c[d] \in Nat
  BY FS_Subset
<1>2. PICK h : Adds(h, c, SUBSET R) /\ Total(c, R) = h[R]
  BY <1>1, TotalBy
<1>3. Recurs(h, c, SUBSET R) /\ Recurs(g, c, SUBSET R) /\ Agree(c, c, R)
  BY <1>2 DEF Adds, Recurs, Agree
<1>4. h[R] = g[R]
  BY <1>1, <1>3, AddsSame
<1> QED
  BY <1>2, <1>4

\* Any day may be taken out of the sum first.
LEMMA TotalRemove ==
    ASSUME NEW S, IsFiniteSet(S), NEW c, \A d \in S : c[d] \in Nat, NEW x \in S
    PROVE  /\ Total(c, S) \in Nat /\ Total(c, S \ {x}) \in Nat
           /\ Total(c, S) = c[x] + Total(c, S \ {x})
<1>1. PICK g : Adds(g, c, SUBSET S) /\ Total(c, S) = g[S]
  BY TotalBy
<1> DEFINE P(s) == \A y \in s : g[s] = c[y] + g[s \ {y}]
           N == { n \in Nat : \A s \in SUBSET S : Cardinality(s) = n => P(s) }
<1>0. \A s \in SUBSET S : IsFiniteSet(s) /\ Cardinality(s) \in Nat
  BY FS_Subset, FS_CardinalityType
<1>2. 0 \in N
  <2>1. \A s \in SUBSET S : Cardinality(s) = 0 => s = {}
    BY <1>0, FS_EmptySet
  <2> QED
    BY <2>1
<1>3. ASSUME NEW n \in N PROVE n + 1 \in N
  <2>1. n \in Nat /\ \A t \in SUBSET S : Cardinality(t) = n => P(t)
    OBVIOUS
  <2>2. ASSUME NEW s \in SUBSET S, Cardinality(s) = n + 1, NEW y \in s
        PROVE  g[s] = c[y] + g[s \ {y}]
    <3> DEFINE p == Pick(s)
               t == s \ {p}
               u == s \ {y}
               v == s \ {p, y}
    <3>1. p \in s /\ g[s] = c[p] + g[t] /\ Cardinality(t) = n /\ Cardinality(u) = n
      <4>1. s # {} /\ IsFiniteSet(s) /\ Cardinality(s) = n + 1
        BY <1>0, <2>2
      <4>2. p \in s /\ Cardinality(t) = Cardinality(s) - 1
        BY <4>1, Picked
      <4>3. Cardinality(u) = Cardinality(s) - 1
        BY <2>2, <4>1, FS_RemoveElement
      <4>4. Cardinality(t) = n /\ Cardinality(u) = n
        BY <2>1, <4>1, <4>2, <4>3
      <4> QED
        BY <1>1, <4>1, <4>2, <4>4 DEF Adds, Recurs
    <3>2. CASE p = y
      BY <3>1, <3>2
    <3>3. CASE p # y
      <4>1. /\ y \in t /\ t \ {y} = v /\ p \in u /\ u \ {p} = v
            /\ t \in SUBSET S /\ u \in SUBSET S /\ v \in SUBSET S
        BY <3>1, <3>3
      <4>2. g[t] = c[y] + g[v] /\ g[u] = c[p] + g[v]
        BY <2>1, <3>1, <4>1
      <4>3. c[y] \in Nat /\ c[p] \in Nat /\ g[v] \in Nat
        BY <1>1, <3>1, <4>1 DEF Adds
      <4> HIDE DEF p, t, u, v
      <4> QED
        BY <3>1, <4>2, <4>3 DEF u
    <3> QED
      BY <3>2, <3>3
  <2> QED
    BY <2>1, <2>2
<1>4. P(S)
  <2>1. Cardinality(S) \in N
    <3> HIDE DEF N
    <3> QED
      BY <1>0, <1>2, <1>3, SetInduction
  <2> QED
    BY <2>1
<1>5. Total(c, S \ {x}) = g[S \ {x}]
  BY <1>1, TotalPart
<1> QED
  BY <1>1, <1>4, <1>5 DEF Adds

LEMMA TotalSame ==
    ASSUME NEW S, IsFiniteSet(S), NEW c, NEW e, \A d \in S : c[d] \in Nat /\ c[d] = e[d]
    PROVE  Total(c, S) = Total(e, S)
<1>1. PICK g : Adds(g, c, SUBSET S) /\ Total(c, S) = g[S]
  BY TotalBy
<1>2. PICK h : Adds(h, e, SUBSET S) /\ Total(e, S) = h[S]
  BY TotalBy
<1>3. Recurs(g, c, SUBSET S) /\ Recurs(h, e, SUBSET S) /\ Agree(c, e, S)
  BY <1>1, <1>2 DEF Adds, Agree
<1>4. g[S] = h[S]
  BY <1>3, AddsSame
<1> QED
  BY <1>1, <1>2, <1>4

LEMMA TotalNothing == ASSUME NEW c PROVE Total(c, {}) = 0
<1>1. IsFiniteSet({})
  BY FS_EmptySet
<1>2. PICK g : Adds(g, c, SUBSET {}) /\ Total(c, {}) = g[{}]
  BY <1>1, TotalBy
<1> QED
  BY <1>2 DEF Adds, Recurs

-----------------------------------------------------------------------------
(* What was spent since a day *)

SpentSince(c, b) == Total(c, {d \in AllDays : d >= b})

LEMMA SinceByDay ==
    ASSUME NEW c \in [AllDays -> Nat]
    PROVE  /\ \A b \in Nat : SpentSince(c, b) \in Nat
           /\ \A b \in AllDays : SpentSince(c, b) = c[b] + SpentSince(c, b + 1)
           /\ \A b \in Nat : b > MaxDay + 2 => SpentSince(c, b) = 0
<1> DEFINE S(b) == {d \in AllDays : d >= b}
<1>1. \A b \in Nat : IsFiniteSet(S(b)) /\ S(b) \subseteq AllDays
  <2>1. IsFiniteSet(AllDays)
    BY FS_Interval DEF AllDays
  <2> QED
    BY <2>1, FS_Subset
<1>2. \A b \in Nat : b > MaxDay + 2 => S(b) = {}
  BY DEF AllDays
<1>3. ASSUME NEW b \in AllDays
      PROVE  SpentSince(c, b) = c[b] + SpentSince(c, b + 1) /\ SpentSince(c, b) \in Nat
  <2>1. b \in Nat /\ b \in S(b) /\ S(b + 1) = S(b) \ {b}
    BY DEF AllDays
  <2>2. IsFiniteSet(S(b)) /\ \A d \in S(b) : c[d] \in Nat
    BY <1>1, <2>1
  <2> HIDE DEF S
  <2>3. Total(c, S(b)) = c[b] + Total(c, S(b) \ {b}) /\ Total(c, S(b)) \in Nat
    BY <2>1, <2>2, TotalRemove
  <2> QED
    BY <2>1, <2>3 DEF SpentSince, S
<1>4. ASSUME NEW b \in Nat, b > MaxDay + 2 PROVE SpentSince(c, b) = 0
  BY <1>2, <1>4, TotalNothing DEF SpentSince
<1>5. ASSUME NEW b \in Nat PROVE SpentSince(c, b) \in Nat
  <2>1. CASE b \in AllDays
    BY <1>3, <2>1
  <2>2. CASE b \notin AllDays
    BY <1>4, <2>2 DEF AllDays
  <2> QED
    BY <2>1, <2>2
<1> QED
  BY <1>3, <1>4, <1>5

\* Costs that are nowhere higher from b on add up to no more.
LEMMA SinceCompare ==
    ASSUME NEW c \in [AllDays -> Nat], NEW e \in [AllDays -> Nat], NEW b \in Nat,
           \A d \in AllDays : d >= b => c[d] <= e[d]
    PROVE  SpentSince(c, b) <= SpentSince(e, b)
<1> DEFINE last == MaxDay + 3
           N == { n \in Nat : \A d \in Nat : d >= b /\ d + n >= last => SpentSince(c, d) <= SpentSince(e, d) }
<1>0. last \in Nat
  BY RecorderAssumption
<1>1. 0 \in N
  BY <1>0, SinceByDay
<1>2. ASSUME NEW n \in N PROVE n + 1 \in N
  <2>1. n \in Nat
    OBVIOUS
  <2>2. ASSUME NEW d \in Nat, d >= b, d + (n + 1) >= last PROVE SpentSince(c, d) <= SpentSince(e, d)
    <3>1. CASE d \in AllDays
      <4>1. SpentSince(c, d + 1) <= SpentSince(e, d + 1)
        BY <2>1, <2>2
      <4>2. SpentSince(c, d) = c[d] + SpentSince(c, d + 1) /\ SpentSince(e, d) = e[d] + SpentSince(e, d + 1)
        BY <3>1, SinceByDay
      <4>3. /\ SpentSince(c, d + 1) \in Nat /\ SpentSince(e, d + 1) \in Nat /\ c[d] \in Nat /\ e[d] \in Nat
            /\ c[d] <= e[d]
        BY <2>2, <3>1, SinceByDay
      <4> QED
        BY <4>1, <4>2, <4>3
    <3>2. CASE d \notin AllDays
      <4>1. d > MaxDay + 2
        BY <3>2 DEF AllDays
      <4>2. SpentSince(c, d) = 0 /\ SpentSince(e, d) = 0
        BY <4>1, SinceByDay
      <4> QED
        BY <4>2
    <3> QED
      BY <3>1, <3>2
  <2> QED
    BY <2>1, <2>2
<1>3. last \in N
  <2> HIDE DEF N, last
  <2> QED
    BY <1>0, <1>1, <1>2, SetInduction
<1> QED
  BY <1>0, <1>3

\* What is spent from b on grows by no more than what is spent in all.
LEMMA SinceGrows ==
    ASSUME NEW c \in [AllDays -> Nat], NEW e \in [AllDays -> Nat],
           \A d \in AllDays : c[d] <= e[d], NEW b \in Nat
    PROVE  SpentSince(e, b) - SpentSince(c, b) <= SpentSince(e, 0) - SpentSince(c, 0)
<1> DEFINE K(d) == SpentSince(e, d) - SpentSince(c, d)
           N == { n \in Nat : K(n) <= K(0) }
<1>0. \A d \in Nat : SpentSince(e, d) \in Nat /\ SpentSince(c, d) \in Nat
  BY SinceByDay
<1>1. 0 \in N
  BY <1>0
<1>2. ASSUME NEW n \in N PROVE n + 1 \in N
  <2>1. CASE n \in AllDays
    <3>1. SpentSince(c, n) = c[n] + SpentSince(c, n + 1) /\ SpentSince(e, n) = e[n] + SpentSince(e, n + 1)
      BY <2>1, SinceByDay
    <3> QED
      BY <1>0, <2>1, <3>1
  <2>2. CASE n \notin AllDays
    <3>1. n \in Nat /\ n > MaxDay + 2 /\ n + 1 > MaxDay + 2
      BY <2>2 DEF AllDays
    <3>2. K(n) = 0 /\ K(n + 1) = 0
      BY <3>1, SinceByDay
    <3> QED
      BY <3>1, <3>2
  <2> QED
    BY <2>1, <2>2
<1>3. b \in N
  <2> HIDE DEF N
  <2> QED
    BY <1>1, <1>2, SetInduction
<1> QED
  BY <1>3

\* Nothing, if nothing was spent since.
LEMMA NothingSince ==
    ASSUME NEW c \in [AllDays -> Nat], NEW b \in Nat, \A d \in AllDays : d >= b => c[d] = 0
    PROVE  SpentSince(c, b) = 0
<1> DEFINE S == {d \in AllDays : d >= b}
           g == [s \in SUBSET S |-> 0]
<1>1. IsFiniteSet(S) /\ \A d \in S : c[d] \in Nat /\ c[d] = 0
  <2>1. IsFiniteSet(AllDays) /\ S \subseteq AllDays
    BY FS_Interval DEF AllDays
  <2> QED
    BY <2>1, FS_Subset
<1> HIDE DEF S
<1>2. Adds(g, c, SUBSET S)
  <2>1. ASSUME NEW s \in SUBSET S, s # {} PROVE c[Pick(s)] = 0 /\ s \ {Pick(s)} \in SUBSET S
    <3>1. Pick(s) \in s
      BY <2>1 DEF Pick
    <3> QED
      BY <1>1, <3>1
  <2> QED
    BY <2>1 DEF Adds, Recurs
<1>3. g[S] = 0
  OBVIOUS
<1> HIDE DEF g
<1>4. Total(c, S) = g[S]
  BY <1>1, <1>2, TotalPart
<1> QED
  BY <1>3, <1>4 DEF SpentSince, S

LEMMA SumIs == ASSUME NEW c PROVE Sum(c) = Total(c, AllDays) /\ Sum(c) = SpentSince(c, 0)
<1>1. {d \in AllDays : d >= 0} = AllDays
  BY DEF AllDays
<1> QED
  BY <1>1 DEF Sum, Total, SpentSince

LEMMA SinceIs == ASSUME NEW b PROVE Since(b) = SpentSince(spent, b)
  BY DEF Since, SpentSince, Total

\* No day's costs, and no more than all, since any day.
LEMMA PartOfAll ==
    ASSUME NEW c \in [AllDays -> Nat]
    PROVE  /\ Sum(c) \in Nat
           /\ \A b \in Nat : SpentSince(c, b) \in Nat /\ SpentSince(c, b) <= Sum(c)
           /\ \A d \in AllDays : c[d] <= Sum(c)
<1> DEFINE z == [d \in AllDays |-> 0]
<1>1. z \in [AllDays -> Nat] /\ \A d \in AllDays : z[d] = 0 /\ z[d] <= c[d]
  OBVIOUS
<1> HIDE DEF z
<1>2. \A b \in Nat : SpentSince(c, b) \in Nat
  BY SinceByDay
<1>3. ASSUME NEW b \in Nat PROVE SpentSince(c, b) <= Sum(c)
  <2>1. SpentSince(c, b) - SpentSince(z, b) <= SpentSince(c, 0) - SpentSince(z, 0)
    BY <1>1, SinceGrows
  <2>2. SpentSince(z, b) = 0 /\ SpentSince(z, 0) = 0
    BY <1>1, NothingSince
  <2> QED
    BY <1>2, <2>1, <2>2, SumIs
<1>4. ASSUME NEW d \in AllDays PROVE c[d] <= Sum(c)
  <2>1. d \in Nat /\ d + 1 \in Nat /\ c[d] \in Nat
    BY DEF AllDays
  <2>2. SpentSince(c, d) = c[d] + SpentSince(c, d + 1)
    BY SinceByDay
  <2>3. SpentSince(c, d) <= Sum(c) /\ SpentSince(c, d) \in Nat /\ SpentSince(c, d + 1) \in Nat
        /\ Sum(c) \in Nat
    BY <1>2, <1>3, <2>1, SumIs
  <2> QED
    BY <2>1, <2>2, <2>3
<1> QED
  BY <1>2, <1>3, <1>4, SumIs

\* One more is spent on a day.
LEMMA SumPlusOne ==
    ASSUME NEW c \in [AllDays -> Nat], NEW d \in AllDays
    PROVE  Sum([c EXCEPT ![d] = @ + 1]) = Sum(c) + 1
<1> DEFINE e == [c EXCEPT ![d] = @ + 1]
           R == AllDays \ {d}
<1>1. /\ e \in [AllDays -> Nat] /\ e[d] = c[d] + 1 /\ c[d] \in Nat
      /\ \A x \in R : c[x] \in Nat /\ c[x] = e[x]
  OBVIOUS
<1>2. IsFiniteSet(AllDays) /\ IsFiniteSet(R)
  <2>1. IsFiniteSet(AllDays) /\ R \subseteq AllDays
    BY FS_Interval DEF AllDays
  <2> QED
    BY <2>1, FS_Subset
<1> HIDE DEF e
<1>3. /\ Total(c, AllDays) = c[d] + Total(c, R) /\ Total(c, R) \in Nat
      /\ Total(e, AllDays) = e[d] + Total(e, R)
  <2>1. \A x \in AllDays : c[x] \in Nat /\ e[x] \in Nat
    BY <1>1
  <2> QED
    BY <1>2, <2>1, TotalRemove
<1> HIDE DEF R
<1>4. Total(c, R) = Total(e, R)
  BY <1>1, <1>2, TotalSame
<1>5. Sum(e) = Sum(c) + 1
  BY <1>1, <1>3, <1>4, SumIs
<1> QED
  BY <1>5 DEF e

-----------------------------------------------------------------------------
(* The report *)

\* An answer is of a moment between the asking and now.
Told(b, a) ==
    \/ a \in {Awaited, Failed}
    \/ a \in Nat /\ SpentSince(before, b) <= a /\ a <= SpentSince(spent, b)

UsageInv ==
    /\ RecorderInv
    /\ zone \in Zones
    /\ utcDay \in IF zone = "west" THEN {day, day + 1} ELSE {day - 1, day}
    /\ spent \in [AllDays -> Nat] /\ before \in [AllDays -> Nat]
    /\ Sum(spent) <= MaxSpent
    /\ \A d \in AllDays : before[d] <= spent[d] /\ (d > utcDay => spent[d] = 0)
    /\ DOMAIN snapshots \subseteq Boundaries
    /\ \A b \in DOMAIN snapshots : Told(b, snapshots[b])

LEMMA UtcDayType == ASSUME UsageInv PROVE day \in Nat /\ utcDay \in AllDays /\ utcDay \in Nat
<1>1. day \in 1..MaxDay
  BY DEF UsageInv, RecorderInv, RecorderTypeOK, Days
<1> QED
  BY <1>1 DEF UsageInv, AllDays

LEMMA UsageTypes == UsageInv => TypeOK
<1> SUFFICES ASSUME UsageInv PROVE TypeOK
  OBVIOUS
<1>1. /\ spent \in [AllDays -> Nat] /\ before \in [AllDays -> Nat]
      /\ Sum(spent) <= MaxSpent /\ \A d \in AllDays : before[d] <= spent[d]
      /\ MaxSpent \in Nat
  BY UsageAssumption DEF UsageInv
<1>2. \A d \in AllDays : spent[d] \in 0..MaxSpent /\ before[d] \in 0..MaxSpent
  <2>1. \A d \in AllDays : spent[d] <= Sum(spent) /\ Sum(spent) \in Nat
    BY <1>1, PartOfAll
  <2> QED
    BY <1>1, <2>1
<1>3. spent \in [AllDays -> 0..MaxSpent] /\ before \in [AllDays -> 0..MaxSpent]
  BY <1>1, <1>2
<1>4. ASSUME NEW b \in DOMAIN snapshots PROVE snapshots[b] \in 0..Failed
  <2>1. b \in Nat /\ Told(b, snapshots[b])
    BY <1>4 DEF UsageInv, Boundaries
  <2>2. SpentSince(spent, b) <= MaxSpent /\ SpentSince(spent, b) \in Nat
    <3>1. SpentSince(spent, b) \in Nat /\ SpentSince(spent, b) <= Sum(spent) /\ Sum(spent) \in Nat
      BY <1>1, <2>1, PartOfAll
    <3> QED
      BY <1>1, <3>1
  <2> QED
    BY <1>1, <2>1, <2>2 DEF Told, Awaited, Failed
<1> QED
  BY <1>3, <1>4, UtcDayType DEF TypeOK, UsageInv, RecorderInv

\* A step of the report, of upstream or of the clocks is one of the recorder's, or none.
LEMMA StepIsRecorders == [Next]_vars => [RecorderNext]_recorderVars
<1> SUFFICES ASSUME [Next]_vars PROVE [RecorderNext]_recorderVars
  OBVIOUS
<1>1. CASE Recording
  BY <1>1 DEF Recording, RecorderNext
<1>2. CASE LocalMidnight
  BY <1>2 DEF LocalMidnight, RecorderNext
<1>3. CASE UtcMidnight
  BY <1>3 DEF UtcMidnight
<1>4. CASE Spend
  BY <1>4 DEF Spend
<1>5. ASSUME NEW first \in Days, NEW last \in Days, Ask(first, last)
      PROVE  [RecorderNext]_recorderVars
  BY <1>5 DEF Ask
<1>6. ASSUME NEW b \in Boundaries, NEW failed \in BOOLEAN, Answer(b, failed)
      PROVE  [RecorderNext]_recorderVars
  BY <1>6 DEF Answer
<1>7. CASE Report
  BY <1>7 DEF Report, RecorderNext
<1>8. CASE ServerRestart
  BY <1>8 DEF ServerRestart, RecorderNext
<1>9. CASE UNCHANGED vars
  BY <1>9 DEF vars
<1> QED
  BY <1>1, <1>2, <1>3, <1>4, <1>5, <1>6, <1>7, <1>8, <1>9 DEF Next

LEMMA InitUsage == Init => UsageInv
<1> SUFFICES ASSUME Init PROVE UsageInv
  OBVIOUS
<1>1. RecorderInv /\ zone \in Zones /\ day = 1 /\ utcDay = 1
  BY InitRecorder DEF Init, RecorderInit
<1>2. /\ spent = NothingSpent /\ before = NothingSpent
      /\ NothingSpent \in [AllDays -> Nat] /\ \A d \in AllDays : NothingSpent[d] = 0
  BY DEF Init, NothingSpent
<1>3. Sum(spent) = 0
  BY <1>2, NothingSince, SumIs
<1>4. DOMAIN snapshots = {}
  BY DEF Init, NoReport
<1> QED
  BY <1>1, <1>2, <1>3, <1>4, UsageAssumption DEF UsageInv

\* An answer stays one as more is spent.
LEMMA StillTold ==
    ASSUME NEW c \in [AllDays -> Nat], NEW e \in [AllDays -> Nat],
           \A d \in AllDays : c[d] <= e[d], NEW b \in Nat
    PROVE  SpentSince(c, b) <= SpentSince(e, b) /\ SpentSince(c, b) \in Nat
           /\ SpentSince(e, b) \in Nat
  BY SinceByDay, SinceCompare

\* While a report is made the clocks and the recorder do not touch it.
LEMMA StepClocks ==
    ASSUME UsageInv, RecorderInv',
           utcDay' \in IF zone = "west" THEN {day', day' + 1} ELSE {day' - 1, day'},
           utcDay' >= utcDay, UNCHANGED <<zone, spent>>,
           UNCHANGED <<snapshots, before>>
    PROVE  UsageInv'
<1>1. \A d \in AllDays : before[d] <= spent[d] /\ (d > utcDay' => spent[d] = 0)
  BY UtcDayType DEF UsageInv, AllDays, RecorderInv, RecorderTypeOK, Days
<1>2. \A b \in DOMAIN snapshots : Told(b, snapshots[b])'
  BY DEF UsageInv, Told, SpentSince
<1>3. Sum(spent') <= MaxSpent
  BY DEF UsageInv
<1> QED
  BY <1>1, <1>2, <1>3 DEF UsageInv

LEMMA StepSpend == ASSUME UsageInv, RecorderInv', Spend PROVE UsageInv'
<1>0. utcDay \in AllDays
  BY UtcDayType
<1>1. /\ spent' = [spent EXCEPT ![utcDay] = @ + 1] /\ spent \in [AllDays -> Nat]
      /\ before \in [AllDays -> Nat]
      /\ UNCHANGED <<day, zone, utcDay, snapshots, before>> /\ Sum(spent) < MaxSpent
  BY DEF Spend, UsageInv, recorderVars
<1>2. spent' \in [AllDays -> Nat] /\ \A d \in AllDays : spent[d] <= spent'[d]
  BY <1>0, <1>1
<1>3. Sum(spent') <= MaxSpent
  <2>1. Sum(spent') = Sum(spent) + 1 /\ Sum(spent) \in Nat /\ MaxSpent \in Nat
    BY <1>0, <1>1, SumPlusOne, PartOfAll, UsageAssumption
  <2> QED
    BY <1>1, <2>1
<1>4. ASSUME NEW d \in AllDays PROVE before[d] <= spent'[d] /\ (d > utcDay => spent'[d] = 0)
  <2>1. before[d] <= spent[d] /\ (d > utcDay => spent[d] = 0)
    BY DEF UsageInv
  <2>2. before[d] \in Nat /\ spent[d] \in Nat /\ spent'[d] \in Nat /\ spent[d] <= spent'[d]
    BY <1>1, <1>2
  <2>3. d > utcDay => spent'[d] = spent[d]
    BY <1>0, <1>1, UtcDayType DEF AllDays
  <2> QED
    BY <2>1, <2>2, <2>3
<1>5. ASSUME NEW b \in DOMAIN snapshots PROVE Told(b, snapshots[b])'
  <2>1. b \in Nat /\ Told(b, snapshots[b])
    BY DEF UsageInv, Boundaries
  <2>2. SpentSince(spent, b) <= SpentSince(spent', b) /\ SpentSince(spent, b) \in Nat
        /\ SpentSince(spent', b) \in Nat /\ SpentSince(before, b) \in Nat
    BY <1>1, <1>2, <2>1, StillTold, SinceByDay
  <2>3. CASE snapshots[b] \in {Awaited, Failed}
    BY <1>1, <2>3 DEF Told
  <2>4. CASE /\ snapshots[b] \in Nat /\ SpentSince(before, b) <= snapshots[b]
             /\ snapshots[b] <= SpentSince(spent, b)
    <3>1. snapshots[b] <= SpentSince(spent', b)
      BY <2>2, <2>4
    <3> QED
      BY <1>1, <2>4, <3>1 DEF Told
  <2> QED
    BY <2>1, <2>3, <2>4 DEF Told
<1> QED
  BY <1>1, <1>2, <1>3, <1>4, <1>5 DEF UsageInv

LEMMA StepAsk ==
    ASSUME UsageInv, RecorderInv', NEW first \in Days, NEW last \in Days, Ask(first, last)
    PROVE  UsageInv'
<1>1. /\ snapshots' = [b \in first..last + 1 |-> Awaited] /\ before' = spent
      /\ UNCHANGED <<day, zone, utcDay, spent>>
  BY DEF Ask, recorderVars
<1>2. DOMAIN snapshots' \subseteq Boundaries
  BY <1>1 DEF Boundaries, Days
<1>3. \A b \in DOMAIN snapshots' : Told(b, snapshots[b])'
  BY <1>1 DEF Told
<1>4. \A d \in AllDays : spent[d] <= spent[d]
  BY DEF UsageInv
<1>5. UNCHANGED Sum(spent)
  BY <1>1
<1> QED
  BY <1>1, <1>2, <1>3, <1>4, <1>5 DEF UsageInv

LEMMA StepAnswer ==
    ASSUME UsageInv, RecorderInv', NEW b \in Boundaries, NEW failed \in BOOLEAN,
           Answer(b, failed)
    PROVE  UsageInv'
<1>1. /\ b \in DOMAIN snapshots
      /\ snapshots' = [snapshots EXCEPT ![b] = IF failed THEN Failed ELSE Since(b)]
      /\ UNCHANGED <<day, zone, utcDay, spent, before>>
  BY DEF Answer, recorderVars
<1>2. ASSUME NEW a \in DOMAIN snapshots' PROVE Told(a, snapshots[a])'
  <2>1. a \in DOMAIN snapshots
    BY <1>1
  <2>2. CASE a # b \/ failed
    <3>1. snapshots'[a] = snapshots[a] \/ snapshots'[a] = Failed
      BY <1>1, <2>1, <2>2
    <3>2. Told(a, snapshots[a])
      BY <2>1 DEF UsageInv
    <3> QED
      BY <1>1, <3>1, <3>2 DEF Told
  <2>3. CASE a = b /\ ~failed
    <3>1. snapshots'[a] = SpentSince(spent, a)
      BY <1>1, <2>3, SinceIs
    <3>2. a \in Nat
      BY <2>1 DEF UsageInv, Boundaries
    <3>3. SpentSince(before, a) <= SpentSince(spent, a) /\ SpentSince(spent, a) \in Nat
      BY <3>2, StillTold DEF UsageInv
    <3>4. SpentSince(spent, a) <= SpentSince(spent, a)
      BY <3>3
    <3> QED
      BY <1>1, <3>1, <3>3, <3>4 DEF Told
  <2> QED
    BY <2>2, <2>3
<1>3. DOMAIN snapshots' \subseteq Boundaries
  BY <1>1 DEF UsageInv
<1>4. UNCHANGED Sum(spent)
  BY <1>1
<1> QED
  BY <1>1, <1>2, <1>3, <1>4 DEF UsageInv

\* A report that is answered or given up leaves nothing to compare.
LEMMA StepNoReport ==
    ASSUME UsageInv, RecorderInv', snapshots' = NoReport, before' = NothingSpent,
           UNCHANGED <<day, zone, utcDay, spent>>
    PROVE  UsageInv'
<1>1. DOMAIN snapshots' = {}
  BY DEF NoReport
<1>2. before' \in [AllDays -> Nat] /\ \A d \in AllDays : before'[d] <= spent[d]
  BY DEF NothingSpent, UsageInv
<1>3. UNCHANGED Sum(spent)
  OBVIOUS
<1> QED
  BY <1>1, <1>2, <1>3 DEF UsageInv

LEMMA StepUsage == UsageInv /\ [Next]_vars => UsageInv'
<1> SUFFICES ASSUME UsageInv, [Next]_vars PROVE UsageInv'
  OBVIOUS
<1>0. RecorderInv'
  BY StepIsRecorders, StepRecorder DEF UsageInv
<1>1. day \in Nat /\ utcDay \in Nat /\ utcDay >= utcDay
      /\ utcDay \in IF zone = "west" THEN {day, day + 1} ELSE {day - 1, day}
  BY UtcDayType DEF UsageInv
<1>2. CASE Recording
  <2>1. UNCHANGED <<day, zone, utcDay, spent, snapshots, before>>
    BY <1>2 DEF Recording, Finish, Record, Query, usageVars
  <2> QED
    BY <1>0, <1>1, <2>1, StepClocks
<1>3. CASE LocalMidnight
  <2>1. day' = day + 1 /\ UNCHANGED <<zone, utcDay, spent, snapshots, before>>
        /\ IF zone = "west" THEN utcDay > day ELSE utcDay = day
    BY <1>3 DEF LocalMidnight, Midnight, usageVars
  <2>2. utcDay' \in IF zone = "west" THEN {day', day' + 1} ELSE {day' - 1, day'}
    BY <1>1, <2>1
  <2> QED
    BY <1>0, <1>1, <2>1, <2>2, StepClocks
<1>4. CASE UtcMidnight
  <2>1. utcDay' = utcDay + 1 /\ UNCHANGED <<day, zone, spent, snapshots, before>>
        /\ IF zone = "west" THEN utcDay = day ELSE utcDay < day
    BY <1>4 DEF UtcMidnight, recorderVars
  <2>2. /\ utcDay' \in IF zone = "west" THEN {day', day' + 1} ELSE {day' - 1, day'}
        /\ utcDay' >= utcDay
    BY <1>1, <2>1
  <2> QED
    BY <1>0, <2>1, <2>2, StepClocks
<1>5. CASE Spend
  BY <1>0, <1>5, StepSpend
<1>6. ASSUME NEW first \in Days, NEW last \in Days, Ask(first, last) PROVE UsageInv'
  BY <1>0, <1>6, StepAsk
<1>7. ASSUME NEW b \in Boundaries, NEW failed \in BOOLEAN, Answer(b, failed) PROVE UsageInv'
  BY <1>0, <1>7, StepAnswer
<1>8. CASE Report
  <2>1. snapshots' = NoReport /\ before' = NothingSpent /\ UNCHANGED <<day, zone, utcDay, spent>>
    BY <1>8 DEF Report, Query
  <2> QED
    BY <1>0, <2>1, StepNoReport
<1>9. CASE ServerRestart
  <2>1. snapshots' = NoReport /\ before' = NothingSpent /\ UNCHANGED <<day, zone, utcDay, spent>>
    BY <1>9 DEF ServerRestart, Restart
  <2> QED
    BY <1>0, <2>1, StepNoReport
<1>10. CASE UNCHANGED vars
  <2>1. UNCHANGED <<day, zone, utcDay, spent, snapshots, before>>
    BY <1>10 DEF vars, recorderVars, usageVars
  <2> QED
    BY <1>0, <1>1, <2>1, StepClocks
<1> QED
  BY <1>2, <1>3, <1>4, <1>5, <1>6, <1>7, <1>8, <1>9, <1>10 DEF Next

\* What is known of a day whose figure is in the report.
LEMMA UsageClose == UsageInv => FiguresAreClose
<1> SUFFICES ASSUME UsageInv, Gathered, NEW d \in Days,
                    {d, d + 1} \subseteq DOMAIN snapshots, Reported(d),
                    snapshots[d + 1] = Failed => utcDay <= day
             PROVE  /\ Cost(d) <= before[d] + (Sum(spent) - Sum(before))
                    /\ before[d] <= Cost(d) + (Sum(spent) - Sum(before))
  BY DEF FiguresAreClose
<1> DEFINE K == Sum(spent) - Sum(before)
           b == before[d]    s == spent[d]
           B == SpentSince(before, d + 1)    S == SpentSince(spent, d + 1)
           x == snapshots[d]    y == snapshots[d + 1]
<1>1. d \in AllDays /\ d \in Nat /\ d + 1 \in Nat
  BY DEF Days, AllDays
<1>2. /\ spent \in [AllDays -> Nat] /\ before \in [AllDays -> Nat]
      /\ \A e \in AllDays : before[e] <= spent[e]
  BY DEF UsageInv
<1>3. SpentSince(before, d) = b + B /\ SpentSince(spent, d) = s + S
  BY <1>1, <1>2, SinceByDay
<1>4. b \in Nat /\ s \in Nat /\ B \in Nat /\ S \in Nat /\ b <= s /\ B <= S
  BY <1>1, <1>2, StillTold
<1>5. Sum(spent) \in Nat /\ Sum(before) \in Nat
  BY <1>2, PartOfAll
<1>6. (s + S) - (b + B) <= K /\ S - B <= K
  <2>1. \A n \in Nat : SpentSince(spent, n) - SpentSince(before, n) <= K
    BY <1>2, SinceGrows, SumIs
  <2>2. SpentSince(spent, d) - SpentSince(before, d) <= K
    BY <1>1, <2>1
  <2> QED
    BY <1>1, <1>3, <2>1, <2>2
<1>7. /\ Told(d, x) /\ Told(d + 1, y) /\ x # Awaited /\ y # Awaited /\ x # Failed
      /\ y = Failed => d = day
  BY DEF UsageInv, Gathered, Reported
<1>8. x \in Nat /\ b + B <= x /\ x <= s + S
  BY <1>3, <1>7 DEF Told
<1>9. CASE y # Failed
  <2>1. y \in Nat /\ B <= y /\ y <= S
    BY <1>7, <1>9 DEF Told
  <2>2. Cost(d) = Minus(x, y)
    BY <1>9 DEF Cost
  <2> HIDE DEF b, s, B, S, x, y
  <2>3. K \in Int
    BY <1>5
  <2> HIDE DEF K
  <2>4. Minus(x, y) <= b + K /\ b <= Minus(x, y) + K
    BY <1>4, <1>6, <1>8, <2>1, <2>3 DEF Minus
  <2> QED
    BY <2>2, <2>4 DEF b, K
<1>10. CASE y = Failed
  <2>1. Cost(d) = x /\ d = day /\ utcDay <= day
    BY <1>7, <1>10 DEF Cost
  <2>2. S = 0 /\ B = 0
    <3>1. utcDay \in Nat
      BY UtcDayType
    <3>2. \A e \in AllDays : e >= d + 1 => spent[e] = 0 /\ before[e] = 0
      <4>1. ASSUME NEW e \in AllDays, e >= d + 1 PROVE spent[e] = 0 /\ before[e] = 0
        <5>1. e > utcDay /\ e \in Nat
          BY <1>1, <2>1, <3>1, <4>1 DEF AllDays
        <5>2. spent[e] = 0 /\ before[e] <= spent[e] /\ before[e] \in Nat
          BY <1>2, <5>1 DEF UsageInv
        <5> QED
          BY <5>2
      <4> QED
        BY <4>1
    <3> QED
      BY <1>1, <1>2, <3>2, NothingSince
  <2> HIDE DEF b, s, B, S, x, y
  <2>3. K \in Int
    BY <1>5
  <2> HIDE DEF K
  <2>4. x <= b + K /\ b <= x + K
    BY <1>4, <1>6, <1>8, <2>2, <2>3
  <2> QED
    BY <2>1, <2>4 DEF b, K
<1> QED
  BY <1>9, <1>10

-----------------------------------------------------------------------------
(* Theorems *)

\* The invariant of token_recorder.py: what is in memory and what the file lacks.
THEOREM Invariance == RecorderSpec => []RecorderInv
<1>1. RecorderInit => RecorderInv
  BY InitRecorder
<1>2. RecorderInv /\ [RecorderNext]_recorderVars => RecorderInv'
  BY StepRecorder
<1> QED
  BY <1>1, <1>2, PTL DEF RecorderSpec

\* Every variable of the recorder stays in its type.
THEOREM RecorderTypeCorrect == RecorderSpec => []RecorderTypeOK
<1>1. RecorderInv => RecorderTypeOK
  BY DEF RecorderInv
<1> QED
  BY <1>1, Invariance, PTL

\* The file lacks exactly what failing writes left out since it was last written,
\* over days, restarts and any number of failures, but for a process that could not
\* read it and has not written it yet (record, _ensure_loaded, _atomic_write).
THEOREM MissingCounts == RecorderSpec => []OnlyFailedWritesAreMissing
<1>1. RecorderInv => OnlyFailedWritesAreMissing
  BY DEF RecorderInv
<1> QED
  BY <1>1, Invariance, PTL

\* No count that has been written is ever taken back by a process that could read the
\* file (record, _ensure_loaded).
THEOREM FileGrows == RecorderSpec => FileOnlyGrows
<1>1. RecorderInv /\ [RecorderNext]_recorderVars =>
          [Readable(file) => \/ Readable(file') /\ Covers(file, file')
                             \/ missed']_recorderVars
  BY StepGrows
<1> QED
  BY <1>1, Invariance, PTL DEF RecorderSpec, FileOnlyGrows

\* Reports, upstream's days and the server's zone do nothing to the recorder that it
\* would not do alone (query_daily_tokens in admin/router.py is a query).
THEOREM ReportsOnlyQuery == Spec => RecorderSpec
<1>1. Init => RecorderInit
  BY DEF Init
<1>2. [Next]_vars => [RecorderNext]_recorderVars
  BY StepIsRecorders
<1> QED
  BY <1>1, <1>2, PTL DEF Spec, RecorderSpec

\* The invariant of the daily report: the two clocks are less than a day apart,
\* nothing is booked on a day upstream has not reached, and an answer is of a moment
\* between the asking and now (query_daily_usage, _query_usage_since).
THEOREM UsageInvariance == Spec => []UsageInv
<1>1. Init => UsageInv
  BY InitUsage
<1>2. UsageInv /\ [Next]_vars => UsageInv'
  BY StepUsage
<1> QED
  BY <1>1, <1>2, PTL DEF Spec

\* Every variable stays in its type.
THEOREM UsageTypeCorrect == Spec => []TypeOK
<1>1. UsageInv => TypeOK
  BY UsageTypes
<1> QED
  BY <1>1, UsageInvariance, PTL

\* Each day of the report is off by no more than what was spent while its snapshots
\* were gathered, for any number of days and in any order of the answers; if nothing
\* was spent meanwhile, all its figures are exact (query_daily_usage).
THEOREM FiguresAreAlwaysClose == Spec => []FiguresAreClose
<1>1. UsageInv => FiguresAreClose
  BY UsageClose
<1> QED
  BY <1>1, UsageInvariance, PTL
=============================================================================
