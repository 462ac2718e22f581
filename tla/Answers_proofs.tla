--------------------------- MODULE Answers_proofs ---------------------------
(* Proofs about the Responses stream and the collectors of whole answers, for   *)
(* answers of any length.  Both join the deltas they received.                  *)
EXTENDS ResponsesStream, Collectors, FiniteSetTheorems, SequenceTheorems,
        WellFoundedInduction, TLAPS

\* Induction over the numbers, with a set for the property.
LEMMA SetInduction ==
    ASSUME NEW S, 0 \in S, \A n \in S : n + 1 \in S
    PROVE  Nat \subseteq S
<1> SUFFICES ASSUME ~(Nat \subseteq S) PROVE FALSE
  OBVIOUS
<1> DEFINE T == Nat \ S
<1>1. T \subseteq Nat /\ T # {}
  OBVIOUS
<1>2. PICK i \in T : \A j \in T : ~(<<j, i>> \in OpToRel(<, Nat))
  BY <1>1, NatLessThanWellFounded, WFMin
<1>3. i \in Nat /\ i # 0 /\ i - 1 \in Nat
  OBVIOUS
<1>4. \A j \in T : ~(j < i)
  BY <1>2 DEF OpToRel
<1>5. i - 1 \notin T
  BY <1>3, <1>4
<1> QED
  BY <1>3, <1>5

\* What the recursive definition inside FlattenSeq asks of its function.
Concatenates(g, ss, n, S) ==
    /\ g \in [1..n -> Seq(S)]
    /\ \A i \in 1..n : g[i] = IF i = 1 THEN ss[1] ELSE g[i - 1] \o ss[i]

\* The recursive definition inside FlattenSeq has a solution.
LEMMA FlattenExists ==
    ASSUME NEW S, NEW ss \in Seq(Seq(S)), NEW n \in Nat, n <= Len(ss)
    PROVE  \E g : Concatenates(g, ss, n, S)
<1> USE DEF Concatenates
<1> DEFINE Solves(g, m) == Concatenates(g, ss, m, S)
           P(m) == m <= Len(ss) => \E g : Solves(g, m)
           N == { m \in Nat : P(m) }
<1>1. P(0)
  <2>1. Solves([i \in 1..0 |-> <<>>], 0)
    OBVIOUS
  <2> QED
    BY <2>1
<1>2. ASSUME NEW m \in Nat, P(m) PROVE P(m + 1)
  <2>0. Len(ss) \in Nat
    OBVIOUS
  <2> SUFFICES ASSUME m + 1 <= Len(ss) PROVE \E h : Solves(h, m + 1)
    OBVIOUS
  <2>a. m <= Len(ss)
    BY <2>0
  <2>1. PICK g : Solves(g, m)
    BY <1>2, <2>a
  <2> DEFINE h == [i \in 1..m + 1 |->
                     IF i = 1 THEN ss[1] ELSE IF i = m + 1 THEN g[m] \o ss[i] ELSE g[i]]
  <2>2. \A i \in 1..m + 1 : ss[i] \in Seq(S)
    BY <2>0
  <2>3. ASSUME NEW i \in 1..m + 1 PROVE h[i] \in Seq(S)
    <3>1. CASE i = m + 1 /\ i # 1
      <4>1. g[m] \in Seq(S) /\ ss[i] \in Seq(S)
        BY <2>1, <3>1, <2>2
      <4> QED
        BY <3>1, <4>1, ConcatProperties
    <3>2. CASE i = 1
      BY <3>2, <2>2
    <3>3. CASE i # 1 /\ i # m + 1
      BY <2>1, <3>3
    <3> QED
      BY <3>1, <3>2, <3>3
  <2>4. h \in [1..m + 1 -> Seq(S)]
    BY <2>3
  <2>5. ASSUME NEW i \in 1..m + 1 PROVE h[i] = IF i = 1 THEN ss[1] ELSE h[i - 1] \o ss[i]
    <3>1. CASE i = 1
      BY <3>1
    <3>2. CASE i # 1 /\ i = m + 1
      <4>1. m \in 1..m + 1 /\ m # m + 1 /\ i - 1 = m
        BY <3>2
      <4>2. h[m] = g[m]
        <5>1. m = 1 => g[m] = ss[1]
          BY <2>1
        <5> QED
          BY <4>1, <5>1
      <4>3. h[i] = g[m] \o ss[i]
        BY <3>2
      <4> HIDE DEF h
      <4> QED
        BY <3>2, <4>1, <4>2, <4>3
    <3>3. CASE i # 1 /\ i # m + 1
      <4>1. i - 1 \in 1..m + 1 /\ i - 1 # m + 1 /\ i \in 1..m /\ i - 1 \in 1..m
        BY <3>3
      <4>2. h[i - 1] = g[i - 1]
        BY <2>1, <4>1
      <4>3. h[i] = g[i]
        BY <3>3
      <4>4. g[i] = g[i - 1] \o ss[i]
        BY <2>1, <3>3, <4>1
      <4> HIDE DEF h
      <4> QED
        BY <3>3, <4>2, <4>3, <4>4
    <3> QED
      BY <3>1, <3>2, <3>3
  <2> HIDE DEF h
  <2>6. Solves(h, m + 1)
    BY <2>4, <2>5
  <2> QED
    BY <2>6
<1> HIDE DEF P
<1>3. 0 \in N /\ \A m \in N : m + 1 \in N
  BY <1>1, <1>2
<1>4. P(n)
  <2> HIDE DEF N
  <2>1. n \in N
    BY <1>3, SetInduction
  <2> QED
    BY <2>1 DEF N
<1> QED
  BY <1>4 DEF P

LEMMA FlattenIs ==
    ASSUME NEW S, NEW ss \in Seq(Seq(S)), Len(ss) # 0,
           NEW g, Concatenates(g, ss, Len(ss), S)
    PROVE  FlattenSeq(ss) = g[Len(ss)]
<1> USE DEF Concatenates
<1> DEFINE R(f) == f = [i \in 1..Len(ss) |-> IF i = 1 THEN ss[i] ELSE f[i - 1] \o ss[i]]
           f == CHOOSE h : R(h)
<1>1. g = [i \in 1..Len(ss) |-> IF i = 1 THEN ss[i] ELSE g[i - 1] \o ss[i]]
  OBVIOUS
<1>2. R(f)
  BY <1>1
<1>3. FlattenSeq(ss) = f[Len(ss)]
  BY DEF FlattenSeq
<1> HIDE DEF f
<1>5. Len(ss) \in Nat /\ DOMAIN g = 1..Len(ss) /\ DOMAIN f = 1..Len(ss)
  BY <1>2
<1> DEFINE N == { m \in Nat : m \in 1..Len(ss) => f[m] = g[m] }
<1>6. 0 \in N
  OBVIOUS
<1>7. ASSUME NEW m \in N PROVE m + 1 \in N
  <2>0. m \in Nat
    OBVIOUS
  <2> SUFFICES ASSUME m + 1 \in 1..Len(ss) PROVE f[m + 1] = g[m + 1]
    BY <2>0
  <2>1. f[m + 1] = IF m + 1 = 1 THEN ss[m + 1] ELSE f[(m + 1) - 1] \o ss[m + 1]
    BY <1>2
  <2>2. g[m + 1] = IF m + 1 = 1 THEN ss[1] ELSE g[(m + 1) - 1] \o ss[m + 1]
    OBVIOUS
  <2>3. m # 0 => f[m] = g[m]
    BY <1>5, <2>0
  <2>4. (m + 1) - 1 = m
    BY <2>0
  <2> QED
    BY <2>0, <2>1, <2>2, <2>3, <2>4
<1> HIDE DEF N
<1>8. Len(ss) \in N
  BY <1>5, <1>6, <1>7, SetInduction
<1> QED
  BY <1>3, <1>5, <1>8 DEF N

LEMMA FlattenBy ==
    ASSUME NEW S, NEW ss \in Seq(Seq(S)), Len(ss) # 0
    PROVE  \E g : Concatenates(g, ss, Len(ss), S) /\ FlattenSeq(ss) = g[Len(ss)]
<1>1. Len(ss) \in Nat /\ Len(ss) <= Len(ss)
  OBVIOUS
<1>2. PICK g : Concatenates(g, ss, Len(ss), S)
  BY <1>1, FlattenExists
<1>3. FlattenSeq(ss) = g[Len(ss)]
  BY <1>2, FlattenIs
<1> QED
  BY <1>2, <1>3

LEMMA FlattenNothing == FlattenSeq(<<>>) = <<>>
  BY DEF FlattenSeq

LEMMA FlattenType ==
    ASSUME NEW S, NEW ss \in Seq(Seq(S))
    PROVE  FlattenSeq(ss) \in Seq(S)
<1>1. CASE Len(ss) = 0
  <2>1. ss = <<>> /\ <<>> \in Seq(S)
    BY <1>1
  <2> QED
    BY <2>1, FlattenNothing, Zenon
<1>2. CASE Len(ss) # 0
  <2>1. Len(ss) \in 1..Len(ss)
    BY <1>2
  <2> QED
    BY <1>2, <2>1, FlattenBy DEF Concatenates
<1> QED
  BY <1>1, <1>2

\* One sequence more is concatenated at the end.
LEMMA FlattenAppend ==
    ASSUME NEW S, NEW ss \in Seq(Seq(S)), NEW x \in Seq(S)
    PROVE  FlattenSeq(Append(ss, x)) = FlattenSeq(ss) \o x
<1> DEFINE n == Len(ss)
           tt == Append(ss, x)
<1>1. /\ n \in Nat /\ tt \in Seq(Seq(S)) /\ Len(tt) = n + 1 /\ tt[n + 1] = x
      /\ \A i \in 1..n : tt[i] = ss[i]
  OBVIOUS
<1> HIDE DEF tt, n
<1>2. CASE n = 0
  <2>0. Len(tt) # 0
    BY <1>1
  <2>1. PICK h : Concatenates(h, tt, Len(tt), S) /\ FlattenSeq(tt) = h[Len(tt)]
    BY <1>1, <2>0, FlattenBy, Zenon
  <2>2. ss = <<>>
    BY <1>2 DEF n
  <2>3. FlattenSeq(tt) = x
    BY <1>1, <1>2, <2>1 DEF Concatenates
  <2> QED
    BY <2>2, <2>3, FlattenNothing DEF tt
<1>3. CASE n # 0
  <2>0. PICK g : Concatenates(g, ss, n, S) /\ FlattenSeq(ss) = g[n]
    BY <1>3, FlattenBy DEF n
  <2>1. /\ g \in [1..n -> Seq(S)]
        /\ \A i \in 1..n : g[i] = IF i = 1 THEN ss[1] ELSE g[i - 1] \o ss[i]
    BY <2>0 DEF Concatenates
  <2> DEFINE h == [i \in 1..n + 1 |-> IF i = n + 1 THEN g[n] \o x ELSE g[i]]
  <2>2. g[n] \in Seq(S) /\ g[n] \o x \in Seq(S)
    <3>1. g[n] \in Seq(S)
      BY <1>1, <1>3, <2>1
    <3> QED
      BY <3>1
  <2>3. h \in [1..n + 1 -> Seq(S)]
    BY <1>1, <2>1, <2>2
  <2>4. ASSUME NEW i \in 1..n + 1 PROVE h[i] = IF i = 1 THEN tt[1] ELSE h[i - 1] \o tt[i]
    <3>1. CASE i = n + 1
      <4>1. i - 1 = n /\ n \in 1..n + 1 /\ n # n + 1 /\ i # 1
        BY <1>1, <1>3, <3>1
      <4>2. h[i] = g[n] \o x /\ h[n] = g[n] /\ tt[i] = x
        BY <1>1, <3>1, <4>1
      <4> HIDE DEF h
      <4> QED
        BY <4>1, <4>2
    <3>2. CASE i = 1 /\ i # n + 1
      <4>1. i \in 1..n
        BY <1>1, <3>2
      <4>2. h[i] = g[i] /\ tt[i] = ss[i] /\ g[i] = ss[1]
        BY <1>1, <2>1, <3>2, <4>1
      <4> HIDE DEF h
      <4> QED
        BY <3>2, <4>2
    <3>3. CASE i # 1 /\ i # n + 1
      <4>1. i \in 1..n /\ i - 1 \in 1..n + 1 /\ i - 1 # n + 1
        BY <1>1, <3>3
      <4>2. h[i] = g[i] /\ h[i - 1] = g[i - 1] /\ tt[i] = ss[i]
        BY <1>1, <3>3, <4>1
      <4> HIDE DEF h
      <4> QED
        BY <2>1, <3>3, <4>1, <4>2
    <3> QED
      BY <3>1, <3>2, <3>3
  <2>5. h[n + 1] = g[n] \o x
    BY <1>1
  <2> HIDE DEF h
  <2>6. Concatenates(h, tt, Len(tt), S)
    BY <1>1, <2>3, <2>4 DEF Concatenates
  <2>7. FlattenSeq(tt) = h[n + 1]
    BY <1>1, <2>6, FlattenIs
  <2> QED
    BY <2>0, <2>5, <2>7 DEF tt
<1> QED
  BY <1>2, <1>3 DEF tt

-----------------------------------------------------------------------------
(* Frames *)

FrameTypes == {"created", "in_progress", "item_added", "part_added", "delta", "part_done",
               "text_done", "arguments_done", "item_done", "error"}

ItemFrames == [type : FrameTypes, item : Items \cup {"none"}, id : Nat, index : Nat, text : Seq(Nat)]

CallItem == [id : Nat, text : Nat]

OutputItem == [item : Items, id : Nat, text : Seq(Nat)]

Frames == ItemFrames \cup [type : {"completed"}, output : Seq(OutputItem)]

\* The frames of an item between its first and last, and the last.
InnerTypes == {"part_added", "delta", "part_done", "text_done", "arguments_done", "item_done"}

LEMMA FrameType ==
    ASSUME NEW type \in FrameTypes, NEW item \in Items \cup {"none"}, NEW id \in Nat,
           NEW index \in Nat, NEW text \in Seq(Nat)
    PROVE  /\ Frame(type, item, id, index, text) \in ItemFrames
           /\ Frame(type, item, id, index, text).type = type
           /\ Frame(type, item, id, index, text).item = item
           /\ Frame(type, item, id, index, text).id = id
           /\ Frame(type, item, id, index, text).index = index
           /\ Frame(type, item, id, index, text).text = text
  BY DEF Frame, ItemFrames

\* "Positions" and "Before" of any sequence of frames.
At(s, type) == { i \in DOMAIN s : s[i].type = type }

Count(s, type) == Cardinality(At(s, type))

Earlier(s, type, i) == Cardinality({ j \in At(s, type) : j < i })

LEMMA CountAppend ==
    ASSUME NEW s \in Seq(Frames), NEW f \in Frames, NEW type
    PROVE  LET n == Len(s) + 1
               t == Append(s, f)
           IN  /\ At(t, type) = IF f.type = type THEN At(s, type) \cup {n} ELSE At(s, type)
               /\ Count(s, type) \in Nat
               /\ Count(t, type) = Count(s, type) + (IF f.type = type THEN 1 ELSE 0)
               /\ \A i \in 1..Len(s) : Earlier(t, type, i) = Earlier(s, type, i)
               /\ Earlier(t, type, n) = Count(s, type)
<1> DEFINE n == Len(s) + 1
           t == Append(s, f)
<1>1. /\ Len(s) \in Nat /\ DOMAIN s = 1..Len(s) /\ DOMAIN t = 1..n
      /\ t[n] = f /\ \A i \in 1..Len(s) : t[i] = s[i]
  OBVIOUS
<1> HIDE DEF t
<1>2. At(t, type) = IF f.type = type THEN At(s, type) \cup {n} ELSE At(s, type)
  BY <1>1 DEF At
<1>3. IsFiniteSet(At(s, type)) /\ n \notin At(s, type)
  <2>1. IsFiniteSet(1..Len(s)) /\ At(s, type) \subseteq 1..Len(s)
    BY <1>1, FS_Interval DEF At
  <2> QED
    BY <1>1, <2>1, FS_Subset
<1>4. Count(s, type) \in Nat
  BY <1>3, FS_CardinalityType DEF Count
<1>5. Count(t, type) = Count(s, type) + (IF f.type = type THEN 1 ELSE 0)
  <2>1. CASE f.type = type
    <3>1. Cardinality(At(s, type) \cup {n}) = Cardinality(At(s, type)) + 1
      BY <1>3, FS_AddElement
    <3> QED
      BY <1>2, <2>1, <3>1 DEF Count
  <2>2. CASE f.type # type
    BY <1>2, <1>4, <2>2 DEF Count
  <2> QED
    BY <2>1, <2>2
<1>6. ASSUME NEW i \in 1..Len(s) PROVE Earlier(t, type, i) = Earlier(s, type, i)
  <2>1. { j \in At(t, type) : j < i } = { j \in At(s, type) : j < i }
    BY <1>1, <1>2
  <2> QED
    BY <2>1 DEF Earlier
<1>7. Earlier(t, type, n) = Count(s, type)
  <2>1. { j \in At(t, type) : j < n } = At(s, type)
    BY <1>1, <1>2 DEF At
  <2> QED
    BY <2>1 DEF Earlier, Count
<1> QED
  BY <1>2, <1>4, <1>5, <1>6, <1>7 DEF t

-----------------------------------------------------------------------------
(* The items one by one *)

\* What ItemsOneByOne asks, of any sequence of frames.
Begun(s, i) ==
    s[i].type \notin {"created", "error"} =>
        s[1].type = "created" /\ (i > 1 => s[2].type = "in_progress")

AddedInTurn(s, i) ==
    /\ Earlier(s, "item_done", i) = Earlier(s, "item_added", i)
    /\ s[i].index = Earlier(s, "item_added", i)
    /\ \A j \in At(s, "item_added") : j # i => s[j].id # s[i].id

OfOpenItem(s, i) ==
    \E j \in At(s, "item_added") :
        /\ j < i /\ Earlier(s, "item_done", i) = Earlier(s, "item_done", j)
        /\ s[j].id = s[i].id /\ s[j].item = s[i].item
        /\ s[j].index = s[i].index

InOrder(s) ==
    /\ \A i \in DOMAIN s : Begun(s, i)
    /\ Count(s, "created") <= 1
    /\ \A i \in At(s, "item_added") : AddedInTurn(s, i)
    /\ \A i \in DOMAIN s : s[i].type \in InnerTypes => OfOpenItem(s, i)
    /\ \A i \in At(s, "completed") : Earlier(s, "item_done", i) = Earlier(s, "item_added", i)

LEMMA OneByOne == InOrder(sent) <=> ItemsOneByOne
  BY DEF InOrder, ItemsOneByOne, Begun, AddedInTurn, OfOpenItem, At, Count, Earlier,
     Positions, Before, InnerTypes

\* A response that has been created.
Started(s) == Len(s) > 1 /\ s[1].type = "created" /\ s[2].type = "in_progress"

\* What the next frame has to be.
Fits(s, f) ==
    /\ f.type # "created"
    /\ f.type = "item_added" =>
          /\ Count(s, "item_done") = Count(s, "item_added")
          /\ f.index = Count(s, "item_added")
          /\ \A j \in At(s, "item_added") : s[j].id # f.id
    /\ f.type \in InnerTypes =>
          \E j \in At(s, "item_added") :
              /\ Count(s, "item_done") = Earlier(s, "item_done", j)
              /\ s[j].id = f.id /\ s[j].item = f.item /\ s[j].index = f.index
    /\ f.type = "completed" => Count(s, "item_done") = Count(s, "item_added")

LEMMA OrderAppend ==
    ASSUME NEW s \in Seq(Frames), NEW f \in Frames, InOrder(s), Started(s), Fits(s, f)
    PROVE  InOrder(Append(s, f)) /\ Started(Append(s, f))
<1> DEFINE n == Len(s) + 1
           t == Append(s, f)
<1>1. /\ Len(s) \in Nat /\ DOMAIN s = 1..Len(s) /\ DOMAIN t = 1..n /\ Len(t) = n
      /\ t[n] = f /\ \A i \in 1..Len(s) : t[i] = s[i]
      /\ n \notin 1..Len(s)
  OBVIOUS
<1>2. \A type : /\ At(t, type) = IF f.type = type THEN At(s, type) \cup {n} ELSE At(s, type)
                /\ Count(t, type) = Count(s, type) + (IF f.type = type THEN 1 ELSE 0)
                /\ Count(s, type) \in Nat
                /\ \A i \in 1..Len(s) : Earlier(t, type, i) = Earlier(s, type, i)
                /\ Earlier(t, type, n) = Count(s, type)
  BY CountAppend
<1>3. \A type : At(s, type) \subseteq 1..Len(s)
  BY <1>1 DEF At
<1> HIDE DEF t, n
<1>4. Started(t)
  <2>1. 1 \in 1..Len(s) /\ 2 \in 1..Len(s) /\ n > 1
    BY <1>1 DEF Started, n
  <2> QED
    BY <1>1, <2>1 DEF Started
<1>5. ASSUME NEW i \in DOMAIN t PROVE Begun(t, i)
  BY <1>1, <1>4 DEF InOrder, Begun, Started
<1>6. Count(t, "created") <= 1
  BY <1>2 DEF InOrder, Fits
<1>7. ASSUME NEW i \in At(t, "item_added") PROVE AddedInTurn(t, i)
  <2>1. CASE i \in At(s, "item_added")
    <3>1. AddedInTurn(s, i) /\ i \in 1..Len(s) /\ t[i] = s[i]
      BY <1>1, <1>3, <2>1 DEF InOrder
    <3>2. ASSUME NEW j \in At(t, "item_added"), j # i PROVE t[j].id # t[i].id
      <4>1. CASE j \in At(s, "item_added")
        BY <1>1, <1>3, <3>1, <3>2, <4>1 DEF AddedInTurn
      <4>2. CASE j \notin At(s, "item_added")
        <5>1. j = n /\ f.type = "item_added"
          BY <1>2, <4>2
        <5> QED
          BY <1>1, <2>1, <3>1, <5>1 DEF Fits
      <4> QED
        BY <4>1, <4>2
    <3>3. /\ Earlier(t, "item_done", i) = Earlier(s, "item_done", i)
          /\ Earlier(t, "item_added", i) = Earlier(s, "item_added", i)
      BY <1>2, <3>1
    <3> QED
      BY <3>1, <3>2, <3>3 DEF AddedInTurn
  <2>2. CASE i \notin At(s, "item_added")
    <3>1. i = n /\ f.type = "item_added"
      BY <1>2, <2>2
    <3>2. ASSUME NEW j \in At(t, "item_added"), j # i PROVE t[j].id # t[i].id
      <4>1. j \in At(s, "item_added")
        BY <1>2, <3>1, <3>2
      <4> QED
        BY <1>1, <1>3, <3>1, <4>1 DEF Fits
    <3>3. t[i].index = Count(s, "item_added") /\ Count(s, "item_done") = Count(s, "item_added")
      BY <1>1, <3>1 DEF Fits
    <3>4. /\ Earlier(t, "item_done", i) = Count(s, "item_done")
          /\ Earlier(t, "item_added", i) = Count(s, "item_added")
      BY <1>2, <3>1
    <3> QED
      BY <3>2, <3>3, <3>4 DEF AddedInTurn
  <2> QED
    BY <2>1, <2>2
<1>8. ASSUME NEW i \in DOMAIN t, t[i].type \in InnerTypes PROVE OfOpenItem(t, i)
  <2>1. CASE i \in 1..Len(s)
    <3>1. t[i] = s[i] /\ OfOpenItem(s, i)
      BY <1>1, <1>8, <2>1 DEF InOrder
    <3>2. PICK j \in At(s, "item_added") :
              /\ j < i /\ Earlier(s, "item_done", i) = Earlier(s, "item_done", j)
              /\ s[j].id = s[i].id /\ s[j].item = s[i].item /\ s[j].index = s[i].index
      BY <3>1 DEF OfOpenItem
    <3>3. j \in At(t, "item_added") /\ j \in 1..Len(s) /\ t[j] = s[j]
      BY <1>1, <1>2, <1>3
    <3>4. /\ Earlier(t, "item_done", i) = Earlier(s, "item_done", i)
          /\ Earlier(t, "item_done", j) = Earlier(s, "item_done", j)
      BY <1>2, <2>1, <3>3
    <3> QED
      BY <3>1, <3>2, <3>3, <3>4 DEF OfOpenItem
  <2>2. CASE i \notin 1..Len(s)
    <3>1. i = n /\ t[i] = f /\ f.type \in InnerTypes
      BY <1>1, <1>8, <2>2 DEF n
    <3>2. PICK j \in At(s, "item_added") :
              /\ Count(s, "item_done") = Earlier(s, "item_done", j)
              /\ s[j].id = f.id /\ s[j].item = f.item /\ s[j].index = f.index
      BY <3>1 DEF Fits
    <3>3. j \in At(t, "item_added") /\ j \in 1..Len(s) /\ t[j] = s[j] /\ j < n
      BY <1>1, <1>2, <1>3 DEF n
    <3>4. /\ Earlier(t, "item_done", n) = Count(s, "item_done")
          /\ Earlier(t, "item_done", j) = Earlier(s, "item_done", j)
      BY <1>2, <3>3
    <3> QED
      BY <3>1, <3>2, <3>3, <3>4 DEF OfOpenItem
  <2> QED
    BY <2>1, <2>2
<1>9. ASSUME NEW i \in At(t, "completed")
      PROVE  Earlier(t, "item_done", i) = Earlier(t, "item_added", i)
  <2>1. CASE i \in At(s, "completed")
    BY <1>2, <1>3, <2>1 DEF InOrder
  <2>2. CASE i \notin At(s, "completed")
    BY <1>2, <2>2 DEF Fits
  <2> QED
    BY <2>1, <2>2
<1>10. InOrder(t)
  BY <1>5, <1>6, <1>7, <1>8, <1>9 DEF InOrder
<1> QED
  BY <1>4, <1>10 DEF t

-----------------------------------------------------------------------------
(* What is streamed *)

\* The texts of the frames in Q, one after another.
Streamed(s, Q) ==
    FlattenSeq([i \in DOMAIN s |-> IF s[i] \in Q THEN s[i].text ELSE <<>>])

OfId(id) == { f \in ItemFrames : f.type = "delta" /\ f.id = id }

OfItem(item) == { f \in ItemFrames : f.type = "delta" /\ f.item = item }

LEMMA StreamedAppend ==
    ASSUME NEW s \in Seq(Frames), NEW f \in Frames, NEW Q \in SUBSET ItemFrames
    PROVE  /\ Streamed(s, Q) \in Seq(Nat)
           /\ f \in Q => Streamed(Append(s, f), Q) = Streamed(s, Q) \o f.text
           /\ f \notin Q => Streamed(Append(s, f), Q) = Streamed(s, Q)
<1> DEFINE Text(g) == IF g \in Q THEN g.text ELSE <<>>
           parts == [i \in DOMAIN s |-> Text(s[i])]
           t == Append(s, f)
           more == [i \in DOMAIN t |-> Text(t[i])]
<1>1. \A g : Text(g) \in Seq(Nat)
  BY DEF ItemFrames
<1>2. Streamed(s, Q) = FlattenSeq(parts) /\ Streamed(t, Q) = FlattenSeq(more)
  BY DEF Streamed
<1>3. /\ Len(s) \in Nat /\ DOMAIN s = 1..Len(s) /\ DOMAIN t = 1..(Len(s) + 1)
      /\ t[Len(s) + 1] = f /\ \A i \in 1..Len(s) : t[i] = s[i]
  OBVIOUS
<1> HIDE DEF Text, t
<1>4. parts \in Seq(Seq(Nat)) /\ Len(parts) = Len(s)
  BY <1>1, <1>3
<1>5. more = Append(parts, Text(f))
  <2>1. /\ more \in Seq(Seq(Nat)) /\ Len(more) = Len(s) + 1
    BY <1>1, <1>3
  <2>2. /\ Append(parts, Text(f)) \in Seq(Seq(Nat)) /\ Len(Append(parts, Text(f))) = Len(s) + 1
    BY <1>1, <1>4
  <2>3. ASSUME NEW i \in 1..(Len(s) + 1) PROVE more[i] = Append(parts, Text(f))[i]
    <3>1. CASE i = Len(s) + 1
      BY <1>3, <1>4, <3>1
    <3>2. CASE i \in 1..Len(s)
      BY <1>3, <1>4, <3>2
    <3> QED
      BY <1>3, <3>1, <3>2
  <2> HIDE DEF more, parts
  <2> QED
    BY <2>1, <2>2, <2>3, SeqEqual
<1> HIDE DEF parts, more
<1>6. FlattenSeq(parts) \in Seq(Nat) /\ FlattenSeq(more) = FlattenSeq(parts) \o Text(f)
  BY <1>1, <1>4, <1>5, FlattenType, FlattenAppend
<1>7. f \notin Q => FlattenSeq(parts) \o Text(f) = FlattenSeq(parts)
  BY <1>6 DEF Text
<1> QED
  BY <1>2, <1>6, <1>7 DEF Text, t

LEMMA StreamedOther ==
    ASSUME NEW s \in Seq(Frames), NEW f \in Frames, f.type # "delta"
    PROVE  /\ \A id : Streamed(Append(s, f), OfId(id)) = Streamed(s, OfId(id))
           /\ \A item : Streamed(Append(s, f), OfItem(item)) = Streamed(s, OfItem(item))
<1>1. ASSUME NEW id PROVE OfId(id) \in SUBSET ItemFrames /\ f \notin OfId(id)
  BY DEF OfId
<1>2. ASSUME NEW item PROVE OfItem(item) \in SUBSET ItemFrames /\ f \notin OfItem(item)
  BY DEF OfItem
<1> QED
  BY <1>1, <1>2, StreamedAppend

LEMMA SuffixBy ==
    ASSUME NEW s \in Seq(Nat), NEW t \in Seq(Nat)
    PROVE  IsSuffix(s, t) <=>
              /\ Len(s) <= Len(t)
              /\ \A i \in 1..Len(s) : s[i] = t[Len(t) - Len(s) + i]
<1> DEFINE m == Len(s)
           n == Len(t)
           r == Reverse(s)
           u == Reverse(t)
<1>1. /\ m \in Nat /\ n \in Nat
      /\ r \in Seq(Nat) /\ Len(r) = m /\ \A i \in 1..m : r[i] = s[(m - i) + 1]
      /\ u \in Seq(Nat) /\ Len(u) = n /\ \A i \in 1..n : u[i] = t[(n - i) + 1]
  BY DEF Reverse
<1>2. IsSuffix(s, t) <=> m <= n /\ SubSeq(r, 1, m) = SubSeq(u, 1, m)
  BY <1>1 DEF IsSuffix, IsPrefix
<1>0. m = Len(s) /\ n = Len(t)
  OBVIOUS
<1> HIDE DEF r, u, m, n
<1>3. ASSUME m <= n PROVE SubSeq(r, 1, m) = SubSeq(u, 1, m) <=> \A i \in 1..m : r[i] = u[i]
  <2>1. /\ SubSeq(r, 1, m) \in Seq(Nat) /\ Len(SubSeq(r, 1, m)) = m
        /\ \A i \in 1..m : SubSeq(r, 1, m)[i] = r[i]
    BY <1>1
  <2>2. /\ SubSeq(u, 1, m) \in Seq(Nat) /\ Len(SubSeq(u, 1, m)) = m
        /\ \A i \in 1..m : SubSeq(u, 1, m)[i] = u[i]
    <3>1. \A i \in 1..m : i \in 1..n /\ u[i] \in Nat
      BY <1>1, <1>3
    <3>2. m - 1 + 1 = m
      BY <1>1
    <3> QED
      BY <1>1, <3>1, <3>2, SubSeqProperties
  <2> QED
    BY <2>1, <2>2, SeqEqual
<1>4. ASSUME m <= n
      PROVE  (\A i \in 1..m : r[i] = u[i]) <=> \A i \in 1..m : s[i] = t[n - m + i]
  <2>0. ASSUME NEW i \in 1..m
        PROVE  /\ (m - i) + 1 \in 1..m /\ (m - i) + 1 \in 1..n /\ i \in 1..n
               /\ (m - ((m - i) + 1)) + 1 = i /\ (n - ((m - i) + 1)) + 1 = n - m + i
               /\ n - m + ((m - i) + 1) = (n - i) + 1
    <3>1. m \in Nat /\ n \in Nat /\ m <= n
      BY <1>1, <1>4
    <3> QED
      BY <3>1
  <2>1. ASSUME \A i \in 1..m : r[i] = u[i], NEW i \in 1..m PROVE s[i] = t[n - m + i]
    <3> DEFINE k == (m - i) + 1
    <3>0. k \in 1..m /\ k \in 1..n /\ (m - k) + 1 = i /\ (n - k) + 1 = n - m + i
      BY <2>0
    <3> HIDE DEF k
    <3>1. r[k] = s[i] /\ u[k] = t[n - m + i]
      BY <1>1, <3>0
    <3> QED
      BY <2>1, <3>0, <3>1
  <2>2. ASSUME \A i \in 1..m : s[i] = t[n - m + i], NEW i \in 1..m PROVE r[i] = u[i]
    <3>1. r[i] = s[(m - i) + 1] /\ u[i] = t[(n - i) + 1]
      BY <1>1, <2>0
    <3> QED
      BY <2>0, <2>2, <3>1
  <2> QED
    BY <2>1, <2>2
<1> QED
  BY <1>0, <1>2, <1>3, <1>4

LEMMA SuffixAppend ==
    ASSUME NEW s \in Seq(Nat), NEW t \in Seq(Nat), IsSuffix(s, t), NEW n \in Nat
    PROVE  IsSuffix(s \o <<n>>, Append(t, n))
<1> DEFINE u == s \o <<n>>
           v == Append(t, n)
<1>1. /\ Len(s) \in Nat /\ Len(t) \in Nat /\ u \in Seq(Nat) /\ v \in Seq(Nat)
      /\ Len(u) = Len(s) + 1 /\ Len(v) = Len(t) + 1
      /\ u[Len(s) + 1] = n /\ v[Len(t) + 1] = n
      /\ \A i \in 1..Len(s) : u[i] = s[i]
      /\ \A i \in 1..Len(t) : v[i] = t[i]
  OBVIOUS
<1>2. Len(s) <= Len(t) /\ \A i \in 1..Len(s) : s[i] = t[Len(t) - Len(s) + i]
  BY SuffixBy
<1> HIDE DEF u, v
<1>3. ASSUME NEW i \in 1..Len(u) PROVE u[i] = v[Len(v) - Len(u) + i]
  <2>1. Len(v) - Len(u) + i = Len(t) - Len(s) + i
    BY <1>1
  <2>2. CASE i = Len(s) + 1
    <3>1. Len(t) - Len(s) + i = Len(t) + 1
      BY <1>1, <2>2
    <3> QED
      BY <1>1, <2>1, <2>2, <3>1
  <2>3. CASE i \in 1..Len(s)
    <3>1. Len(t) - Len(s) + i \in 1..Len(t)
      BY <1>1, <1>2, <2>3
    <3> QED
      BY <1>1, <1>2, <2>1, <2>3, <3>1
  <2> QED
    BY <1>1, <2>2, <2>3
<1>4. Len(u) <= Len(v)
  BY <1>1, <1>2
<1> QED
  BY <1>1, <1>3, <1>4, SuffixBy DEF u, v

LEMMA SuffixSelf == ASSUME NEW t \in Seq(Nat) PROVE IsSuffix(t, t)
<1>1. /\ Len(t) \in Nat /\ Len(t) <= Len(t)
      /\ \A i \in 1..Len(t) : Len(t) - Len(t) + i = i
  OBVIOUS
<1> QED
  BY <1>1, SuffixBy

LEMMA NothingSuffix == ASSUME NEW t \in Seq(Nat) PROVE IsSuffix(<<>>, t)
<1> DEFINE e == <<>>
<1>1. e \in Seq(Nat) /\ Len(e) = 0 /\ Len(t) \in Nat
  OBVIOUS
<1> HIDE DEF e
<1>2. Len(e) <= Len(t) /\ \A i \in 1..Len(e) : e[i] = t[Len(t) - Len(e) + i]
  BY <1>1
<1>3. IsSuffix(e, t)
  BY <1>1, <1>2, SuffixBy
<1> QED
  BY <1>3 DEF e

-----------------------------------------------------------------------------
(* The client's view *)

\* The texts items are closed with end in what was streamed under their ids, and are
\* the end of what had been streamed of their kinds.
DoneEnds(s) ==
    \A i \in At(s, "item_done") :
        /\ IsSuffix(Streamed(s, OfId(s[i].id)), s[i].text)
        /\ IsSuffix(s[i].text, Streamed(SubSeq(s, 1, i), OfItem(s[i].item)))

LEMMA DoneEndsIs ==
    ASSUME sent \in Seq(Frames) PROVE DoneEnds(sent) <=> DoneEndsInItsDeltas
<1>1. ASSUME NEW id, NEW i \in DOMAIN sent
      PROVE  sent[i] \in OfId(id) <=> sent[i].type = "delta" /\ sent[i].id = id
  <2>1. sent[i] \in Frames
    OBVIOUS
  <2> QED
    BY <2>1 DEF Frames, OfId, FrameTypes
<1>2. ASSUME NEW id
      PROVE  Streamed(sent, OfId(id)) =
             FlattenSeq([i \in DOMAIN sent |-> IF sent[i].type = "delta" /\ sent[i].id = id
                                               THEN sent[i].text ELSE <<>>])
  BY <1>1 DEF Streamed
<1>3. At(sent, "item_done") = Positions("item_done") /\ \A i \in At(sent, "item_done") : i \in 1..Len(sent)
  BY DEF At, Positions
<1>4. ASSUME NEW i \in 1..Len(sent), NEW k
      PROVE  DeltasIn(SubSeq(sent, 1, i), LAMBDA f : f.item = k)
             = Streamed(SubSeq(sent, 1, i), OfItem(k))
  <2> DEFINE r == SubSeq(sent, 1, i)
  <2>1. \A j \in DOMAIN r : r[j] \in Frames
    OBVIOUS
  <2> HIDE DEF r
  <2>2. \A j \in DOMAIN r : r[j].type = "delta" /\ r[j].item = k <=> r[j] \in OfItem(k)
    BY <2>1 DEF OfItem, Frames, ItemFrames
  <2>3. [j \in DOMAIN r |-> IF r[j].type = "delta" /\ r[j].item = k THEN r[j].text ELSE <<>>]
        = [j \in DOMAIN r |-> IF r[j] \in OfItem(k) THEN r[j].text ELSE <<>>]
    BY <2>2
  <2>4. DeltasIn(r, LAMBDA f : f.item = k) = Streamed(r, OfItem(k))
    BY <2>3 DEF DeltasIn, Streamed
  <2> QED
    BY <2>4 DEF r
<1>5. \A i \in At(sent, "item_done") :
          DeltasIn(SubSeq(sent, 1, i), LAMBDA f : f.item = sent[i].item)
          = Streamed(SubSeq(sent, 1, i), OfItem(sent[i].item))
  BY <1>3, <1>4
<1>6. \A i \in At(sent, "item_done") :
          DeltasOf(LAMBDA f : f.id = sent[i].id) = Streamed(sent, OfId(sent[i].id))
  BY <1>2 DEF DeltasOf, DeltasIn
<1>7. DoneEndsInItsDeltas <=>
      \A i \in At(sent, "item_done") :
          /\ IsSuffix(DeltasOf(LAMBDA f : f.id = sent[i].id), sent[i].text)
          /\ IsSuffix(sent[i].text, DeltasIn(SubSeq(sent, 1, i), LAMBDA f : f.item = sent[i].item))
  BY <1>3 DEF DoneEndsInItsDeltas, DeltasOf, DeltasIn
<1>8. DoneEndsInItsDeltas <=>
      \A i \in At(sent, "item_done") :
          /\ IsSuffix(Streamed(sent, OfId(sent[i].id)), sent[i].text)
          /\ IsSuffix(sent[i].text, Streamed(SubSeq(sent, 1, i), OfItem(sent[i].item)))
  BY <1>5, <1>6, <1>7
<1> QED
  BY <1>8 DEF DoneEnds

LEMMA PrefixAppend ==
    ASSUME NEW S, NEW s \in Seq(S), NEW f \in S
    PROVE  /\ \A i \in 1..Len(s) : SubSeq(Append(s, f), 1, i) = SubSeq(s, 1, i)
           /\ SubSeq(Append(s, f), 1, Len(s) + 1) = Append(s, f)
  OBVIOUS

\* A created, uncompleted response after the frames s: which item is open (none, or
\* "item" with an id), the index of it or of the next one, the ids in use, and a
\* text that ends in what the open item has been streamed with and is the end of
\* what was streamed of its kind.
View(s, used, item, id, index, text) ==
    /\ s \in Seq(Frames) /\ Started(s) /\ InOrder(s) /\ DoneEnds(s)
    /\ used \in Nat /\ index \in Nat /\ text \in Seq(Nat) /\ item \in Items \cup {"none"}
    /\ At(s, "completed") = {}
    /\ Count(s, "item_done") = index
    /\ Count(s, "item_added") = index + (IF item = "none" THEN 0 ELSE 1)
    /\ \A i \in At(s, "item_added") \cup At(s, "item_done") : s[i].id \in 1..used
    /\ \A k \in Nat : k > used => Streamed(s, OfId(k)) = <<>>
    /\ item = "none" => id = 0
    /\ item # "none" =>
          /\ id \in 1..used
          /\ IsSuffix(Streamed(s, OfId(id)), text)
          /\ IsSuffix(text, Streamed(s, OfItem(item)))
          /\ \A i \in At(s, "item_done") : s[i].id # id
          /\ \E j \in At(s, "item_added") :
                /\ Earlier(s, "item_done", j) = index
                /\ s[j].id = id /\ s[j].item = item /\ s[j].index = index

LEMMA AtTyped ==
    ASSUME NEW s \in Seq(Frames), NEW type
    PROVE  /\ \A i \in At(s, type) : i \in 1..Len(s) /\ s[i] \in Frames /\ s[i].type = type
           /\ type # "completed" => \A i \in At(s, type) : s[i] \in ItemFrames
  BY DEF At, Frames

\* What stays as it is when a frame is appended that streams nothing.
LEMMA DoneAppend ==
    ASSUME NEW s \in Seq(Frames), NEW f \in Frames, DoneEnds(s),
           f.type # "delta",
           f.type = "item_done" => /\ IsSuffix(Streamed(s, OfId(f.id)), f.text)
                                   /\ IsSuffix(f.text, Streamed(s, OfItem(f.item)))
    PROVE  DoneEnds(Append(s, f))
<1> DEFINE t == Append(s, f)
           n == Len(s) + 1
<1>1. At(t, "item_done") = IF f.type = "item_done" THEN At(s, "item_done") \cup {n}
                           ELSE At(s, "item_done")
  BY CountAppend
<1>2. /\ \A id : Streamed(t, OfId(id)) = Streamed(s, OfId(id))
      /\ \A item : Streamed(t, OfItem(item)) = Streamed(s, OfItem(item))
  BY StreamedOther
<1>3. t[n] = f /\ \A i \in 1..Len(s) : t[i] = s[i]
  OBVIOUS
<1>5. SubSeq(t, 1, n) = t /\ \A i \in 1..Len(s) : SubSeq(t, 1, i) = SubSeq(s, 1, i)
  BY PrefixAppend
<1> HIDE DEF t, n
<1>4. ASSUME NEW i \in At(t, "item_done")
      PROVE  /\ IsSuffix(Streamed(t, OfId(t[i].id)), t[i].text)
             /\ IsSuffix(t[i].text, Streamed(SubSeq(t, 1, i), OfItem(t[i].item)))
  <2>1. CASE i \in At(s, "item_done")
    <3>1. t[i] = s[i] /\ IsSuffix(Streamed(s, OfId(s[i].id)), s[i].text)
      BY <1>3, <2>1, AtTyped DEF DoneEnds
    <3>2. IsSuffix(s[i].text, Streamed(SubSeq(s, 1, i), OfItem(s[i].item))) /\ i \in 1..Len(s)
      BY <2>1, AtTyped DEF DoneEnds
    <3> QED
      BY <1>2, <1>5, <3>1, <3>2
  <2>2. CASE i \notin At(s, "item_done")
    <3>1. i = n /\ f.type = "item_done" /\ t[i] = f
      BY <1>1, <1>3, <2>2
    <3> QED
      BY <1>2, <1>5, <3>1
  <2> QED
    BY <2>1, <2>2
<1> QED
  BY <1>4 DEF DoneEnds, t

\* An item is added under an id not used before.
LEMMA ViewAdded ==
    ASSUME NEW s, NEW used, NEW index, View(s, used, "none", 0, index, <<>>),
           NEW item \in Items, NEW text \in Seq(Nat), IsSuffix(text, Streamed(s, OfItem(item))),
           NEW f \in ItemFrames, f.type = "item_added", f.item = item,
           f.id = used + 1, f.index = index
    PROVE  View(Append(s, f), used + 1, item, used + 1, index, text)
<1> DEFINE t == Append(s, f)
           n == Len(s) + 1
<1>1. /\ s \in Seq(Frames) /\ used \in Nat /\ index \in Nat /\ used + 1 \in Nat
      /\ <<>> \in Seq(Nat)
  BY DEF View
<1>2. /\ f \in ItemFrames /\ f \in Frames /\ f.type = "item_added" /\ f.item = item
      /\ f.id = used + 1 /\ f.index = index
  BY DEF Frames
<1>3. /\ t \in Seq(Frames) /\ n \in Nat /\ t[n] = f /\ \A i \in 1..Len(s) : t[i] = s[i]
      /\ n \notin 1..Len(s)
  BY <1>1, <1>2
<1>4. \A type : /\ At(t, type) = IF f.type = type THEN At(s, type) \cup {n} ELSE At(s, type)
                /\ Count(t, type) = Count(s, type) + (IF f.type = type THEN 1 ELSE 0)
                /\ Earlier(t, type, n) = Count(s, type)
  BY <1>1, <1>2, CountAppend
<1>5. InOrder(t) /\ Started(t)
  <2>1. \A j \in At(s, "item_added") : s[j].id # f.id
    BY <1>1, <1>2 DEF View
  <2>2. Fits(s, f)
    BY <1>2, <2>1 DEF Fits, View, InnerTypes
  <2> QED
    BY <1>1, <1>2, <2>2, OrderAppend DEF View
<1>6. DoneEnds(t)
  BY <1>1, <1>2, DoneAppend DEF View
<1>7. \A k \in Nat : k > used => Streamed(t, OfId(k)) = <<>>
  <2>1. f.type # "delta"
    BY <1>2
  <2> QED
    BY <1>1, <1>2, <2>1, StreamedOther DEF View
<1>16. IsSuffix(text, Streamed(t, OfItem(item)))
  <2>1. Streamed(t, OfItem(item)) = Streamed(s, OfItem(item))
    BY <1>1, <1>2, StreamedOther
  <2> QED
    BY <2>1
<1> HIDE DEF t, n
<1>8. /\ At(t, "completed") = {}
      /\ Count(t, "item_done") = index
      /\ Count(t, "item_added") = index + 1
  BY <1>1, <1>2, <1>4 DEF View
<1>9. ASSUME NEW i \in At(t, "item_added") \cup At(t, "item_done")
      PROVE  t[i].id \in 1..(used + 1)
  <2>1. CASE i = n
    BY <1>1, <1>2, <1>3, <2>1
  <2>2. CASE i # n
    <3>1. i \in At(s, "item_added") \cup At(s, "item_done")
      BY <1>2, <1>4, <2>2
    <3>2. s[i].id \in 1..used /\ i \in 1..Len(s)
      BY <1>1, <3>1, AtTyped DEF View
    <3>3. t[i].id \in 1..used
      BY <1>3, <3>2
    <3> QED
      BY <1>1, <3>3
  <2> QED
    BY <2>1, <2>2
<1>10. \A i \in At(t, "item_done") : t[i].id # used + 1
  <2>1. \A i \in At(t, "item_done") : i \in At(s, "item_done") /\ i \in 1..Len(s) /\ s[i].id \in 1..used
    BY <1>1, <1>2, <1>4, AtTyped DEF View
  <2> QED
    BY <1>1, <1>3, <2>1
<1>11. /\ n \in At(t, "item_added") /\ Earlier(t, "item_done", n) = index
       /\ t[n].id = used + 1 /\ t[n].item = item /\ t[n].index = index
  BY <1>2, <1>3, <1>4 DEF View
<1>12. item # "none"
  BY DEF Items, Deltas
<1>13. IsSuffix(Streamed(t, OfId(used + 1)), text)
  BY <1>1, <1>7, NothingSuffix
<1>14. \A k \in Nat : k > used + 1 => Streamed(t, OfId(k)) = <<>>
  BY <1>1, <1>7
<1>15. used + 1 \in 1..(used + 1)
  BY <1>1
<1> QED
  BY <1>1, <1>3, <1>5, <1>6, <1>8, <1>9, <1>10, <1>11, <1>12, <1>13, <1>14, <1>15, <1>16
  DEF View, t

\* A frame of the open item fits.
LEMMA InnerFits ==
    ASSUME NEW s, NEW used, NEW item \in Items, NEW id, NEW index, NEW text,
           View(s, used, item, id, index, text),
           NEW f \in Frames, f.type \in InnerTypes,
           f.id = id, f.item = item, f.index = index
    PROVE  Fits(s, f)
<1>1. item # "none"
  BY DEF Items, Deltas
<1>2. PICK j \in At(s, "item_added") :
          /\ Earlier(s, "item_done", j) = index
          /\ s[j].id = id /\ s[j].item = item /\ s[j].index = index
  BY <1>1 DEF View
<1>3. Count(s, "item_done") = index
  BY DEF View
<1>4. f.type \notin {"created", "item_added", "completed"}
  BY DEF InnerTypes
<1> QED
  BY <1>2, <1>3, <1>4 DEF Fits

\* A frame that leaves its item open, and streams "more".
LEMMA ViewInner ==
    ASSUME NEW s, NEW used, NEW item \in Items, NEW id, NEW index, NEW text, NEW more,
           View(s, used, item, id, index, text), more \in Seq(Nat),
           NEW f \in ItemFrames, f.type \in InnerTypes \ {"item_done"},
           f.id = id, f.item = item, f.index = index,
           DoneEnds(Append(s, f)),
           IsSuffix(Streamed(Append(s, f), OfId(id)), more),
           IsSuffix(more, Streamed(Append(s, f), OfItem(item))),
           \A k \in Nat \ {id} : Streamed(Append(s, f), OfId(k)) = Streamed(s, OfId(k))
    PROVE  View(Append(s, f), used, item, id, index, more)
<1> DEFINE t == Append(s, f)
           n == Len(s) + 1
<1>1. /\ s \in Seq(Frames) /\ used \in Nat /\ index \in Nat /\ f \in Frames
      /\ item # "none" /\ id \in 1..used
  BY DEF View, Frames, Items, Deltas
<1>2. /\ t \in Seq(Frames) /\ n \in Nat /\ t[n] = f /\ \A i \in 1..Len(s) : t[i] = s[i]
      /\ n \notin 1..Len(s)
  BY <1>1
<1>3. f.type \notin {"created", "item_added", "item_done", "completed"}
  BY DEF InnerTypes
<1>4. \A type \in {"item_added", "item_done", "completed"} :
          /\ At(t, type) = At(s, type)
          /\ Count(t, type) = Count(s, type)
          /\ \A i \in 1..Len(s) : Earlier(t, type, i) = Earlier(s, type, i)
  <2> SUFFICES ASSUME NEW type \in {"item_added", "item_done", "completed"}
               PROVE  /\ At(t, type) = At(s, type)
                      /\ Count(t, type) = Count(s, type)
                      /\ \A i \in 1..Len(s) : Earlier(t, type, i) = Earlier(s, type, i)
    OBVIOUS
  <2>1. f.type # type
    BY <1>3
  <2>2. /\ At(t, type) = IF f.type = type THEN At(s, type) \cup {n} ELSE At(s, type)
        /\ Count(t, type) = Count(s, type) + (IF f.type = type THEN 1 ELSE 0)
        /\ Count(s, type) \in Nat
        /\ \A i \in 1..Len(s) : Earlier(t, type, i) = Earlier(s, type, i)
    BY <1>1, CountAppend
  <2> HIDE DEF t, n
  <2> QED
    BY <2>1, <2>2
<1>5. InOrder(t) /\ Started(t)
  <2>1. Fits(s, f)
    BY <1>1, InnerFits
  <2> QED
    BY <1>1, <2>1, OrderAppend DEF View
<1> HIDE DEF t, n
<1>6. \A i \in At(s, "item_added") \cup At(s, "item_done") : t[i] = s[i] /\ i \in 1..Len(s)
  BY <1>1, <1>2, AtTyped
<1>7. \A i \in At(t, "item_added") \cup At(t, "item_done") : t[i].id \in 1..used
  BY <1>4, <1>6 DEF View
<1>8. \A k \in Nat : k > used => Streamed(t, OfId(k)) = <<>>
  <2> SUFFICES ASSUME NEW k \in Nat, k > used PROVE Streamed(t, OfId(k)) = <<>>
    OBVIOUS
  <2>1. k # id
    BY <1>1
  <2> QED
    BY <2>1 DEF View, t
<1>9. \A i \in At(t, "item_done") : t[i].id # id
  BY <1>1, <1>4, <1>6 DEF View
<1>10. \E j \in At(t, "item_added") :
          /\ Earlier(t, "item_done", j) = index
          /\ t[j].id = id /\ t[j].item = item /\ t[j].index = index
  <2>1. PICK j \in At(s, "item_added") :
            /\ Earlier(s, "item_done", j) = index
            /\ s[j].id = id /\ s[j].item = item /\ s[j].index = index
    BY <1>1 DEF View
  <2> QED
    BY <1>4, <1>6, <2>1
<1>11. At(t, "completed") = {} /\ Count(t, "item_done") = index /\ Count(t, "item_added") = index + 1
  BY <1>1, <1>4 DEF View
<1>12. /\ DoneEnds(t) /\ IsSuffix(Streamed(t, OfId(id)), more)
       /\ IsSuffix(more, Streamed(t, OfItem(item)))
  BY DEF t
<1> QED
  BY <1>1, <1>2, <1>5, <1>7, <1>8, <1>9, <1>10, <1>11, <1>12 DEF View, t

\* One that streams nothing.
LEMMA ViewQuiet ==
    ASSUME NEW s, NEW used, NEW item \in Items, NEW id, NEW index, NEW text,
           View(s, used, item, id, index, text),
           NEW f \in ItemFrames, f.type \in InnerTypes \ {"item_done", "delta"},
           f.id = id, f.item = item, f.index = index
    PROVE  View(Append(s, f), used, item, id, index, text)
<1>1. s \in Seq(Frames) /\ f \in Frames /\ f.type # "delta" /\ f.type # "item_done" /\ item # "none"
  BY DEF View, Frames, Items, Deltas
<1>2. DoneEnds(Append(s, f))
  BY <1>1, DoneAppend DEF View
<1>3. /\ \A k : Streamed(Append(s, f), OfId(k)) = Streamed(s, OfId(k))
      /\ Streamed(Append(s, f), OfItem(item)) = Streamed(s, OfItem(item))
  BY <1>1, StreamedOther
<1>4. /\ IsSuffix(Streamed(Append(s, f), OfId(id)), text) /\ text \in Seq(Nat)
      /\ IsSuffix(text, Streamed(Append(s, f), OfItem(item)))
  BY <1>1, <1>3 DEF View
<1> QED
  BY <1>2, <1>3, <1>4, ViewInner

\* A delta.
LEMMA ViewDelta ==
    ASSUME NEW s, NEW used, NEW item \in Items, NEW id, NEW index, NEW text,
           View(s, used, item, id, index, text), NEW m \in Nat,
           NEW f \in ItemFrames, f.type = "delta", f.item = item, f.id = id,
           f.index = index, f.text = <<m>>
    PROVE  View(Append(s, f), used, item, id, index, Append(text, m))
<1> DEFINE t == Append(s, f)
<1>1. /\ s \in Seq(Frames) /\ index \in Nat /\ used \in Nat /\ id \in 1..used /\ text \in Seq(Nat)
      /\ item # "none" /\ id \in Nat
  BY DEF View, Items, Deltas
<1>2. /\ f \in ItemFrames /\ f \in Frames /\ f.type = "delta" /\ f.item = item
      /\ f.id = id /\ f.index = index /\ f.text = <<m>>
  BY DEF Frames
<1>3. f.type \in InnerTypes \ {"item_done"}
  BY <1>2 DEF InnerTypes
<1>4. \A k : OfId(k) \in SUBSET ItemFrames /\ (f \in OfId(k) <=> k = id)
  BY <1>2 DEF OfId
<1>5. \A k \in Nat \ {id} : Streamed(t, OfId(k)) = Streamed(s, OfId(k))
  BY <1>1, <1>2, <1>4, StreamedAppend
<1>6. Streamed(s, OfId(id)) \in Seq(Nat) /\ Streamed(t, OfId(id)) = Streamed(s, OfId(id)) \o <<m>>
  <2>1. f \in OfId(id) /\ OfId(id) \in SUBSET ItemFrames
    BY <1>4
  <2>2. Streamed(s, OfId(id)) \in Seq(Nat) /\ Streamed(t, OfId(id)) = Streamed(s, OfId(id)) \o f.text
    BY <1>1, <1>2, <2>1, StreamedAppend
  <2> QED
    BY <1>2, <2>2
<1>7. Append(text, m) \in Seq(Nat) /\ IsSuffix(Streamed(t, OfId(id)), Append(text, m))
  <2>1. IsSuffix(Streamed(s, OfId(id)), text)
    BY <1>1 DEF View
  <2> QED
    BY <1>1, <1>6, <2>1, SuffixAppend
<1>8. DoneEnds(t)
  <2>1. At(t, "item_done") = At(s, "item_done") /\ \A i \in 1..Len(s) : t[i] = s[i]
    BY <1>1, <1>2, CountAppend
  <2>2. ASSUME NEW i \in At(s, "item_done")
        PROVE  /\ IsSuffix(Streamed(t, OfId(t[i].id)), t[i].text)
               /\ IsSuffix(t[i].text, Streamed(SubSeq(t, 1, i), OfItem(t[i].item)))
    <3>1. t[i] = s[i] /\ s[i].id \in 1..used /\ s[i].id # id /\ i \in 1..Len(s)
      BY <1>1, <2>1, AtTyped DEF View
    <3>2. Streamed(t, OfId(t[i].id)) = Streamed(s, OfId(s[i].id))
      BY <1>1, <1>5, <3>1
    <3>3. SubSeq(t, 1, i) = SubSeq(s, 1, i)
      BY <1>1, <1>2, <3>1, PrefixAppend
    <3> QED
      BY <3>1, <3>2, <3>3 DEF View, DoneEnds
  <2> QED
    BY <2>1, <2>2 DEF DoneEnds
<1>9. IsSuffix(Append(text, m), Streamed(t, OfItem(item)))
  <2> DEFINE was == Streamed(s, OfItem(item))
  <2>1. f \in OfItem(item) /\ OfItem(item) \in SUBSET ItemFrames
    BY <1>2 DEF OfItem
  <2>2. was \in Seq(Nat) /\ Streamed(t, OfItem(item)) = was \o f.text
    BY <1>1, <1>2, <2>1, StreamedAppend
  <2>3. IsSuffix(text, was)
    BY <1>1 DEF View
  <2> HIDE DEF was
  <2>4. Append(text, m) = text \o <<m>> /\ was \o <<m>> = Append(was, m)
    <3>1. \A q \in Seq(Nat) : q \o <<m>> = Append(q, m)
      OBVIOUS
    <3> QED
      BY <1>1, <2>2, <3>1
  <2>5. IsSuffix(text \o <<m>>, Append(was, m))
    BY <1>1, <2>2, <2>3, SuffixAppend
  <2> QED
    BY <1>2, <2>2, <2>4, <2>5
<1> QED
  BY <1>2, <1>3, <1>5, <1>7, <1>8, <1>9, ViewInner

\* An item was closed with this kind, id and text.
ClosedAs(s, item, id, text) ==
    \E j \in At(s, "item_done") : s[j].item = item /\ s[j].id = id /\ s[j].text = text

\* The last frame of an item, with the text.
LEMMA ViewDone ==
    ASSUME NEW s, NEW used, NEW item \in Items, NEW id, NEW index, NEW text,
           View(s, used, item, id, index, text),
           NEW f, f = Frame("item_done", item, id, index, text)
    PROVE  /\ View(Append(s, f), used, "none", 0, index + 1, <<>>)
           /\ ClosedAs(Append(s, f), item, id, text)
<1> DEFINE t == Append(s, f)
           n == Len(s) + 1
<1>1. /\ s \in Seq(Frames) /\ index \in Nat /\ used \in Nat /\ id \in 1..used /\ text \in Seq(Nat)
      /\ item # "none" /\ id \in Nat /\ <<>> \in Seq(Nat)
  BY DEF View, Items, Deltas
<1>2. /\ f \in ItemFrames /\ f \in Frames /\ f.type = "item_done" /\ f.item = item
      /\ f.id = id /\ f.index = index /\ f.text = text
  BY <1>1 DEF Frame, ItemFrames, Frames, FrameTypes
<1>3. /\ t \in Seq(Frames) /\ n \in Nat /\ t[n] = f /\ \A i \in 1..Len(s) : t[i] = s[i]
      /\ n \notin 1..Len(s)
  BY <1>1, <1>2
<1>4. /\ At(t, "item_done") = At(s, "item_done") \cup {n}
      /\ Count(t, "item_done") = index + 1
      /\ At(t, "item_added") = At(s, "item_added")
      /\ Count(t, "item_added") = index + 1
      /\ At(t, "completed") = {}
  <2>1. \A type : /\ At(t, type) = IF f.type = type THEN At(s, type) \cup {n} ELSE At(s, type)
                  /\ Count(t, type) = Count(s, type) + (IF f.type = type THEN 1 ELSE 0)
                  /\ Count(s, type) \in Nat
    BY <1>1, <1>2, CountAppend
  <2> QED
    BY <1>1, <1>2, <2>1 DEF View
<1>5. InOrder(t) /\ Started(t)
  <2>1. Fits(s, f)
    BY <1>2, InnerFits DEF InnerTypes
  <2> QED
    BY <1>1, <1>2, <2>1, OrderAppend DEF View
<1>6. DoneEnds(t)
  <2>1. IsSuffix(Streamed(s, OfId(id)), text) /\ IsSuffix(text, Streamed(s, OfItem(item)))
    BY <1>1 DEF View
  <2> QED
    BY <1>1, <1>2, <2>1, DoneAppend DEF View
<1>7. \A k \in Nat : k > used => Streamed(t, OfId(k)) = <<>>
  <2>1. f.type # "delta"
    BY <1>2
  <2> QED
    BY <1>1, <1>2, <2>1, StreamedOther DEF View
<1> HIDE DEF t, n
<1>8. ASSUME NEW i \in At(t, "item_added") \cup At(t, "item_done") PROVE t[i].id \in 1..used
  <2>1. CASE i = n
    BY <1>1, <1>2, <1>3, <2>1
  <2>2. CASE i # n
    <3>1. i \in At(s, "item_added") \cup At(s, "item_done")
      BY <1>4, <2>2
    <3> QED
      BY <1>1, <1>3, <3>1, AtTyped DEF View
  <2> QED
    BY <2>1, <2>2
<1>9. View(t, used, "none", 0, index + 1, <<>>)
  BY <1>1, <1>3, <1>4, <1>5, <1>6, <1>7, <1>8 DEF View
<1>10. n \in At(t, "item_done") /\ t[n] = f
  BY <1>3, <1>4
<1> QED
  BY <1>2, <1>9, <1>10 DEF t, ClosedAs

\* The response is created.
LEMMA ViewCreated ==
    View(<<Plain("created"), Plain("in_progress")>>, 0, "none", 0, 0, <<>>)
<1> DEFINE c == Plain("created")
           p == Plain("in_progress")
           s == <<c, p>>
<1>1. /\ c \in ItemFrames /\ p \in ItemFrames /\ c \in Frames /\ p \in Frames
      /\ c.type = "created" /\ p.type = "in_progress" /\ <<>> \in Seq(Nat)
  BY DEF Plain, Frame, ItemFrames, Frames, FrameTypes
<1> HIDE DEF c, p
<1>2. /\ s \in Seq(Frames) /\ Len(s) = 2 /\ s[1] = c /\ s[2] = p /\ DOMAIN s = 1..2
      /\ <<>> \in Seq(Frames) /\ <<c>> \in Seq(Frames)
      /\ <<c>> = Append(<<>>, c) /\ s = Append(<<c>>, p)
  BY <1>1
<1>3. \A id : Streamed(s, OfId(id)) = <<>>
  <2>1. \A id : Streamed(<<>>, OfId(id)) = FlattenSeq(<<>>)
    BY DEF Streamed
  <2>2. \A id : Streamed(<<c>>, OfId(id)) = Streamed(<<>>, OfId(id))
    BY <1>1, <1>2, StreamedOther
  <2>3. \A id : Streamed(s, OfId(id)) = Streamed(<<c>>, OfId(id))
    BY <1>1, <1>2, StreamedOther
  <2> QED
    BY <2>1, <2>2, <2>3, FlattenNothing
<1> HIDE DEF s
<1>4. \A type : type \notin {"created", "in_progress"} => At(s, type) = {} /\ Count(s, type) = 0
  BY <1>1, <1>2, FS_EmptySet DEF At, Count
<1>5. Count(s, "created") = 1
  <2>1. At(s, "created") = {1}
    BY <1>1, <1>2 DEF At
  <2> QED
    BY <2>1, FS_Singleton DEF Count
<1>6. Started(s)
  BY <1>1, <1>2 DEF Started
<1>7. InOrder(s)
  BY <1>1, <1>2, <1>4, <1>5, <1>6 DEF InOrder, Begun, Started, InnerTypes
<1>8. DoneEnds(s)
  BY <1>4 DEF DoneEnds
<1> QED
  BY <1>1, <1>2, <1>3, <1>4, <1>6, <1>7, <1>8 DEF View, s, c, p

-----------------------------------------------------------------------------
(* The buffers and what was closed with them *)

CallTexts(cs) == [i \in DOMAIN cs |-> cs[i].text]

\* The buffers b and the calls cs hold all that was streamed; of what they hold,
\* everything but the open item was closed so, under the item ids i.
Held(s, b, cs) ==
    /\ \A k \in Deltas : b[k] = Streamed(s, OfItem(k))
    /\ CallTexts(cs) = Streamed(s, OfItem("fc"))

Closed(s, b, i, cs, open) ==
    /\ \A k \in Deltas : b[k] # <<>> /\ open # k => ClosedAs(s, k, i[k], b[k])
    /\ \A n \in DOMAIN cs : ClosedAs(s, "fc", cs[n].id, <<cs[n].text>>)

Whole(s, b, i, cs, open) == Held(s, b, cs) /\ Closed(s, b, i, cs, open)

LEMMA ClosedAppend ==
    ASSUME NEW s \in Seq(Frames), NEW f \in Frames, NEW item, NEW id, NEW text,
           ClosedAs(s, item, id, text)
    PROVE  ClosedAs(Append(s, f), item, id, text)
<1>1. PICK j \in At(s, "item_done") : s[j].item = item /\ s[j].id = id /\ s[j].text = text
  BY DEF ClosedAs
<1>2. j \in At(Append(s, f), "item_done") /\ Append(s, f)[j] = s[j]
  BY AtTyped, CountAppend
<1> QED
  BY <1>1, <1>2 DEF ClosedAs

LEMMA WholeAppend ==
    ASSUME NEW s \in Seq(Frames), NEW f \in Frames, f.type # "delta",
           NEW b, NEW i, NEW cs, NEW open, Whole(s, b, i, cs, open)
    PROVE  Whole(Append(s, f), b, i, cs, open)
<1>1. \A k : Streamed(Append(s, f), OfItem(k)) = Streamed(s, OfItem(k))
  BY StreamedOther
<1> QED
  BY <1>1, ClosedAppend DEF Whole, Held, Closed

\* A delta of the open item, or of one that has just been opened.
LEMMA WholeDelta ==
    ASSUME NEW s \in Seq(Frames), NEW b \in [Deltas -> Seq(Nat)], NEW i, NEW cs, NEW open,
           Whole(s, b, i, cs, open), NEW kind \in Deltas, open \in {"none", kind},
           NEW m \in Nat,
           NEW i2, \A k \in Deltas \ {kind} : i2[k] = i[k],
           NEW f \in ItemFrames, f.type = "delta", f.item = kind, f.text = <<m>>
    PROVE  Whole(Append(s, f), [b EXCEPT ![kind] = Append(@, m)], i2, cs, kind)
<1> DEFINE t == Append(s, f)
           b2 == [b EXCEPT ![kind] = Append(@, m)]
<1>1. /\ f \in Frames /\ f.text = <<m>>
      /\ \A k : OfItem(k) \in SUBSET ItemFrames /\ (f \in OfItem(k) <=> k = kind)
  BY DEF Frames, OfItem
<1>2. \A k : k # kind => Streamed(t, OfItem(k)) = Streamed(s, OfItem(k))
  BY <1>1, StreamedAppend
<1>3. Streamed(t, OfItem(kind)) = Append(b[kind], m)
  <2>1. f \in OfItem(kind) /\ OfItem(kind) \in SUBSET ItemFrames
    BY <1>1
  <2>2. Streamed(t, OfItem(kind)) = Streamed(s, OfItem(kind)) \o f.text
    BY <1>1, <2>1, StreamedAppend
  <2>3. Streamed(s, OfItem(kind)) = b[kind] /\ b[kind] \in Seq(Nat)
    BY DEF Whole, Held, Closed
  <2> QED
    BY <1>1, <2>2, <2>3
<1>4. b2[kind] = Append(b[kind], m) /\ \A k \in Deltas \ {kind} : b2[k] = b[k]
  OBVIOUS
<1>5. "fc" # kind
  BY DEF Deltas
<1>6. \A k, x, y : ClosedAs(s, k, x, y) => ClosedAs(t, k, x, y)
  BY <1>1, ClosedAppend
<1> HIDE DEF t, b2
<1>7. \A k \in Deltas : b2[k] = Streamed(t, OfItem(k))
  BY <1>2, <1>3, <1>4 DEF Whole, Held, Closed
<1>8. CallTexts(cs) = Streamed(t, OfItem("fc"))
  BY <1>2, <1>5 DEF Whole, Held, Closed
<1>9. ASSUME NEW k \in Deltas, b2[k] # <<>>, kind # k PROVE ClosedAs(t, k, i2[k], b2[k])
  <2>1. b2[k] = b[k] /\ i2[k] = i[k] /\ open # k
    BY <1>4, <1>9 DEF Deltas
  <2>2. ClosedAs(s, k, i[k], b[k])
    BY <1>9, <2>1 DEF Whole, Held, Closed
  <2> QED
    BY <1>6, <2>1, <2>2
<1>10. \A n \in DOMAIN cs : ClosedAs(t, "fc", cs[n].id, <<cs[n].text>>)
  BY <1>6 DEF Whole, Held, Closed
<1> QED
  BY <1>7, <1>8, <1>9, <1>10 DEF Whole, Held, Closed, t, b2

LEMMA CallTextsIs ==
    ASSUME NEW cs \in Seq(CallItem)
    PROVE  /\ CallTexts(cs) \in Seq(Nat) /\ Len(CallTexts(cs)) = Len(cs)
           /\ \A n \in 1..Len(cs) : CallTexts(cs)[n] = cs[n].text
<1>1. DOMAIN cs = 1..Len(cs) /\ Len(cs) \in Nat /\ \A n \in 1..Len(cs) : cs[n].text \in Nat
  <2>1. \A n \in 1..Len(cs) : cs[n] \in CallItem
    OBVIOUS
  <2> QED
    BY <2>1 DEF CallItem
<1>2. CallTexts(cs) = [n \in 1..Len(cs) |-> cs[n].text]
  BY <1>1 DEF CallTexts
<1> QED
  BY <1>1, <1>2

LEMMA CallTextsAppend ==
    ASSUME NEW cs \in Seq(CallItem), NEW c \in CallItem
    PROVE  CallTexts(Append(cs, c)) = CallTexts(cs) \o <<c.text>>
<1> DEFINE d == Append(cs, c)
           x == CallTexts(d)
           y == CallTexts(cs)
           m == c.text
           z == y \o <<m>>
<1>1. /\ d \in Seq(CallItem) /\ Len(d) = Len(cs) + 1 /\ d[Len(cs) + 1] = c
      /\ \A n \in 1..Len(cs) : d[n] = cs[n]
  OBVIOUS
<1>7. m \in Nat
  BY DEF CallItem
<1> HIDE DEF d, m
<1>2. /\ x \in Seq(Nat) /\ Len(x) = Len(cs) + 1 /\ \A n \in 1..Len(d) : x[n] = d[n].text
  <2>1. d \in Seq(CallItem) /\ Len(d) = Len(cs) + 1
    BY <1>1
  <2> QED
    BY <2>1, CallTextsIs
<1>3. y \in Seq(Nat) /\ Len(y) = Len(cs) /\ \A n \in 1..Len(cs) : y[n] = cs[n].text
  BY CallTextsIs
<1> HIDE DEF x, y
<1>4. /\ z \in Seq(Nat) /\ Len(z) = Len(cs) + 1 /\ z[Len(cs) + 1] = m
      /\ \A n \in 1..Len(cs) : z[n] = y[n]
  BY <1>3, <1>7
<1> HIDE DEF z
<1>5. \A n \in 1..Len(x) : x[n] = z[n]
  <2>1. x[Len(cs) + 1] = z[Len(cs) + 1]
    BY <1>1, <1>2, <1>4 DEF m
  <2>2. ASSUME NEW n \in 1..Len(cs) PROVE x[n] = z[n]
    <3>1. n \in 1..Len(d) /\ d[n] = cs[n]
      BY <1>1
    <3>2. x[n] = d[n].text /\ y[n] = cs[n].text /\ z[n] = y[n]
      BY <1>2, <1>3, <1>4, <3>1
    <3> QED
      BY <3>1, <3>2
  <2> QED
    BY <1>2, <2>1, <2>2
<1>6. x = z
  BY <1>2, <1>4, <1>5, SeqEqual
<1> QED
  BY <1>6 DEF x, y, z, d, m

\* The arguments of a call, which is not closed yet.
LEMMA HeldCall ==
    ASSUME NEW s \in Seq(Frames), NEW b, NEW i, NEW cs \in Seq(CallItem),
           Whole(s, b, i, cs, "none"), NEW id \in Nat, NEW m \in Nat,
           NEW f \in ItemFrames, f.type = "delta", f.item = "fc", f.text = <<m>>
    PROVE  /\ Held(Append(s, f), b, Append(cs, [id |-> id, text |-> m]))
           /\ Closed(Append(s, f), b, i, cs, "none")
<1> DEFINE t == Append(s, f)
           c == [id |-> id, text |-> m]
<1>1. /\ f \in Frames
      /\ \A k : OfItem(k) \in SUBSET ItemFrames /\ (f \in OfItem(k) <=> k = "fc")
  BY DEF Frames, OfItem
<1>2. \A k \in Deltas : Streamed(t, OfItem(k)) = Streamed(s, OfItem(k))
  <2>1. \A k \in Deltas : k # "fc"
    BY DEF Deltas
  <2> QED
    BY <1>1, <2>1, StreamedAppend
<1>3. Streamed(t, OfItem("fc")) = CallTexts(cs) \o <<m>>
  <2>1. f \in OfItem("fc") /\ OfItem("fc") \in SUBSET ItemFrames
    BY <1>1
  <2>2. Streamed(t, OfItem("fc")) = Streamed(s, OfItem("fc")) \o f.text
    BY <1>1, <2>1, StreamedAppend
  <2> QED
    BY <2>2 DEF Whole, Held
<1>4. CallTexts(Append(cs, c)) = CallTexts(cs) \o <<m>>
  <2>1. c \in CallItem /\ c.text = m
    BY DEF CallItem
  <2> HIDE DEF c
  <2> QED
    BY <2>1, CallTextsAppend
<1>5. \A k, x, y : ClosedAs(s, k, x, y) => ClosedAs(t, k, x, y)
  BY <1>1, ClosedAppend
<1> HIDE DEF t, c
<1>6. Held(t, b, Append(cs, c))
  BY <1>2, <1>3, <1>4 DEF Whole, Held
<1>7. Closed(t, b, i, cs, "none")
  BY <1>5 DEF Whole, Closed
<1> QED
  BY <1>6, <1>7 DEF t, c

\* The call is closed, too.
LEMMA ClosedCall ==
    ASSUME NEW s, NEW b, NEW i, NEW cs \in Seq(CallItem),
           Closed(s, b, i, cs, "none"), NEW id, NEW m, ClosedAs(s, "fc", id, <<m>>),
           id \in Nat, m \in Nat
    PROVE  Closed(s, b, i, Append(cs, [id |-> id, text |-> m]), "none")
<1> DEFINE c == [id |-> id, text |-> m]
           cc == Append(cs, c)
<1>1. c \in CallItem /\ c.id = id /\ c.text = m
  BY DEF CallItem
<1> HIDE DEF c
<1>2. \A n \in DOMAIN cc : (n \in DOMAIN cs /\ cc[n] = cs[n]) \/ cc[n] = c
  BY <1>1
<1> HIDE DEF cc
<1>3. \A n \in DOMAIN cc : ClosedAs(s, "fc", cc[n].id, <<cc[n].text>>)
  BY <1>1, <1>2 DEF Closed
<1> QED
  BY <1>3 DEF Closed, cc, c

-----------------------------------------------------------------------------
(* The inductive invariant *)

\* What CompletedRepeatsTheStream asks, of any sequence of frames.
Texts(output, kind) == { o.text : o \in { o \in Range(output) : o.item = kind } }

Arguments(output) ==
    FlattenSeq([j \in DOMAIN output |-> IF output[j].item = "fc" THEN output[j].text ELSE <<>>])

Repeats(s) ==
    \A i \in At(s, "completed") :
        /\ i = Len(s)
        /\ \A o \in Range(s[i].output) : ClosedAs(s, o.item, o.id, o.text)
        /\ \A kind \in Deltas :
              Texts(s[i].output, kind) = IF Streamed(s, OfItem(kind)) = <<>> THEN {}
                                         ELSE {Streamed(s, OfItem(kind))}
        /\ Streamed(s, OfItem("fc")) = Arguments(s[i].output)

\* What the open item is to be closed with.
OpenText == IF currentType = "none" THEN <<>> ELSE buf[currentType]

\* The state of _ResponsesStreamState after the frames s.
Answering(s) ==
    /\ View(s, ids, currentType, currentId, outputIndex, OpenText)
    /\ Whole(s, buf, itemId, calls, currentType)

Untouched ==
    /\ ids = 0 /\ outputIndex = 0 /\ calls = <<>> /\ sent = <<>>
    /\ buf = [k \in Deltas |-> <<>>]
    /\ currentType = "none" /\ currentId = 0

TypeInv ==
    /\ events \in Nat /\ ids \in Nat /\ outputIndex \in Nat
    /\ buf \in [Deltas -> Seq(Nat)] /\ itemId \in [Deltas -> Nat]
    /\ calls \in Seq(CallItem)
    /\ currentType \in Deltas \cup {"none"}
    /\ currentType # "none" => currentId = itemId[currentType]
    /\ bootstrapDone \in BOOLEAN /\ hasAnyOutput = bootstrapDone
    /\ over \in BOOLEAN /\ sent \in Seq(Frames)

IInv ==
    /\ TypeInv
    /\ ~over /\ ~bootstrapDone => Untouched
    /\ ~over /\ bootstrapDone => Answering(sent)
    /\ over => InOrder(sent) /\ DoneEnds(sent) /\ Repeats(sent)

LEMMA InitInv == Init => IInv
<1> SUFFICES ASSUME Init PROVE IInv
  OBVIOUS
<1>1. <<>> \in Seq(Nat) /\ <<>> \in Seq(Frames) /\ <<>> \in Seq(CallItem)
  OBVIOUS
<1>2. TypeInv
  <2>1. buf \in [Deltas -> Seq(Nat)]
    BY <1>1 DEF Init
  <2>2. calls \in Seq(CallItem) /\ sent \in Seq(Frames)
    BY <1>1 DEF Init
  <2>3. events \in Nat /\ ids \in Nat /\ outputIndex \in Nat /\ itemId \in [Deltas -> Nat]
    BY DEF Init
  <2>4. bootstrapDone = FALSE /\ hasAnyOutput = FALSE /\ over = FALSE /\ currentType = "none"
    BY DEF Init
  <2> QED
    BY <2>1, <2>2, <2>3, <2>4 DEF TypeInv
<1>3. Untouched /\ over = FALSE /\ bootstrapDone = FALSE
  BY DEF Init, Untouched
<1> QED
  BY <1>2, <1>3 DEF IInv

\* After the bootstrap frames, if they were due.
LEMMA BootstrapInv ==
    ASSUME IInv, ~over PROVE Answering(sent \o Bootstrap)
<1>1. CASE bootstrapDone
  <2>1. sent \o Bootstrap = sent
    BY <1>1 DEF Bootstrap, IInv, TypeInv
  <2> QED
    BY <1>1, <2>1 DEF IInv
<1>2. CASE ~bootstrapDone
  <2> DEFINE c == Plain("created")
             p == Plain("in_progress")
             t == <<c, p>>
  <2>1. /\ ids = 0 /\ outputIndex = 0 /\ calls = <<>> /\ sent = <<>>
        /\ buf = [k \in Deltas |-> <<>>]
        /\ currentType = "none" /\ currentId = 0
    BY <1>2 DEF IInv, Untouched
  <2>2. sent \o Bootstrap = t
    BY <1>2, <2>1 DEF Bootstrap
  <2>3. c \in Frames /\ p \in Frames /\ c.type # "delta" /\ p.type # "delta"
    BY DEF Plain, Frame, ItemFrames, Frames, FrameTypes
  <2>4. View(t, ids, currentType, currentId, outputIndex, OpenText)
    BY <2>1, ViewCreated DEF OpenText
  <2> HIDE DEF c, p
  <2>5. <<>> \in Seq(Frames) /\ <<c>> \in Seq(Frames) /\ <<c>> = Append(<<>>, c) /\ t = Append(<<c>>, p)
    BY <2>3
  <2>6. \A k : Streamed(<<>>, OfItem(k)) = <<>>
    BY FlattenNothing DEF Streamed
  <2>7. Whole(<<>>, buf, itemId, calls, currentType)
    <3>1. CallTexts(<<>>) = <<>>
      BY DEF CallTexts
    <3> QED
      BY <2>1, <2>6, <3>1 DEF Whole, Held, Closed
  <2>8. Whole(t, buf, itemId, calls, currentType)
    <3>1. Whole(<<c>>, buf, itemId, calls, currentType)
      BY <2>3, <2>5, <2>7, WholeAppend
    <3> QED
      BY <2>3, <2>5, <3>1, WholeAppend
  <2> QED
    BY <2>2, <2>4, <2>8 DEF Answering
<1> QED
  BY <1>1, <1>2

\* After close_current_item.
LEMMA ClosingInv ==
    ASSUME TypeInv, NEW s, Answering(s)
    PROVE  /\ View(s \o Closing, ids, "none", 0, NextIndex, <<>>)
           /\ Whole(s \o Closing, buf, itemId, calls, "none")
<1>0. s \in Seq(Frames) /\ outputIndex \in Nat
  BY DEF Answering, View
<1>1. CASE currentType = "none"
  <2>1. s \o Closing = s /\ currentId = 0 /\ NextIndex = outputIndex
    BY <1>0, <1>1 DEF Closing, Answering, View, NextIndex
  <2> QED
    BY <1>1, <2>1 DEF Answering, OpenText
<1>2. CASE currentType # "none"
  <2> DEFINE text == buf[currentType]
             F(type) == Frame(type, currentType, currentId, outputIndex, text)
  <2>1. /\ currentType \in Deltas /\ currentType \in Items /\ text \in Seq(Nat)
        /\ currentId \in Nat /\ NextIndex = outputIndex + 1 /\ currentId = itemId[currentType]
        /\ OpenText = text
    BY <1>2 DEF TypeInv, Items, NextIndex, OpenText
  <2>2. \A type \in FrameTypes :
            /\ F(type) \in ItemFrames /\ F(type) \in Frames /\ F(type).type = type
            /\ F(type).item = currentType /\ F(type).id = currentId
            /\ F(type).index = outputIndex /\ F(type).text = text
    BY <1>0, <2>1, FrameType DEF Frames
  <2>3. F("item_done") = Frame("item_done", currentType, currentId, outputIndex, text)
    OBVIOUS
  <2>4. /\ currentType = "text" => s \o Closing = s \o <<F("part_done"), F("text_done"), F("item_done")>>
        /\ currentType # "text" => s \o Closing = s \o <<F("part_done"), F("item_done")>>
    BY <1>2 DEF Closing
  <2> HIDE DEF F
  <2>5. {"part_done", "text_done", "item_done"} \subseteq FrameTypes
    BY DEF FrameTypes
  <2> DEFINE Open(t) == View(t, ids, currentType, currentId, outputIndex, text)
                        /\ Whole(t, buf, itemId, calls, currentType)
  <2>6. ASSUME NEW t, Open(t), NEW type \in {"part_done", "text_done"}
        PROVE  Open(Append(t, F(type)))
    <3>1. /\ F(type) \in ItemFrames /\ F(type) \in Frames
          /\ F(type).type \in InnerTypes \ {"item_done", "delta"}
          /\ F(type).item = currentType /\ F(type).id = currentId /\ F(type).index = outputIndex
          /\ F(type).type # "delta" /\ t \in Seq(Frames)
      BY <2>2, <2>5, <2>6 DEF InnerTypes, View
    <3>2. View(Append(t, F(type)), ids, currentType, currentId, outputIndex, text)
      BY <2>1, <2>6, <3>1, ViewQuiet
    <3>3. Whole(Append(t, F(type)), buf, itemId, calls, currentType)
      BY <2>6, <3>1, WholeAppend
    <3> QED
      BY <3>2, <3>3
  <2>7. ASSUME NEW t, Open(t)
        PROVE  /\ View(Append(t, F("item_done")), ids, "none", 0, NextIndex, <<>>)
               /\ Whole(Append(t, F("item_done")), buf, itemId, calls, "none")
    <3>1. /\ View(Append(t, F("item_done")), ids, "none", 0, NextIndex, <<>>)
          /\ ClosedAs(Append(t, F("item_done")), currentType, currentId, text)
      <4>1. View(t, ids, currentType, currentId, outputIndex, text)
        BY <2>7
      <4> QED
        BY <2>1, <2>3, <4>1, ViewDone
    <3>2. Whole(Append(t, F("item_done")), buf, itemId, calls, currentType)
      <4>1. F("item_done") \in Frames /\ F("item_done").type # "delta" /\ t \in Seq(Frames)
        BY <2>2, <2>5, <2>7 DEF View
      <4> QED
        BY <2>7, <4>1, WholeAppend
    <3> QED
      BY <2>1, <3>1, <3>2 DEF Whole, Held, Closed
  <2>8. Open(s)
    BY <2>1 DEF Answering
  <2>9. /\ s \o <<F("part_done"), F("item_done")>> = Append(Append(s, F("part_done")), F("item_done"))
        /\ s \o <<F("part_done"), F("text_done"), F("item_done")>> =
              Append(Append(Append(s, F("part_done")), F("text_done")), F("item_done"))
    BY <1>0
  <2> HIDE DEF Open
  <2> QED
    BY <2>4, <2>6, <2>7, <2>8, <2>9
<1> QED
  BY <1>1, <1>2

\* What an event always does.
LEMMA EventInv ==
    ASSUME IInv, Event
    PROVE  /\ TypeInv /\ Answering(sent \o Bootstrap) /\ sent \o Bootstrap \in Seq(Frames)
           /\ events' \in Nat /\ bootstrapDone' = TRUE /\ hasAnyOutput' = TRUE /\ over' = FALSE
<1>1. TypeInv /\ ~over
  BY DEF IInv, Event
<1>2. Answering(sent \o Bootstrap)
  BY <1>1, BootstrapInv
<1>3. sent \o Bootstrap \in Seq(Frames)
  BY <1>2 DEF Answering, View
<1>4. events' \in Nat /\ over' = FALSE
  BY <1>1 DEF Event, TypeInv
<1> QED
  BY <1>1, <1>2, <1>3, <1>4 DEF Event

\* What is left to show of an event.
LEMMA EventInvNext ==
    ASSUME IInv, Event, Answering(sent)', ids' \in Nat, outputIndex' \in Nat,
           buf' \in [Deltas -> Seq(Nat)], itemId' \in [Deltas -> Nat],
           calls' \in Seq(CallItem),
           currentType' \in Deltas \cup {"none"},
           currentType' # "none" => currentId' = itemId'[currentType']
    PROVE  IInv'
<1>1. sent' \in Seq(Frames)
  BY DEF Answering, View
<1> QED
  BY <1>1, EventInv DEF IInv, TypeInv

\* Continue
LEMMA ContinueInv ==
    ASSUME IInv, NEW kind \in Deltas, Continue(kind) PROVE IInv'
<1> DEFINE s == sent \o Bootstrap
           more == <<events'>>
           f == Frame("delta", kind, currentId, outputIndex, more)
<1>1. TypeInv /\ Answering(s) /\ s \in Seq(Frames) /\ events' \in Nat /\ Event
  BY EventInv DEF Continue
<1>2. /\ currentType = kind /\ buf' = [buf EXCEPT ![kind] = Append(@, events')]
      /\ ids' = ids /\ itemId' = itemId /\ calls' = calls /\ outputIndex' = outputIndex
      /\ currentType' = currentType /\ currentId' = currentId
      /\ sent' = s \o <<f>>
  BY DEF Continue, current
<1>3. View(s, ids, kind, currentId, outputIndex, buf[kind])
  BY <1>1, <1>2 DEF Answering, OpenText, Deltas
<1>4. Whole(s, buf, itemId, calls, kind)
  BY <1>1, <1>2 DEF Answering
<1>5. kind \in Items /\ currentId \in Nat /\ outputIndex \in Nat /\ kind # "none"
  BY <1>1, <1>2 DEF Items, Deltas, TypeInv
<1>6. /\ f \in ItemFrames /\ f.type = "delta" /\ f.item = kind /\ f.id = currentId
      /\ f.index = outputIndex /\ f.text = more
  <2>1. more \in Seq(Nat) /\ "delta" \in FrameTypes /\ kind \in Items \cup {"none"}
    BY <1>1, <1>5 DEF FrameTypes
  <2> HIDE DEF more
  <2> QED
    BY <1>5, <2>1, FrameType
<1> HIDE DEF f, s
<1>7. sent' = Append(s, f)
  <2>1. f \in Frames
    BY <1>6 DEF Frames
  <2> QED
    BY <1>1, <1>2, <2>1
<1>8. View(sent', ids', kind, currentId', outputIndex', Append(buf[kind], events'))
  BY <1>1, <1>2, <1>3, <1>5, <1>6, <1>7, ViewDelta
<1>9. buf \in [Deltas -> Seq(Nat)]
  BY <1>1 DEF TypeInv
<1>10. Whole(sent', buf', itemId', calls', kind)
  <2>1. Whole(Append(s, f), [buf EXCEPT ![kind] = Append(@, events')], itemId, calls, kind)
    BY <1>1, <1>4, <1>6, <1>9, WholeDelta
  <2> QED
    BY <1>2, <1>7, <2>1
<1>11. buf'[kind] = Append(buf[kind], events') /\ buf' \in [Deltas -> Seq(Nat)]
  BY <1>1, <1>2, <1>9
<1>12. OpenText' = buf'[kind]
  BY <1>2, <1>5 DEF OpenText
<1>13. Answering(sent)'
  BY <1>2, <1>8, <1>10, <1>11, <1>12 DEF Answering
<1> QED
  BY <1>1, <1>2, <1>5, <1>11, <1>13, EventInvNext DEF TypeInv

\* Switch
LEMMA SwitchInv ==
    ASSUME IInv, NEW kind \in Deltas, Switch(kind) PROVE IInv'
<1> DEFINE s == sent \o Bootstrap
           w == s \o Closing
           id == ids + 1
           F(type, text) == Frame(type, kind, id, NextIndex, text)
           a == F("item_added", <<>>)
           p == F("part_added", <<>>)
           more == <<events'>>
           f == F("delta", more)
           w1 == Append(w, a)
           w2 == Append(w1, p)
           w3 == Append(w2, f)
<1>1. TypeInv /\ Answering(s) /\ s \in Seq(Frames) /\ events' \in Nat /\ Event
  BY EventInv DEF Switch
<1>2. /\ buf' = [buf EXCEPT ![kind] = Append(@, events')]
      /\ ids' = id /\ itemId' = [itemId EXCEPT ![kind] = id] /\ calls' = calls
      /\ outputIndex' = NextIndex /\ currentType' = kind /\ currentId' = id
      /\ sent' = w \o <<a, p, f>>
  BY DEF Switch, Opening
<1>3. View(w, ids, "none", 0, NextIndex, <<>>)
  BY <1>1, ClosingInv
<1>4. Whole(w, buf, itemId, calls, "none")
  BY <1>1, ClosingInv
<1>5. kind \in Items /\ kind \in Items \cup {"none"} /\ id \in Nat /\ NextIndex \in Nat /\ kind # "none"
  BY <1>1 DEF Items, Deltas, TypeInv, NextIndex
<1>6. /\ buf \in [Deltas -> Seq(Nat)] /\ itemId \in [Deltas -> Nat] /\ buf[kind] \in Seq(Nat)
      /\ calls \in Seq(CallItem)
  BY <1>1 DEF TypeInv
<1>7. /\ a \in ItemFrames /\ a.type = "item_added" /\ a.item = kind /\ a.id = ids + 1
      /\ a.index = NextIndex
      /\ p \in ItemFrames /\ p.type = "part_added" /\ p.item = kind /\ p.id = id
      /\ p.index = NextIndex
  <2>1. <<>> \in Seq(Nat) /\ "item_added" \in FrameTypes /\ "part_added" \in FrameTypes
    BY DEF FrameTypes
  <2> QED
    BY <1>5, <2>1 DEF Frame, ItemFrames
<1>8. /\ f \in ItemFrames /\ f.type = "delta" /\ f.item = kind /\ f.id = id
      /\ f.index = NextIndex /\ f.text = more
  <2>1. more \in Seq(Nat) /\ "delta" \in FrameTypes
    BY <1>1 DEF FrameTypes
  <2> HIDE DEF more
  <2> QED
    BY <1>5, <2>1, FrameType
<1> HIDE DEF s, F, a, p, f
<1>9. a \in Frames /\ p \in Frames /\ f \in Frames
  BY <1>7, <1>8 DEF Frames
<1>10. w \in Seq(Frames)
  BY <1>3 DEF View
<1> HIDE DEF w
<1>11. sent' = w3 /\ w1 \in Seq(Frames) /\ w2 \in Seq(Frames)
  BY <1>2, <1>9, <1>10
<1> HIDE DEF w1, w2, w3
<1>12. View(w1, id, kind, id, NextIndex, buf[kind])
  <2>1. IsSuffix(buf[kind], Streamed(w, OfItem(kind)))
    BY <1>4, <1>6, SuffixSelf DEF Whole, Held
  <2> QED
    BY <1>3, <1>5, <1>6, <1>7, <2>1, ViewAdded DEF w1
<1>13. View(w2, id, kind, id, NextIndex, buf[kind])
  <2>1. p.type \in InnerTypes \ {"item_done", "delta"}
    BY <1>7 DEF InnerTypes
  <2> QED
    BY <1>5, <1>7, <1>12, <2>1, ViewQuiet DEF w2
<1>14. View(w3, id, kind, id, NextIndex, Append(buf[kind], events'))
  BY <1>1, <1>5, <1>8, <1>13, ViewDelta DEF w3
<1>15. Whole(w1, buf, itemId, calls, "none")
  BY <1>4, <1>7, <1>9, <1>10, WholeAppend DEF w1
<1>16. Whole(w2, buf, itemId, calls, "none")
  BY <1>7, <1>9, <1>11, <1>15, WholeAppend DEF w2
<1>17. Whole(w3, buf', itemId', calls, kind)
  <2>1. \A k \in Deltas \ {kind} : itemId'[k] = itemId[k]
    BY <1>2, <1>6
  <2>2. Whole(w3, [buf EXCEPT ![kind] = Append(@, events')], itemId', calls, kind)
    BY <1>1, <1>6, <1>8, <1>11, <1>16, <2>1, WholeDelta DEF w3
  <2> QED
    BY <1>2, <2>2
<1>18. buf'[kind] = Append(buf[kind], events') /\ buf' \in [Deltas -> Seq(Nat)]
  BY <1>1, <1>2, <1>6
<1>19. OpenText' = buf'[kind]
  BY <1>2, <1>5 DEF OpenText
<1>20. Answering(sent)'
  BY <1>2, <1>11, <1>14, <1>17, <1>18, <1>19 DEF Answering
<1>21. itemId' \in [Deltas -> Nat] /\ itemId'[kind] = id
  BY <1>2, <1>5, <1>6
<1> QED
  BY <1>1, <1>2, <1>5, <1>6, <1>18, <1>20, <1>21, EventInvNext

\* ToolCall
LEMMA ToolCallInv == ASSUME IInv, ToolCall PROVE IInv'
<1> DEFINE s == sent \o Bootstrap
           w == s \o Closing
           id == ids + 1
           m == events'
           args == <<m>>
           F(type, text) == Frame(type, "fc", id, NextIndex, text)
           a == F("item_added", <<>>)
           f == F("delta", args)
           p == F("arguments_done", args)
           d == F("item_done", args)
           cs == Append(calls, [id |-> id, text |-> m])
           w1 == Append(w, a)
           w2 == Append(w1, f)
           w3 == Append(w2, p)
           w4 == Append(w3, d)
<1>1. TypeInv /\ Answering(s) /\ s \in Seq(Frames) /\ m \in Nat /\ Event
  BY EventInv DEF ToolCall
<1>2. /\ ids' = id /\ calls' = cs /\ outputIndex' = NextIndex + 1
      /\ currentType' = "none" /\ currentId' = 0
      /\ sent' = w \o <<a, f, p, d>> /\ buf' = buf /\ itemId' = itemId
  BY DEF ToolCall, Call
<1>3. View(w, ids, "none", 0, NextIndex, <<>>)
  BY <1>1, ClosingInv
<1>4. Whole(w, buf, itemId, calls, "none")
  BY <1>1, ClosingInv
<1>5. "fc" \in Items /\ "fc" \in Items \cup {"none"} /\ id \in Nat /\ NextIndex \in Nat
  BY <1>1 DEF Items, Deltas, TypeInv, NextIndex
<1>6. /\ buf \in [Deltas -> Seq(Nat)] /\ itemId \in [Deltas -> Nat] /\ calls \in Seq(CallItem)
  BY <1>1 DEF TypeInv
<1>7. /\ <<>> \in Seq(Nat) /\ args \in Seq(Nat)
      /\ "item_added" \in FrameTypes /\ "delta" \in FrameTypes /\ "arguments_done" \in FrameTypes
      /\ "item_done" \in FrameTypes
  BY <1>1 DEF FrameTypes
<1>8. a \in ItemFrames /\ a.type = "item_added" /\ a.item = "fc" /\ a.id = ids + 1 /\ a.index = NextIndex
  BY <1>5, <1>7 DEF Frame, ItemFrames
<1> HIDE DEF args
<1>9. /\ f \in ItemFrames /\ f.type = "delta" /\ f.item = "fc" /\ f.id = id
      /\ f.index = NextIndex /\ f.text = args
  BY <1>5, <1>7, FrameType
<1>10. /\ p \in ItemFrames /\ p.type = "arguments_done" /\ p.item = "fc" /\ p.id = id
       /\ p.index = NextIndex
  BY <1>5, <1>7, FrameType
<1>11. d \in ItemFrames /\ d.type = "item_done"
  BY <1>5, <1>7, FrameType
<1>12. d = Frame("item_done", "fc", id, NextIndex, args)
  OBVIOUS
<1> HIDE DEF s, F, a, f, p, d
<1>13. a \in Frames /\ f \in Frames /\ p \in Frames /\ d \in Frames
  BY <1>8, <1>9, <1>10, <1>11 DEF Frames
<1>14. w \in Seq(Frames)
  BY <1>3 DEF View
<1> HIDE DEF w
<1>15. sent' = w4 /\ w1 \in Seq(Frames) /\ w2 \in Seq(Frames) /\ w3 \in Seq(Frames)
  BY <1>2, <1>13, <1>14
<1> HIDE DEF w1, w2, w3, w4
<1>16. View(w1, id, "fc", id, NextIndex, <<>>)
  <2> DEFINE e == <<>>
  <2>1. e \in Seq(Nat)
    OBVIOUS
  <2>2. View(w1, id, "fc", id, NextIndex, e)
    <3>1. Streamed(w, OfItem("fc")) \in Seq(Nat)
      <4>1. OfItem("fc") \in SUBSET ItemFrames
        BY DEF OfItem
      <4> QED
        BY <1>13, <1>14, <4>1, StreamedAppend
    <3>2. IsSuffix(e, Streamed(w, OfItem("fc")))
      BY <3>1, NothingSuffix
    <3> HIDE DEF e
    <3> QED
      BY <1>3, <1>5, <1>8, <2>1, <3>2, ViewAdded DEF w1
  <2> QED
    BY <2>2
<1>17. View(w2, id, "fc", id, NextIndex, args)
  <2>1. View(w2, id, "fc", id, NextIndex, Append(<<>>, m))
    BY <1>1, <1>5, <1>9, <1>16, ViewDelta DEF w2, args
  <2>2. Append(<<>>, m) = args
    BY DEF args
  <2> QED
    BY <2>1, <2>2
<1>18. View(w3, id, "fc", id, NextIndex, args)
  <2>1. p.type \in InnerTypes \ {"item_done", "delta"}
    BY <1>10 DEF InnerTypes
  <2> QED
    BY <1>5, <1>10, <1>17, <2>1, ViewQuiet DEF w3
<1>19. View(w4, id, "none", 0, NextIndex + 1, <<>>) /\ ClosedAs(w4, "fc", id, args)
  BY <1>5, <1>12, <1>18, ViewDone DEF w4
<1>20. Whole(w1, buf, itemId, calls, "none")
  BY <1>4, <1>8, <1>13, <1>14, WholeAppend DEF w1
<1>21. Held(w2, buf, cs) /\ Closed(w2, buf, itemId, calls, "none")
  BY <1>1, <1>5, <1>6, <1>9, <1>15, <1>20, HeldCall DEF w2, args
<1> HIDE DEF cs
<1>22. Held(w4, buf, cs) /\ Closed(w4, buf, itemId, calls, "none")
  <2>1. \A k : Streamed(w4, OfItem(k)) = Streamed(w2, OfItem(k))
    <3>1. \A k : Streamed(w3, OfItem(k)) = Streamed(w2, OfItem(k))
      BY <1>10, <1>13, <1>15, StreamedOther DEF w3
    <3>2. \A k : Streamed(w4, OfItem(k)) = Streamed(w3, OfItem(k))
      BY <1>11, <1>13, <1>15, StreamedOther DEF w4
    <3> QED
      BY <3>1, <3>2
  <2>2. \A k, x, y : ClosedAs(w2, k, x, y) => ClosedAs(w4, k, x, y)
    <3>1. \A k, x, y : ClosedAs(w2, k, x, y) => ClosedAs(w3, k, x, y)
      BY <1>13, <1>15, ClosedAppend DEF w3
    <3>2. \A k, x, y : ClosedAs(w3, k, x, y) => ClosedAs(w4, k, x, y)
      BY <1>13, <1>15, ClosedAppend DEF w4
    <3> QED
      BY <3>1, <3>2
  <2>3. Held(w4, buf, cs)
    BY <1>21, <2>1 DEF Held
  <2>4. Closed(w4, buf, itemId, calls, "none")
    BY <1>21, <2>2 DEF Closed
  <2> QED
    BY <2>3, <2>4
<1>23. Closed(w4, buf, itemId, cs, "none")
  BY <1>1, <1>5, <1>6, <1>19, <1>22, ClosedCall DEF cs, args
<1>24. OpenText' = <<>>
  BY <1>2 DEF OpenText
<1>25. Answering(sent)'
  BY <1>2, <1>15, <1>19, <1>22, <1>23, <1>24 DEF Answering, Whole
<1>26. calls' \in Seq(CallItem)
  <2>1. [id |-> id, text |-> m] \in CallItem
    BY <1>1, <1>5 DEF CallItem
  <2> QED
    BY <1>2, <1>6, <2>1 DEF cs
<1> QED
  BY <1>1, <1>2, <1>5, <1>6, <1>25, <1>26, EventInvNext

-----------------------------------------------------------------------------
(* The end of a response *)

LEMMA RepeatsIs ==
    ASSUME sent \in Seq(Frames) PROVE Repeats(sent) <=> CompletedRepeatsTheStream
<1>1. \A i \in DOMAIN sent : sent[i] \in Frames
  OBVIOUS
<1>2. ASSUME NEW k
      PROVE  DeltasOf(LAMBDA f : f.item = k) = Streamed(sent, OfItem(k))
  <2>1. \A i \in DOMAIN sent : sent[i].type = "delta" /\ sent[i].item = k <=> sent[i] \in OfItem(k)
    BY <1>1 DEF OfItem, Frames, ItemFrames
  <2>2. [i \in DOMAIN sent |-> IF sent[i].type = "delta" /\ sent[i].item = k THEN sent[i].text ELSE <<>>]
        = [i \in DOMAIN sent |-> IF sent[i] \in OfItem(k) THEN sent[i].text ELSE <<>>]
    BY <2>1
  <2> QED
    BY <2>2 DEF DeltasOf, DeltasIn, Streamed
<1>3. \A type : Positions(type) = At(sent, type)
  BY DEF Positions, At
<1> QED
  BY <1>2, <1>3 DEF Repeats, CompletedRepeatsTheStream, ClosedAs, Texts, Arguments

\* Nothing, any number of times, and then the arguments of the calls.
LEMMA FlattenEmpty ==
    ASSUME NEW n \in Nat PROVE FlattenSeq([j \in 1..n |-> <<>>]) = <<>>
<1> DEFINE E(k) == [j \in 1..k |-> <<>>]
           S == { k \in Nat : FlattenSeq(E(k)) = <<>> }
           e == <<>>
<1>1. e \in Seq(Nat)
  OBVIOUS
<1>2. E(0) = <<>>
  OBVIOUS
<1>3. 0 \in S
  BY <1>2, FlattenNothing
<1>4. ASSUME NEW k \in S PROVE k + 1 \in S
  <2>1. FlattenSeq(E(k)) = <<>> /\ k \in Nat
    BY <1>4
  <2>2. E(k) \in Seq(Seq(Nat)) /\ E(k + 1) = Append(E(k), e)
    BY <1>1, <2>1
  <2>3. FlattenSeq(E(k + 1)) = FlattenSeq(E(k)) \o e
    <3> HIDE DEF E, e
    <3> QED
      BY <1>1, <2>2, FlattenAppend
  <2>4. FlattenSeq(E(k + 1)) = <<>>
    BY <2>1, <2>3
  <2> QED
    BY <2>1, <2>4
<1>5. Nat \subseteq S
  <2> HIDE DEF S
  <2> QED
    BY <1>3, <1>4, SetInduction
<1> QED
  BY <1>5

LEMMA ConcatIs ==
    ASSUME NEW S, NEW s \in Seq(S), NEW t \in Seq(S)
    PROVE  /\ s \o t \in Seq(S) /\ Len(s) \in Nat /\ Len(t) \in Nat
           /\ Len(s \o t) = Len(s) + Len(t) /\ DOMAIN (s \o t) = 1..(Len(s) + Len(t))
           /\ \A j \in 1..Len(s) : (s \o t)[j] = s[j]
           /\ \A j \in 1..Len(t) : (s \o t)[Len(s) + j] = t[j]
  OBVIOUS

LEMMA ConcatAppend ==
    ASSUME NEW S, NEW s \in Seq(S), NEW t \in Seq(S), NEW x \in S
    PROVE  s \o t \in Seq(S) /\ s \o Append(t, x) = Append(s \o t, x) /\ Append(s, x) = s \o <<x>>
  OBVIOUS

LEMMA FlattenCalls ==
    ASSUME NEW ss \in Seq(Seq(Nat)), FlattenSeq(ss) = <<>>, NEW cs \in Seq(CallItem)
    PROVE  FlattenSeq(ss \o [j \in 1..Len(cs) |-> <<cs[j].text>>]) = CallTexts(cs)
<1> DEFINE G(k) == ss \o [j \in 1..k |-> <<cs[j].text>>]
           H(k) == [j \in 1..k |-> cs[j].text]
           S == { k \in Nat : k <= Len(cs) => FlattenSeq(G(k)) = H(k) }
<1>1. DOMAIN cs = 1..Len(cs) /\ Len(cs) \in Nat /\ \A j \in 1..Len(cs) : cs[j].text \in Nat
  <2>1. \A j \in 1..Len(cs) : cs[j] \in CallItem
    OBVIOUS
  <2> QED
    BY <2>1 DEF CallItem
<1>2. 0 \in S
  <2>1. [j \in 1..0 |-> <<cs[j].text>>] = <<>> /\ H(0) = <<>>
    OBVIOUS
  <2>2. G(0) = ss
    BY <2>1
  <2> QED
    BY <2>1, <2>2
<1>3. ASSUME NEW k \in S PROVE k + 1 \in S
  <2>1. SUFFICES ASSUME k + 1 <= Len(cs) PROVE FlattenSeq(G(k + 1)) = H(k + 1)
    OBVIOUS
  <2>2. k \in Nat /\ FlattenSeq(G(k)) = H(k) /\ k + 1 \in 1..Len(cs)
    BY <1>1, <1>3, <2>1
  <2> DEFINE m == cs[k + 1].text
             x == <<m>>
             A(n) == [j \in 1..n |-> <<cs[j].text>>]
  <2>3. m \in Nat /\ x \in Seq(Nat)
    BY <1>1, <2>2
  <2>4. A(k) \in Seq(Seq(Nat)) /\ A(k + 1) = Append(A(k), x)
    BY <1>1, <2>1, <2>2
  <2>5. G(k) = ss \o A(k) /\ G(k + 1) = ss \o A(k + 1)
    OBVIOUS
  <2>6. G(k) \in Seq(Seq(Nat)) /\ G(k + 1) = Append(G(k), x)
    <3> HIDE DEF A, x, G, S, m
    <3>1. ss \o A(k) \in Seq(Seq(Nat)) /\ ss \o Append(A(k), x) = Append(ss \o A(k), x)
      BY <2>3, <2>4, ConcatAppend
    <3> QED
      BY <2>4, <2>5, <3>1
  <2>7. FlattenSeq(G(k + 1)) = H(k) \o x
    <3> HIDE DEF G, x, H
    <3> QED
      BY <2>2, <2>3, <2>6, FlattenAppend
  <2>8. H(k) \o x = H(k + 1)
    <3>1. H(k) \in Seq(Nat) /\ H(k + 1) = Append(H(k), m)
      BY <1>1, <2>1, <2>2
    <3> HIDE DEF H, m, S
    <3>2. Append(H(k), m) = H(k) \o <<m>>
      BY <2>3, <3>1
    <3> QED
      BY <3>1, <3>2
  <2> QED
    BY <2>7, <2>8
<1>4. Nat \subseteq S
  <2> HIDE DEF S
  <2> QED
    BY <1>2, <1>3, SetInduction
<1>5. FlattenSeq(G(Len(cs))) = H(Len(cs))
  <2>1. Len(cs) \in S
    BY <1>1, <1>4
  <2> HIDE DEF G, H
  <2> QED
    BY <1>1, <2>1
<1> QED
  BY <1>1, <1>5 DEF CallTexts

\* The arguments in an output of other items followed by the calls.
LEMMA ArgumentsOf ==
    ASSUME NEW pre \in Seq(OutputItem), \A j \in 1..Len(pre) : pre[j].item # "fc",
           NEW cc \in Seq(OutputItem), NEW h \in Seq(Seq(Nat)),
           Len(h) = Len(pre) + Len(cc),
           \A j \in 1..Len(pre) : Len(h[j]) = 0,
           \A j \in 1..Len(cc) : cc[j].item = "fc" /\ cc[j].text = h[Len(pre) + j]
    PROVE  Arguments(pre \o cc) = FlattenSeq(h)
<1> DEFINE n == Len(pre)
           m == Len(cc)
           out == pre \o cc
           g == [j \in DOMAIN out |-> IF out[j].item = "fc" THEN out[j].text ELSE <<>>]
<1>1. /\ n \in Nat /\ m \in Nat /\ DOMAIN out = 1..(n + m)
      /\ \A j \in 1..n : out[j] = pre[j]
      /\ \A j \in 1..m : out[n + j] = cc[j]
  BY ConcatIs
<1>2. \A j \in 1..n : h[j] = <<>>
  <2>1. \A j \in 1..n : h[j] \in Seq(Nat) /\ Len(h[j]) = 0
    BY <1>1
  <2> QED
    BY <2>1
<1>3. g = [j \in 1..(n + m) |-> IF out[j].item = "fc" THEN out[j].text ELSE <<>>]
  BY <1>1
<1>4. h = [j \in 1..(n + m) |-> h[j]]
  BY <1>1
<1> HIDE DEF out, g, n, m
<1>5. ASSUME NEW j \in 1..(n + m) PROVE h[j] = g[j]
  <2>1. CASE j \in 1..n
    <3>1. out[j] = pre[j] /\ pre[j].item # "fc"
      BY <1>1, <2>1 DEF n
    <3> QED
      BY <1>2, <1>3, <2>1, <3>1
  <2>2. CASE j \notin 1..n
    <3> DEFINE i == j - n
    <3>1. i \in 1..m /\ j = n + i
      BY <1>1, <2>2
    <3> HIDE DEF i
    <3>2. out[j] = cc[i] /\ cc[i].item = "fc" /\ h[j] = cc[i].text
      BY <1>1, <3>1 DEF n, m
    <3> QED
      BY <1>3, <3>2
  <2> QED
    BY <2>1, <2>2
<1>6. h = g
  BY <1>3, <1>4, <1>5
<1> QED
  BY <1>6 DEF Arguments, g, out

\* The output lists the items that hold something and the calls.
LEMMA OutputIs ==
    ASSUME TypeInv
    PROVE  /\ OutputItems \in Seq(OutputItem)
           /\ \A o \in Range(OutputItems) :
                 \/ o.item \in Deltas /\ o.id = itemId[o.item] /\ o.text = buf[o.item] /\ o.text # <<>>
                 \/ \E j \in DOMAIN calls : o.item = "fc" /\ o.id = calls[j].id /\ o.text = <<calls[j].text>>
           /\ \A k \in Deltas : buf[k] # <<>> => \E o \in Range(OutputItems) : o.item = k
           /\ Arguments(OutputItems) = CallTexts(calls)
<1> DEFINE I(k) == [item |-> k, id |-> itemId[k], text |-> buf[k]]
           W(k) == IF buf[k] = <<>> THEN <<>> ELSE <<I(k)>>
           r == W("reasoning")
           x == W("text")
           pre == r \o x
           C(i) == [item |-> "fc", id |-> calls[i].id, text |-> <<calls[i].text>>]
           cc == [i \in DOMAIN calls |-> C(i)]
<1>1. OutputItems = pre \o cc
  BY DEF OutputItems
<1>2. \A k \in Deltas : I(k) \in OutputItem /\ I(k).item = k /\ I(k).id = itemId[k] /\ I(k).text = buf[k]
  BY DEF TypeInv, OutputItem, Items
<1>3. \A i \in DOMAIN calls : /\ C(i) \in OutputItem /\ C(i).item = "fc" /\ C(i).id = calls[i].id
                              /\ C(i).text = <<calls[i].text>>
  <2>1. \A i \in DOMAIN calls : calls[i] \in CallItem
    BY DEF TypeInv
  <2>2. \A i \in DOMAIN calls : calls[i].id \in Nat /\ <<calls[i].text>> \in Seq(Nat)
    BY <2>1 DEF CallItem
  <2> QED
    BY <2>2 DEF OutputItem, Items
<1> HIDE DEF I, C
<1>4. calls \in Seq(CallItem) /\ DOMAIN calls = 1..Len(calls) /\ Len(calls) \in Nat
  BY DEF TypeInv
<1>5. cc \in Seq(OutputItem) /\ Len(cc) = Len(calls) /\ \A i \in 1..Len(calls) : cc[i] = C(i)
  BY <1>3, <1>4
<1>6. ASSUME NEW k \in Deltas
      PROVE  /\ W(k) \in Seq(OutputItem) /\ \A j \in 1..Len(W(k)) : W(k)[j] = I(k) /\ buf[k] # <<>>
             /\ buf[k] # <<>> => Len(W(k)) = 1 /\ W(k)[1] = I(k)
  <2>1. CASE buf[k] = <<>>
    BY <2>1
  <2>2. CASE buf[k] # <<>>
    <3>1. W(k) = <<I(k)>> /\ I(k) \in OutputItem
      BY <1>2, <2>2
    <3> QED
      BY <2>2, <3>1
  <2> QED
    BY <2>1, <2>2
<1> HIDE DEF W
<1>7. "reasoning" \in Deltas /\ "text" \in Deltas /\ Deltas = {"reasoning", "text"}
  BY DEF Deltas
<1>8. r \in Seq(OutputItem) /\ x \in Seq(OutputItem)
  BY <1>6, <1>7
<1> HIDE DEF cc, r, x
<1>9. /\ pre \in Seq(OutputItem) /\ Len(pre) = Len(r) + Len(x) /\ Len(r) \in Nat /\ Len(x) \in Nat
      /\ \A j \in 1..Len(r) : pre[j] = r[j]
      /\ \A j \in 1..Len(x) : pre[Len(r) + j] = x[j]
  BY <1>8
<1>10. \A j \in 1..Len(pre) : \E k \in Deltas : pre[j] = I(k) /\ buf[k] # <<>>
  <2> SUFFICES ASSUME NEW j \in 1..Len(pre) PROVE \E k \in Deltas : pre[j] = I(k) /\ buf[k] # <<>>
    OBVIOUS
  <2> HIDE DEF pre
  <2>1. CASE j \in 1..Len(r)
    BY <1>6, <1>7, <1>9, <2>1 DEF r
  <2>2. CASE j \notin 1..Len(r)
    <3> DEFINE i == j - Len(r)
    <3>1. i \in 1..Len(x) /\ j = Len(r) + i
      BY <1>9, <2>2
    <3> HIDE DEF i
    <3>2. pre[j] = x[i]
      BY <1>9, <3>1
    <3> QED
      BY <1>6, <1>7, <3>1, <3>2 DEF x
  <2> QED
    BY <2>1, <2>2
<1>11. \A k \in Deltas : buf[k] # <<>> => \E j \in 1..Len(pre) : pre[j] = I(k)
  <2> HIDE DEF pre
  <2>1. buf["reasoning"] # <<>> => 1 \in 1..Len(pre) /\ pre[1] = I("reasoning")
    BY <1>6, <1>7, <1>9 DEF r
  <2>2. buf["text"] # <<>> => Len(r) + 1 \in 1..Len(pre) /\ pre[Len(r) + 1] = I("text")
    BY <1>6, <1>7, <1>9 DEF x
  <2> QED
    BY <1>7, <2>1, <2>2
<1> HIDE DEF pre
<1>12. /\ pre \o cc \in Seq(OutputItem) /\ Len(pre \o cc) = Len(pre) + Len(calls)
       /\ Len(pre) \in Nat
       /\ \A j \in 1..Len(pre) : (pre \o cc)[j] = pre[j]
       /\ \A j \in 1..Len(calls) : (pre \o cc)[Len(pre) + j] = cc[j]
  BY <1>5, <1>9
<1>13. Range(OutputItems) = { (pre \o cc)[j] : j \in 1..(Len(pre) + Len(calls)) }
  <2>1. DOMAIN (pre \o cc) = 1..(Len(pre) + Len(calls))
    BY <1>12
  <2> QED
    BY <1>1, <2>1 DEF Range
<1>14. ASSUME NEW o \in Range(OutputItems)
       PROVE  \/ o.item \in Deltas /\ o.id = itemId[o.item] /\ o.text = buf[o.item] /\ o.text # <<>>
              \/ \E j \in DOMAIN calls : o.item = "fc" /\ o.id = calls[j].id /\ o.text = <<calls[j].text>>
  <2>1. PICK j \in 1..(Len(pre) + Len(calls)) : o = (pre \o cc)[j]
    BY <1>13
  <2>2. CASE j \in 1..Len(pre)
    <3>1. PICK k \in Deltas : o = I(k) /\ buf[k] # <<>>
      BY <1>10, <1>12, <2>1, <2>2
    <3> QED
      BY <1>2, <3>1
  <2>3. CASE j \notin 1..Len(pre)
    <3> DEFINE i == j - Len(pre)
    <3>1. i \in 1..Len(calls) /\ j = Len(pre) + i
      BY <1>4, <1>12, <2>3
    <3> HIDE DEF i
    <3>2. o = C(i)
      BY <1>5, <1>12, <2>1, <3>1
    <3>3. i \in DOMAIN calls
      BY <1>4, <3>1
    <3> QED
      BY <1>3, <3>2, <3>3
  <2> QED
    BY <2>2, <2>3
<1>15. ASSUME NEW k \in Deltas, buf[k] # <<>> PROVE \E o \in Range(OutputItems) : o.item = k
  <2>1. PICK j \in 1..Len(pre) : pre[j] = I(k)
    BY <1>11, <1>15
  <2>2. j \in 1..(Len(pre) + Len(calls)) /\ (pre \o cc)[j] = I(k)
    BY <1>4, <1>12, <2>1
  <2> QED
    BY <1>2, <1>13, <2>2
<1>16. Arguments(pre \o cc) = CallTexts(calls)
  <2> DEFINE A == [j \in 1..Len(calls) |-> <<calls[j].text>>]
             E == [j \in 1..Len(pre) |-> <<>>]
  <2>1. \A j \in 1..Len(pre) : pre[j].item # "fc"
    BY <1>2, <1>7, <1>10
  <2>2. \A j \in 1..Len(calls) : cc[j].item = "fc" /\ cc[j].text = <<calls[j].text>>
    BY <1>3, <1>4, <1>5
  <2>3. A \in Seq(Seq(Nat)) /\ Len(A) = Len(calls) /\ \A j \in 1..Len(calls) : A[j] = <<calls[j].text>>
    <3>1. \A j \in 1..Len(calls) : calls[j] \in CallItem
      BY <1>4
    <3>2. \A j \in 1..Len(calls) : <<calls[j].text>> \in Seq(Nat)
      BY <3>1 DEF CallItem
    <3> QED
      BY <1>4, <3>2
  <2>4. /\ E \in Seq(Seq(Nat)) /\ FlattenSeq(E) = <<>> /\ Len(E) = Len(pre)
        /\ \A j \in 1..Len(pre) : E[j] = <<>>
    <3>1. Len(pre) \in Nat
      BY <1>12
    <3> QED
      BY <3>1, FlattenEmpty
  <2>5. FlattenSeq(E \o A) = CallTexts(calls)
    <3> HIDE DEF E
    <3> QED
      BY <1>4, <2>4, FlattenCalls
  <2>6. /\ E \o A \in Seq(Seq(Nat)) /\ Len(E \o A) = Len(pre) + Len(calls)
        /\ \A j \in 1..Len(pre) : Len((E \o A)[j]) = 0
        /\ \A j \in 1..Len(calls) : (E \o A)[Len(pre) + j] = A[j]
    <3> HIDE DEF E, A
    <3>1. E \in Seq(Seq(Nat)) /\ A \in Seq(Seq(Nat))
      BY <2>3, <2>4
    <3>2. /\ E \o A \in Seq(Seq(Nat)) /\ Len(E \o A) = Len(E) + Len(A)
          /\ \A j \in 1..Len(E) : (E \o A)[j] = E[j]
          /\ \A j \in 1..Len(A) : (E \o A)[Len(E) + j] = A[j]
      BY <3>1, ConcatIs
    <3> DEFINE h == E \o A
    <3> HIDE DEF h
    <3>3. \A j \in 1..Len(pre) : Len(h[j]) = 0
      BY <2>4, <3>2 DEF h
    <3> QED
      BY <2>3, <2>4, <3>2, <3>3 DEF h
  <2>7. Arguments(pre \o cc) = FlattenSeq(E \o A)
    <3> DEFINE h == E \o A
    <3> HIDE DEF h
    <3>1. /\ h \in Seq(Seq(Nat)) /\ Len(h) = Len(pre) + Len(cc)
          /\ \A j \in 1..Len(pre) : Len(h[j]) = 0
      BY <1>5, <2>6 DEF h
    <3>2. \A j \in 1..Len(cc) : cc[j].item = "fc" /\ cc[j].text = h[Len(pre) + j]
      BY <1>5, <2>2, <2>3, <2>6 DEF h
    <3>3. Arguments(pre \o cc) = FlattenSeq(h)
      BY <1>5, <1>9, <2>1, <3>1, <3>2, ArgumentsOf
    <3> QED
      BY <3>3 DEF h
  <2> QED
    BY <2>5, <2>7
<1> QED
  BY <1>1, <1>12, <1>14, <1>15, <1>16

LEMMA ClosingType ==
    ASSUME TypeInv PROVE Closing \in Seq(Frames)
<1>1. CASE currentType = "none"
  <2>1. <<>> \in Seq(Frames)
    OBVIOUS
  <2> QED
    BY <1>1, <2>1 DEF Closing
<1>2. CASE currentType # "none"
  <2> DEFINE F(type) == Frame(type, currentType, currentId, outputIndex, buf[currentType])
  <2>1. /\ currentType \in Items \cup {"none"} /\ buf[currentType] \in Seq(Nat)
        /\ currentId \in Nat /\ outputIndex \in Nat
    BY <1>2 DEF TypeInv, Items
  <2>2. \A type \in FrameTypes : F(type) \in Frames
    BY <2>1, FrameType DEF Frames
  <2>3. "part_done" \in FrameTypes /\ "text_done" \in FrameTypes /\ "item_done" \in FrameTypes
    BY DEF FrameTypes
  <2>4. /\ currentType = "text" => Closing = <<F("part_done"), F("text_done"), F("item_done")>>
        /\ currentType # "text" => Closing = <<F("part_done"), F("item_done")>>
    BY <1>2 DEF Closing
  <2> HIDE DEF F
  <2>5. \A a \in Frames, b \in Frames, c \in Frames : <<a, b>> \in Seq(Frames) /\ <<a, b, c>> \in Seq(Frames)
    OBVIOUS
  <2>6. F("part_done") \in Frames /\ F("text_done") \in Frames /\ F("item_done") \in Frames
    BY <2>2, <2>3
  <2>7. CASE currentType = "text"
    BY <2>4, <2>5, <2>6, <2>7
  <2>8. CASE currentType # "text"
    BY <2>4, <2>5, <2>6, <2>8
  <2> QED
    BY <2>7, <2>8
<1> QED
  BY <1>1, <1>2

\* Finish
LEMMA FinishInv == ASSUME IInv, Finish PROVE IInv'
<1> DEFINE w == sent \o Closing
           c == [type |-> "completed", output |-> OutputItems]
           t == Append(w, c)
           n == Len(w) + 1
<1>1. TypeInv /\ ~over /\ bootstrapDone /\ Answering(sent)
  BY DEF Finish, Ends, IInv, TypeInv
<1>2. /\ sent' = sent \o Append(Closing, c) /\ over' = TRUE
      /\ events' = events /\ ids' = ids /\ buf' = buf /\ itemId' = itemId /\ calls' = calls
      /\ bootstrapDone' = bootstrapDone /\ hasAnyOutput' = hasAnyOutput
      /\ outputIndex' = NextIndex /\ currentType' = "none" /\ currentId' = 0
  BY DEF Finish, Ends
<1>3. View(w, ids, "none", 0, NextIndex, <<>>)
  BY <1>1, ClosingInv
<1>4. Whole(w, buf, itemId, calls, "none")
  BY <1>1, ClosingInv
<1>5. c \in Frames /\ c.type = "completed" /\ c.output = OutputItems
  <2>1. OutputItems \in Seq(OutputItem)
    BY <1>1, OutputIs
  <2> QED
    BY <2>1 DEF Frames
<1> HIDE DEF c
<1>6. w \in Seq(Frames) /\ Started(w) /\ InOrder(w) /\ DoneEnds(w) /\ At(w, "completed") = {}
      /\ Count(w, "item_done") = NextIndex /\ Count(w, "item_added") = NextIndex /\ NextIndex \in Nat
  <2>1. NextIndex \in Nat
    BY <1>1 DEF TypeInv, NextIndex
  <2> QED
    BY <1>3, <2>1 DEF View
<1>7. sent' = t /\ t \in Seq(Frames) /\ t[n] = c /\ Len(t) = n
  <2>1. sent \in Seq(Frames) /\ Closing \in Seq(Frames)
    BY <1>1, ClosingType DEF TypeInv
  <2>2. sent \o Append(Closing, c) = Append(sent \o Closing, c)
    BY <1>5, <2>1, ConcatAppend
  <2> QED
    BY <1>2, <1>5, <1>6, <2>2
<1> HIDE DEF w
<1>8. InOrder(t)
  <2>1. Fits(w, c)
    BY <1>5, <1>6 DEF Fits, InnerTypes
  <2> QED
    BY <1>5, <1>6, <2>1, OrderAppend
<1>9. DoneEnds(t)
  BY <1>5, <1>6, DoneAppend
<1>10. Repeats(t)
  <2>1. At(t, "completed") = {n}
    BY <1>5, <1>6, CountAppend
  <2>2. \A k : Streamed(t, OfItem(k)) = Streamed(w, OfItem(k))
    BY <1>5, <1>6, StreamedOther
  <2>3. \A k, x, y : ClosedAs(w, k, x, y) => ClosedAs(t, k, x, y)
    BY <1>5, <1>6, ClosedAppend
  <2> HIDE DEF t
  <2>4. ASSUME NEW o \in Range(OutputItems) PROVE ClosedAs(t, o.item, o.id, o.text)
    <3>1. CASE o.item \in Deltas /\ o.id = itemId[o.item] /\ o.text = buf[o.item] /\ o.text # <<>>
      <4>1. buf[o.item] # <<>> /\ "none" # o.item
        BY <3>1 DEF Deltas
      <4>2. ClosedAs(w, o.item, itemId[o.item], buf[o.item])
        BY <1>4, <3>1, <4>1 DEF Whole, Closed
      <4> QED
        BY <2>3, <3>1, <4>2
    <3>2. CASE \E j \in DOMAIN calls : o.item = "fc" /\ o.id = calls[j].id /\ o.text = <<calls[j].text>>
      BY <1>4, <2>3, <3>2 DEF Whole, Closed
    <3> QED
      BY <1>1, <3>1, <3>2, OutputIs
  <2>5. ASSUME NEW k \in Deltas
        PROVE  Texts(OutputItems, k) = IF Streamed(t, OfItem(k)) = <<>> THEN {} ELSE {Streamed(t, OfItem(k))}
    <3>1. Streamed(t, OfItem(k)) = buf[k]
      BY <1>4, <2>2 DEF Whole, Held
    <3>2. \A o \in Range(OutputItems) : o.item = k => o.text = buf[k] /\ buf[k] # <<>>
      BY <1>1, OutputIs DEF Deltas
    <3>3. buf[k] # <<>> => \E o \in Range(OutputItems) : o.item = k
      BY <1>1, OutputIs
    <3>4. CASE buf[k] = <<>>
      BY <3>1, <3>2, <3>4 DEF Texts
    <3>5. CASE buf[k] # <<>>
      <4>1. PICK o \in Range(OutputItems) : o.item = k
        BY <3>3, <3>5
      <4>2. Texts(OutputItems, k) = {buf[k]}
        BY <3>2, <4>1 DEF Texts
      <4> QED
        BY <3>1, <3>5, <4>2
    <3> QED
      BY <3>4, <3>5
  <2>6. Streamed(t, OfItem("fc")) = Arguments(OutputItems)
    BY <1>1, <1>4, <2>2, OutputIs DEF Whole, Held
  <2> QED
    BY <1>5, <1>7, <2>1, <2>4, <2>5, <2>6 DEF Repeats
<1>11. TypeInv'
  BY <1>1, <1>2, <1>6, <1>7 DEF TypeInv
<1> QED
  BY <1>2, <1>7, <1>8, <1>9, <1>10, <1>11 DEF IInv

\* What holds of the frames sent so far, in every state.
LEMMA Sound == ASSUME IInv PROVE InOrder(sent) /\ DoneEnds(sent) /\ Repeats(sent)
<1>1. CASE over
  BY <1>1 DEF IInv
<1>2. CASE ~over /\ bootstrapDone
  BY <1>2 DEF IInv, Answering, View, Repeats
<1>3. CASE ~over /\ ~bootstrapDone
  <2>1. sent = <<>>
    BY <1>3 DEF IInv, Untouched
  <2>2. \A type : At(sent, type) = {} /\ Count(sent, type) = 0
    BY <2>1, FS_EmptySet DEF At, Count
  <2>3. DOMAIN sent = {}
    BY <2>1
  <2> QED
    BY <2>2, <2>3 DEF InOrder, DoneEnds, Repeats
<1> QED
  BY <1>1, <1>2, <1>3 DEF IInv, TypeInv

\* Error
LEMMA ErrorInv == ASSUME IInv, Error PROVE IInv'
<1> DEFINE e == Plain("error")
           t == Append(sent, e)
<1>1. TypeInv /\ ~over /\ sent \in Seq(Frames)
  BY DEF Error, Ends, IInv, TypeInv
<1>2. /\ sent' = sent \o <<e>> /\ over' = TRUE
      /\ events' = events /\ ids' = ids /\ buf' = buf /\ itemId' = itemId /\ calls' = calls
      /\ bootstrapDone' = bootstrapDone /\ hasAnyOutput' = hasAnyOutput
      /\ outputIndex' = outputIndex /\ currentType' = currentType /\ currentId' = currentId
  BY DEF Error, Ends, current
<1>3. e \in Frames /\ e.type = "error"
  BY DEF Plain, Frame, ItemFrames, Frames, FrameTypes
<1> HIDE DEF e
<1>4. sent' = t /\ t \in Seq(Frames)
  BY <1>1, <1>2, <1>3
<1>5. InOrder(sent) /\ DoneEnds(sent)
  BY Sound
<1>6. At(sent, "completed") = {}
  BY <1>1, FS_EmptySet DEF IInv, Answering, View, Untouched, At
<1>7. DoneEnds(t)
  BY <1>1, <1>3, <1>5, DoneAppend
<1>8. InOrder(t)
  <2>1. CASE bootstrapDone
    <3>1. Started(sent)
      BY <1>1, <2>1 DEF IInv, Answering, View
    <3>2. Fits(sent, e)
      BY <1>3 DEF Fits, InnerTypes
    <3> QED
      BY <1>1, <1>3, <1>5, <3>1, <3>2, OrderAppend
  <2>2. CASE ~bootstrapDone
    <3>1. sent = <<>>
      BY <1>1, <2>2 DEF IInv, Untouched
    <3>2. \A type : At(sent, type) = {} /\ Count(sent, type) = 0
      BY <3>1, FS_EmptySet DEF At, Count
    <3>3. \A type : type # "error" => At(t, type) = {} /\ Count(t, type) = 0
      <4>1. \A type : /\ At(t, type) = IF e.type = type THEN At(sent, type) \cup {Len(sent) + 1} ELSE At(sent, type)
                      /\ Count(t, type) = Count(sent, type) + (IF e.type = type THEN 1 ELSE 0)
        BY <1>1, <1>3, CountAppend
      <4> QED
        BY <1>3, <3>2, <4>1
    <3>4. DOMAIN t = {1} /\ t[1] = e
      BY <1>3, <3>1
    <3> QED
      BY <1>3, <3>3, <3>4 DEF InOrder, Begun, InnerTypes
  <2> QED
    BY <1>1, <2>1, <2>2 DEF TypeInv
<1>9. Repeats(t)
  <2>1. At(t, "completed") = {}
    BY <1>1, <1>3, <1>6, CountAppend
  <2> QED
    BY <2>1 DEF Repeats
<1>10. TypeInv'
  BY <1>1, <1>2, <1>4 DEF TypeInv
<1> QED
  BY <1>2, <1>4, <1>7, <1>8, <1>9, <1>10 DEF IInv

\* Disconnect
LEMMA DisconnectInv == ASSUME IInv, Disconnect PROVE IInv'
<1>1. TypeInv /\ sent \in Seq(Frames)
  BY DEF IInv, TypeInv
<1>2. /\ sent' = sent /\ over' = TRUE
      /\ events' = events /\ ids' = ids /\ buf' = buf /\ itemId' = itemId /\ calls' = calls
      /\ bootstrapDone' = bootstrapDone /\ hasAnyOutput' = hasAnyOutput
      /\ outputIndex' = outputIndex /\ currentType' = currentType /\ currentId' = currentId
  BY <1>1 DEF Disconnect, Ends, current
<1>3. InOrder(sent') /\ DoneEnds(sent') /\ Repeats(sent')
  BY <1>2, Sound
<1>4. TypeInv'
  BY <1>1, <1>2 DEF TypeInv
<1> QED
  BY <1>2, <1>3, <1>4 DEF IInv

LEMMA NextInv == IInv /\ [Next]_vars => IInv'
<1> SUFFICES ASSUME IInv, [Next]_vars PROVE IInv'
  OBVIOUS
<1>1. ASSUME NEW kind \in Deltas, Continue(kind) PROVE IInv'
  BY <1>1, ContinueInv
<1>2. ASSUME NEW kind \in Deltas, Switch(kind) PROVE IInv'
  BY <1>2, SwitchInv
<1>3. CASE ToolCall
  BY <1>3, ToolCallInv
<1>4. CASE Finish
  BY <1>4, FinishInv
<1>5. CASE Error
  BY <1>5, ErrorInv
<1>6. CASE Disconnect
  BY <1>6, DisconnectInv
<1>7. CASE UNCHANGED vars
  BY <1>7 DEF vars, current, IInv, TypeInv, Untouched, Answering, OpenText
<1> QED
  BY <1>1, <1>2, <1>3, <1>4, <1>5, <1>6, <1>7 DEF Next

-----------------------------------------------------------------------------
(* The collectors *)

ReceivedEvent == [kind : Kinds \cup {"finish"}, text : Seq(Nat)]

\* A delta's text is empty or the number of its event; a call has always one, a finish
\* never.
Numbered(r) ==
    /\ r \in Seq(ReceivedEvent)
    /\ \A i \in DOMAIN r :
          /\ r[i].text = <<>> \/ r[i].text = <<i>>
          /\ r[i].kind \notin {"text", "reasoning", "finish"} => r[i].text # <<>>
          /\ r[i].kind = "finish" => r[i].text = <<>>

\* The numbers of the events of some kinds that have something to show.
Shown(r, kinds) == { i \in DOMAIN r : r[i].kind \in kinds /\ r[i].text # <<>> }

\* A list holds them, in order.
Holds(list, r, kinds) ==
    /\ list \in Seq(Nat)
    /\ Range(list) = Shown(r, kinds)
    /\ \A i, j \in DOMAIN list : i < j => list[i] < list[j]

CallKinds == IF api = "messages" THEN {"tool"} ELSE {"tool", "serverTool"}

OfKind(r, kind) == { i \in DOMAIN r : r[i].kind = kind }

CollectorInv ==
    /\ api \in {"chat", "messages", "responses"}
    /\ tools \in BOOLEAN /\ effortOff \in BOOLEAN
    /\ api # "chat" => ~tools /\ ~effortOff
    /\ Numbered(received)
    /\ textParts \in Seq(Seq(Nat)) /\ reasoningParts \in Seq(Seq(Nat))
    /\ textParts = <<>> <=> OfKind(received, "text") = {}
    /\ reasoningParts = <<>> <=> OfKind(received, "reasoning") = {}
    /\ Holds(Joined(textParts), received, {"text"})
    /\ Holds(Joined(reasoningParts), received, {"reasoning"})
    /\ Holds(toolCalls, received, CallKinds)

LEMMA ReceivedAppend ==
    ASSUME NEW r, Numbered(r), NEW e \in ReceivedEvent
    PROVE  /\ Len(r) \in Nat /\ DOMAIN r = 1..Len(r)
           /\ Append(r, e) \in Seq(ReceivedEvent) /\ DOMAIN Append(r, e) = 1..Len(r) + 1
           /\ Append(r, e)[Len(r) + 1] = e
           /\ \A i \in 1..Len(r) : Append(r, e)[i] = r[i] /\ i # Len(r) + 1
<1>1. r \in Seq(ReceivedEvent)
  BY DEF Numbered
<1> HIDE DEF ReceivedEvent
<1> QED
  BY <1>1

LEMMA NumberedAppend ==
    ASSUME NEW r, Numbered(r), NEW e \in ReceivedEvent,
           e.text = <<>> \/ e.text = <<Len(r) + 1>>,
           e.kind \notin {"text", "reasoning", "finish"} => e.text # <<>>,
           e.kind = "finish" => e.text = <<>>
    PROVE  Numbered(Append(r, e))
<1> DEFINE s == Append(r, e)
           n == Len(r) + 1
<1>1. /\ s \in Seq(ReceivedEvent) /\ DOMAIN s = 1..n /\ s[n] = e /\ DOMAIN r = 1..Len(r)
      /\ Len(r) \in Nat
      /\ \A i \in 1..Len(r) : s[i] = r[i]
  BY ReceivedAppend
<1> HIDE DEF s
<1>2. ASSUME NEW i \in DOMAIN s
      PROVE  /\ s[i].text = <<>> \/ s[i].text = <<i>>
             /\ s[i].kind \notin {"text", "reasoning", "finish"} => s[i].text # <<>>
             /\ s[i].kind = "finish" => s[i].text = <<>>
  <2>1. CASE i = n
    BY <1>1, <2>1
  <2>2. CASE i # n
    <3>1. i \in DOMAIN r /\ s[i] = r[i]
      BY <1>1, <2>2
    <3> QED
      BY <3>1 DEF Numbered
  <2> QED
    BY <2>1, <2>2
<1>3. Numbered(s)
  BY <1>1, <1>2 DEF Numbered
<1> QED
  BY <1>3 DEF s

LEMMA ShownAppend ==
    ASSUME NEW r, Numbered(r), NEW e \in ReceivedEvent, NEW kinds
    PROVE  /\ e.kind \in kinds /\ e.text # <<>> =>
                 Shown(Append(r, e), kinds) = Shown(r, kinds) \cup {Len(r) + 1}
           /\ ~(e.kind \in kinds /\ e.text # <<>>) => Shown(Append(r, e), kinds) = Shown(r, kinds)
<1> DEFINE s == Append(r, e)
<1>1. /\ DOMAIN s = 1..Len(r) + 1 /\ s[Len(r) + 1] = e /\ DOMAIN r = 1..Len(r)
      /\ Len(r) \in Nat /\ \A i \in 1..Len(r) : s[i] = r[i] /\ i # Len(r) + 1
  BY ReceivedAppend
<1>2. DOMAIN s = DOMAIN r \cup {Len(r) + 1}
  BY <1>1
<1> HIDE DEF s
<1>3. e.kind \in kinds /\ e.text # <<>> => Shown(s, kinds) = Shown(r, kinds) \cup {Len(r) + 1}
  BY <1>1, <1>2 DEF Shown
<1>4. ~(e.kind \in kinds /\ e.text # <<>>) => Shown(s, kinds) = Shown(r, kinds)
  BY <1>1, <1>2 DEF Shown
<1> QED
  BY <1>3, <1>4 DEF s

LEMMA OfKindAppend ==
    ASSUME NEW r, Numbered(r), NEW e \in ReceivedEvent, NEW kind
    PROVE  /\ e.kind = kind => OfKind(Append(r, e), kind) = OfKind(r, kind) \cup {Len(r) + 1}
           /\ e.kind # kind => OfKind(Append(r, e), kind) = OfKind(r, kind)
<1> DEFINE s == Append(r, e)
<1>1. /\ DOMAIN s = 1..Len(r) + 1 /\ s[Len(r) + 1] = e /\ DOMAIN r = 1..Len(r)
      /\ Len(r) \in Nat /\ \A i \in 1..Len(r) : s[i] = r[i] /\ i # Len(r) + 1
  BY ReceivedAppend
<1>2. DOMAIN s = DOMAIN r \cup {Len(r) + 1}
  BY <1>1
<1> HIDE DEF s
<1>3. e.kind = kind => OfKind(s, kind) = OfKind(r, kind) \cup {Len(r) + 1}
  BY <1>1, <1>2 DEF OfKind
<1>4. e.kind # kind => OfKind(s, kind) = OfKind(r, kind)
  BY <1>1, <1>2 DEF OfKind
<1> QED
  BY <1>3, <1>4 DEF s

\* An event of another kind, or with nothing to show, does not change what is held.
LEMMA HoldsOther ==
    ASSUME NEW r, Numbered(r), NEW e \in ReceivedEvent, NEW kinds, NEW list,
           Holds(list, r, kinds), ~(e.kind \in kinds /\ e.text # <<>>)
    PROVE  Holds(list, Append(r, e), kinds)
<1>1. Shown(Append(r, e), kinds) = Shown(r, kinds)
  BY ShownAppend
<1> QED
  BY <1>1 DEF Holds

\* One that has is held once its number has been appended.
LEMMA HoldsAppend ==
    ASSUME NEW r, Numbered(r), NEW e \in ReceivedEvent, NEW kinds, NEW list,
           Holds(list, r, kinds), e.kind \in kinds, e.text # <<>>
    PROVE  Holds(Append(list, Len(r) + 1), Append(r, e), kinds)
<1> DEFINE n == Len(r) + 1
           l == Append(list, n)
           m == Len(list) + 1
<1>1. list \in Seq(Nat) /\ Range(list) = Shown(r, kinds) /\ Len(r) \in Nat /\ n \in Nat
      /\ DOMAIN r = 1..Len(r)
  BY ReceivedAppend DEF Holds
<1>2. /\ l \in Seq(Nat) /\ Len(list) \in Nat /\ DOMAIN list = 1..Len(list)
      /\ DOMAIN l = 1..m /\ l[m] = n
      /\ \A i \in 1..Len(list) : l[i] = list[i] /\ list[i] \in Nat
  BY <1>1
<1>3. DOMAIN l = DOMAIN list \cup {m}
  BY <1>2
<1>4. Shown(Append(r, e), kinds) = Shown(r, kinds) \cup {n}
  BY ShownAppend
<1>5. \A i \in DOMAIN list : list[i] < n
  <2>1. \A i \in DOMAIN list : list[i] \in Shown(r, kinds)
    BY <1>1 DEF Range
  <2>2. \A x \in Shown(r, kinds) : x \in 1..Len(r)
    BY <1>1 DEF Shown
  <2> QED
    BY <1>1, <2>1, <2>2
<1> HIDE DEF l
<1>6. Range(l) = Range(list) \cup {n}
  BY <1>2, <1>3 DEF Range
<1>7. \A i, j \in DOMAIN l : i < j => l[i] < l[j]
  <2> SUFFICES ASSUME NEW i \in DOMAIN l, NEW j \in DOMAIN l, i < j PROVE l[i] < l[j]
    OBVIOUS
  <2>1. i \in 1..Len(list)
    BY <1>2
  <2>2. CASE j = m
    BY <1>2, <1>5, <2>1, <2>2
  <2>3. CASE j # m
    <3>1. j \in 1..Len(list)
      BY <1>2, <2>3
    <3> QED
      BY <1>2, <2>1, <3>1 DEF Holds
  <2> QED
    BY <2>2, <2>3
<1>8. Holds(l, Append(r, e), kinds)
  BY <1>1, <1>2, <1>4, <1>6, <1>7 DEF Holds
<1> QED
  BY <1>8 DEF l

\* What a list of texts joins to grows by the text received.
LEMMA JoinedAppend ==
    ASSUME NEW r, Numbered(r), NEW e \in ReceivedEvent, NEW kind,
           NEW parts \in Seq(Seq(Nat)), Holds(Joined(parts), r, {kind}),
           e.kind = kind, e.text = <<>> \/ e.text = <<Len(r) + 1>>
    PROVE  /\ Append(parts, e.text) \in Seq(Seq(Nat)) /\ Append(parts, e.text) # <<>>
           /\ Holds(Joined(Append(parts, e.text)), Append(r, e), {kind})
<1> DEFINE t == e.text
           n == Len(r) + 1
<1>1. t \in Seq(Nat) /\ n \in Nat
  BY ReceivedAppend DEF ReceivedEvent
<1>2. Joined(Append(parts, t)) = Joined(parts) \o t /\ Joined(parts) \in Seq(Nat)
  BY <1>1, FlattenAppend, FlattenType DEF Joined
<1>3. Append(parts, t) \in Seq(Seq(Nat)) /\ Append(parts, t) # <<>>
  <2> HIDE DEF t
  <2>1. /\ Append(parts, t) \in Seq(Seq(Nat)) /\ Len(parts) \in Nat
        /\ Len(Append(parts, t)) = Len(parts) + 1
    BY <1>1, AppendProperties
  <2>2. Append(parts, t) # <<>>
    BY <2>1, EmptySeq
  <2> QED
    BY <2>1, <2>2
<1>4. CASE t = <<>>
  <2>1. Joined(Append(parts, t)) = Joined(parts)
    BY <1>2, <1>4, ConcatEmptySeq
  <2>2. Holds(Joined(parts), Append(r, e), {kind})
    BY <1>4, HoldsOther
  <2> QED
    BY <1>3, <2>1, <2>2
<1>5. CASE t # <<>>
  <2>1. t = <<n>>
    BY <1>5
  <2>2. Joined(parts) \o <<n>> = Append(Joined(parts), n)
    BY <1>1, <1>2, AppendIsConcat
  <2>3. Holds(Append(Joined(parts), n), Append(r, e), {kind})
    BY <1>5, HoldsAppend
  <2>4. Joined(Append(parts, t)) = Append(Joined(parts), n)
    BY <1>2, <2>1, <2>2
  <2> QED
    BY <1>3, <2>3, <2>4
<1> QED
  BY <1>4, <1>5

LEMMA NothingHeld == ASSUME NEW kinds PROVE Holds(<<>>, <<>>, kinds)
<1>1. <<>> \in Seq(Nat) /\ DOMAIN <<>> = {}
  OBVIOUS
<1>2. Range(<<>>) = {} /\ Shown(<<>>, kinds) = {}
  BY <1>1 DEF Range, Shown
<1> QED
  BY <1>1, <1>2 DEF Holds

LEMMA InitCollector == CollectorInit => CollectorInv
<1> SUFFICES ASSUME CollectorInit PROVE CollectorInv
  OBVIOUS
<1>1. /\ api \in {"chat", "messages", "responses"} /\ tools \in BOOLEAN /\ effortOff \in BOOLEAN
      /\ api # "chat" => ~tools /\ ~effortOff
  BY DEF CollectorInit
<1>2. received = <<>> /\ textParts = <<>> /\ reasoningParts = <<>> /\ toolCalls = <<>>
  BY DEF CollectorInit
<1>3. Numbered(<<>>)
  <2>1. <<>> \in Seq(ReceivedEvent) /\ DOMAIN <<>> = {}
    OBVIOUS
  <2> QED
    BY <2>1 DEF Numbered
<1>4. \A kind : OfKind(<<>>, kind) = {}
  BY DEF OfKind
<1>5. Joined(<<>>) = <<>>
  BY FlattenNothing DEF Joined
<1>6. <<>> \in Seq(Seq(Nat))
  OBVIOUS
<1>7. Holds(Joined(textParts), received, {"text"}) /\ Holds(Joined(reasoningParts), received, {"reasoning"})
      /\ Holds(toolCalls, received, CallKinds)
  BY <1>2, <1>5, NothingHeld
<1> QED
  BY <1>1, <1>2, <1>3, <1>4, <1>6, <1>7 DEF CollectorInv

LEMMA ReceiveStep ==
    ASSUME CollectorInv, NEW kind \in Kinds, NEW empty \in BOOLEAN, Receive(kind, empty)
    PROVE  CollectorInv'
<1> DEFINE n == Len(received) + 1
           t == IF empty THEN <<>> ELSE <<n>>
           e == [kind |-> kind, text |-> t]
<1>0. Numbered(received) /\ Len(received) \in Nat /\ n \in Nat
  BY DEF CollectorInv, Numbered
<1>1. t \in Seq(Nat) /\ (t = <<>> \/ t = <<n>>) /\ (t = <<>> <=> empty)
  BY <1>0
<1>2. /\ received' = Append(received, e)
      /\ textParts' = IF kind = "text" THEN Append(textParts, t) ELSE textParts
      /\ reasoningParts' = IF kind = "reasoning" THEN Append(reasoningParts, t) ELSE reasoningParts
      /\ toolCalls' = IF kind = "tool" \/ (kind = "serverTool" /\ api # "messages")
                      THEN Append(toolCalls, n) ELSE toolCalls
      /\ empty => kind \in {"text", "reasoning"}
      /\ UNCHANGED <<api, tools, effortOff>>
  BY DEF Receive
<1> HIDE DEF t
<1>3. e \in ReceivedEvent /\ e.kind = kind /\ e.text = t
  BY <1>1 DEF ReceivedEvent
<1> HIDE DEF e
<1>4. Numbered(received')
  <2>1. kind # "finish"
    BY DEF Kinds
  <2> QED
    BY <1>0, <1>1, <1>2, <1>3, <2>1, NumberedAppend
<1>5. /\ textParts' \in Seq(Seq(Nat)) /\ Holds(Joined(textParts'), received', {"text"})
      /\ textParts' = <<>> <=> OfKind(received', "text") = {}
  <2>1. CASE kind = "text"
    <3>1. /\ textParts' \in Seq(Seq(Nat)) /\ textParts' # <<>>
          /\ Holds(Joined(textParts'), received', {"text"})
      BY <1>0, <1>1, <1>2, <1>3, <2>1, JoinedAppend DEF CollectorInv
    <3>2. n \in OfKind(received', "text")
      <4>1. OfKind(received', "text") = OfKind(received, "text") \cup {n}
        BY <1>0, <1>2, <1>3, <2>1, OfKindAppend
      <4> QED
        BY <4>1
    <3> QED
      BY <3>1, <3>2
  <2>2. CASE kind # "text"
    <3>1. textParts' = textParts
      BY <1>2, <2>2
    <3>2. Holds(Joined(textParts), received', {"text"})
      BY <1>0, <1>2, <1>3, <2>2, HoldsOther DEF CollectorInv
    <3>3. OfKind(received', "text") = OfKind(received, "text")
      BY <1>0, <1>2, <1>3, <2>2, OfKindAppend
    <3> QED
      BY <3>1, <3>2, <3>3 DEF CollectorInv
  <2> QED
    BY <2>1, <2>2
<1>6. /\ reasoningParts' \in Seq(Seq(Nat)) /\ Holds(Joined(reasoningParts'), received', {"reasoning"})
      /\ reasoningParts' = <<>> <=> OfKind(received', "reasoning") = {}
  <2>1. CASE kind = "reasoning"
    <3>1. /\ reasoningParts' \in Seq(Seq(Nat)) /\ reasoningParts' # <<>>
          /\ Holds(Joined(reasoningParts'), received', {"reasoning"})
      BY <1>0, <1>1, <1>2, <1>3, <2>1, JoinedAppend DEF CollectorInv
    <3>2. n \in OfKind(received', "reasoning")
      <4>1. OfKind(received', "reasoning") = OfKind(received, "reasoning") \cup {n}
        BY <1>0, <1>2, <1>3, <2>1, OfKindAppend
      <4> QED
        BY <4>1
    <3> QED
      BY <3>1, <3>2
  <2>2. CASE kind # "reasoning"
    <3>1. reasoningParts' = reasoningParts
      BY <1>2, <2>2
    <3>2. Holds(Joined(reasoningParts), received', {"reasoning"})
      BY <1>0, <1>2, <1>3, <2>2, HoldsOther DEF CollectorInv
    <3>3. OfKind(received', "reasoning") = OfKind(received, "reasoning")
      BY <1>0, <1>2, <1>3, <2>2, OfKindAppend
    <3> QED
      BY <3>1, <3>2, <3>3 DEF CollectorInv
  <2> QED
    BY <2>1, <2>2
<1>7. Holds(toolCalls', received', CallKinds)
  <2>1. CASE kind \in CallKinds
    <3>1. toolCalls' = Append(toolCalls, n) /\ t # <<>>
      BY <1>1, <1>2, <2>1 DEF CallKinds
    <3> QED
      BY <1>0, <1>2, <1>3, <2>1, <3>1, HoldsAppend DEF CollectorInv
  <2>2. CASE kind \notin CallKinds
    <3>1. toolCalls' = toolCalls
      BY <1>2, <2>2 DEF CallKinds
    <3> QED
      BY <1>0, <1>2, <1>3, <2>2, <3>1, HoldsOther DEF CollectorInv
  <2> QED
    BY <2>1, <2>2
<1>8. CallKinds' = CallKinds
  BY <1>2 DEF CallKinds
<1> QED
  BY <1>2, <1>4, <1>5, <1>6, <1>7, <1>8 DEF CollectorInv

LEMMA FinishEventStep == ASSUME CollectorInv, FinishEvent PROVE CollectorInv'
<1> DEFINE e == [kind |-> "finish", text |-> <<>>]
<1>1. /\ received' = Append(received, e) /\ Numbered(received)
      /\ UNCHANGED <<api, tools, effortOff, textParts, reasoningParts, toolCalls>>
  BY DEF FinishEvent, CollectorInv
<1>2. e \in ReceivedEvent /\ e.kind = "finish" /\ e.text = <<>>
  BY DEF ReceivedEvent
<1> HIDE DEF e
<1>3. Numbered(received')
  BY <1>1, <1>2, NumberedAppend
<1>4. /\ OfKind(received', "text") = OfKind(received, "text")
      /\ OfKind(received', "reasoning") = OfKind(received, "reasoning")
  BY <1>1, <1>2, OfKindAppend
<1>5. /\ Holds(Joined(textParts), received', {"text"})
      /\ Holds(Joined(reasoningParts), received', {"reasoning"})
      /\ Holds(toolCalls, received', CallKinds)
  BY <1>1, <1>2, HoldsOther DEF CollectorInv
<1>6. CallKinds' = CallKinds
  BY <1>1 DEF CallKinds
<1> QED
  BY <1>1, <1>3, <1>4, <1>5, <1>6 DEF CollectorInv

LEMMA StepCollector == CollectorInv /\ [CollectorNext]_collectorVars => CollectorInv'
<1> SUFFICES ASSUME CollectorInv, [CollectorNext]_collectorVars PROVE CollectorInv'
  OBVIOUS
<1>1. ASSUME NEW kind \in Kinds, NEW empty \in BOOLEAN, Receive(kind, empty) PROVE CollectorInv'
  BY <1>1, ReceiveStep
<1>2. ASSUME UNCHANGED <<api, tools, effortOff, received, textParts, reasoningParts, toolCalls>>
      PROVE  CollectorInv'
  BY <1>2 DEF CollectorInv, CallKinds
<1>3. CASE FinishEvent
  BY <1>3, FinishEventStep
<1>4. ASSUME NEW how, End(how) PROVE CollectorInv'
  BY <1>2, <1>4 DEF End, gathered
<1>5. CASE UNCHANGED collectorVars
  BY <1>2, <1>5 DEF collectorVars, gathered
<1> QED
  BY <1>1, <1>3, <1>4, <1>5 DEF CollectorNext

\* All that came for the client, and its numbers.
AllShown == Shows(Range(received))
Passed ==
    Shown(received, {"text"}) \cup Shown(received, CallKinds) \cup
    (IF effortOff THEN {} ELSE Shown(received, {"reasoning"}))

LEMMA PassedIs ==
    ASSUME CollectorInv
    PROVE  /\ { e.text[1] : e \in AllShown } = Passed
           /\ AllShown = {} <=> Passed = {}
           /\ api = "chat" => ((\A e \in AllShown : e.kind = "reasoning") <=>
                                 Shown(received, {"text"}) = {} /\ Shown(received, CallKinds) = {})
<1>0. Numbered(received) /\ DOMAIN received = 1..Len(received) /\ received \in Seq(ReceivedEvent)
  BY DEF CollectorInv, Numbered
<1>1. ASSUME NEW e \in AllShown
      PROVE  \E i \in Passed : /\ e = received[i] /\ e.text[1] = i
                               /\ e.kind # "reasoning" =>
                                    i \in Shown(received, {"text"}) \cup Shown(received, CallKinds)
  <2>1. PICK i \in DOMAIN received : e = received[i]
    BY DEF AllShown, Shows, Range
  <2>2. e.text # <<>> /\ e.text = <<i>> /\ e.text[1] = i
    <3>1. e.text # <<>>
      BY DEF AllShown, Shows
    <3>2. e.text = <<i>>
      BY <1>0, <2>1, <3>1 DEF Numbered
    <3>3. <<i>>[1] = i
      OBVIOUS
    <3> QED
      BY <3>1, <3>2, <3>3
  <2>3. e.kind \in Kinds
    <3>1. e \in ReceivedEvent
      BY <1>0, <2>1, ElementOfSeq
    <3>2. e.kind # "finish"
      BY <1>0, <2>1, <2>2 DEF Numbered
    <3> QED
      BY <3>1, <3>2 DEF ReceivedEvent
  <2>4. e.kind = "reasoning" => i \in Shown(received, {"reasoning"}) /\ ~effortOff
    BY <2>1, <2>2 DEF AllShown, Shows, Shown
  <2>5. e.kind # "reasoning" => i \in Shown(received, {"text"}) \cup Shown(received, CallKinds)
    BY <2>1, <2>2, <2>3 DEF AllShown, Shows, Shown, CallKinds, Kinds
  <2> QED
    BY <2>1, <2>2, <2>4, <2>5 DEF Passed
<1>2. ASSUME NEW i \in Passed
      PROVE  /\ received[i] \in AllShown /\ received[i].text[1] = i
             /\ i \in Shown(received, {"text"}) \cup Shown(received, CallKinds) =>
                  received[i].kind # "reasoning"
  <2>1. i \in DOMAIN received /\ received[i].text # <<>>
    BY DEF Passed, Shown
  <2>2. received[i].text = <<i>> /\ <<i>>[1] = i
    BY <1>0, <2>1 DEF Numbered
  <2>3. received[i] \in Range(received)
    BY <2>1 DEF Range
  <2>4. ~(api = "messages" /\ received[i].kind = "serverTool")
        /\ ~(effortOff /\ received[i].kind = "reasoning")
    BY DEF Passed, Shown, CallKinds
  <2>5. i \in Shown(received, {"text"}) \cup Shown(received, CallKinds) => received[i].kind # "reasoning"
    BY DEF Shown, CallKinds
  <2>6. received[i].text[1] = i
    BY <2>2
  <2>7. received[i] \in AllShown
    BY <2>1, <2>3, <2>4 DEF AllShown, Shows
  <2> QED
    BY <2>5, <2>6, <2>7
<1>3. { e.text[1] : e \in AllShown } = Passed
  BY <1>1, <1>2
<1>4. AllShown = {} <=> Passed = {}
  BY <1>1, <1>2
<1>5. ASSUME \A e \in AllShown : e.kind = "reasoning"
      PROVE  Shown(received, {"text"}) = {} /\ Shown(received, CallKinds) = {}
  <2>1. \A i \in Shown(received, {"text"}) \cup Shown(received, CallKinds) : i \in Passed
    BY DEF Passed
  <2> QED
    BY <1>2, <1>5, <2>1
<1>6. ASSUME Shown(received, {"text"}) = {}, Shown(received, CallKinds) = {}
      PROVE  \A e \in AllShown : e.kind = "reasoning"
  BY <1>1, <1>6
<1> QED
  BY <1>3, <1>4, <1>5, <1>6

LEMMA HeldNone ==
    ASSUME NEW list, NEW r, NEW kinds, Holds(list, r, kinds)
    PROVE  list = <<>> <=> Shown(r, kinds) = {}
<1>1. list \in Seq(Nat) /\ Range(list) = Shown(r, kinds)
  BY DEF Holds
<1>2. list = <<>> <=> DOMAIN list = {}
  <2>1. Len(list) \in Nat /\ DOMAIN list = 1..Len(list) /\ (list = <<>> <=> Len(list) = 0)
    BY <1>1, EmptySeq, LenProperties
  <2> QED
    BY <2>1
<1>3. DOMAIN list = {} <=> Range(list) = {}
  BY DEF Range
<1> QED
  BY <1>1, <1>2, <1>3

\* The lists, and what they join to, by what has been received.
LEMMA ListsAre ==
    ASSUME CollectorInv
    PROVE  /\ Joined(textParts) = <<>> <=> Shown(received, {"text"}) = {}
           /\ Joined(reasoningParts) = <<>> <=> Shown(received, {"reasoning"}) = {}
           /\ toolCalls = <<>> <=> Shown(received, CallKinds) = {}
           /\ textParts = <<>> => Joined(textParts) = <<>>
           /\ reasoningParts = <<>> => Joined(reasoningParts) = <<>>
<1>1. \A kind : Shown(received, {kind}) \subseteq OfKind(received, kind)
  BY DEF Shown, OfKind
<1>2. Joined(textParts) = <<>> <=> Shown(received, {"text"}) = {}
  BY HeldNone DEF CollectorInv
<1>3. Joined(reasoningParts) = <<>> <=> Shown(received, {"reasoning"}) = {}
  BY HeldNone DEF CollectorInv
<1>4. toolCalls = <<>> <=> Shown(received, CallKinds) = {}
  BY HeldNone DEF CollectorInv
<1>5. textParts = <<>> => Shown(received, {"text"}) = {}
  BY <1>1 DEF CollectorInv
<1>6. reasoningParts = <<>> => Shown(received, {"reasoning"}) = {}
  BY <1>1 DEF CollectorInv
<1> QED
  BY <1>2, <1>3, <1>4, <1>5, <1>6

LEMMA AnswerFields ==
    ASSUME NEW t, NEW r, NEW c
    PROVE  /\ Answer(t, r, c).failed = FALSE /\ Failure.failed = TRUE
           /\ Answer(t, r, c).text = t /\ Answer(t, r, c).reasoning = r
           /\ Answer(t, r, c).calls = c
  BY DEF Answer, Failure

\* An event without text is a delta or a finish; where nothing is shown, any delta is one.
LEMMA EmptyDeltas ==
    ASSUME CollectorInv, AllShown = {}
    PROVE  /\ api = "messages" =>
                ((\E e \in Range(received) : e.text = <<>> /\ e.kind # "finish") <=>
                    textParts # <<>> \/ reasoningParts # <<>>)
           /\ api = "responses" =>
                ((\E e \in Range(received) : e.text = <<>> /\ e.kind = "reasoning") <=>
                    reasoningParts # <<>>)
<1>1. Numbered(received) /\ ~(api # "chat" /\ effortOff)
  BY DEF CollectorInv
<1>2. \A e \in Range(received) :
         e.kind \in {"text", "reasoning"} /\ api # "chat" => e.text = <<>>
  BY <1>1 DEF AllShown, Shows
<1>3. \A e \in Range(received) : e.text = <<>> => e.kind \in {"text", "reasoning", "finish"}
  BY <1>1 DEF Numbered, Range
<1>4. /\ textParts # <<>> <=> \E e \in Range(received) : e.kind = "text"
      /\ reasoningParts # <<>> <=> \E e \in Range(received) : e.kind = "reasoning"
  BY DEF CollectorInv, OfKind, Range
<1> QED
  BY <1>2, <1>3, <1>4

\* The events the deltas of which are all without text.
NoText ==
    \E e \in Range(received) :
       /\ e.text = <<>>
       /\ \/ api = "messages" /\ e.kind # "finish"
          \/ api = "responses" /\ e.kind = "reasoning"

\* The verdict of a collector is the stream translators' on all that came.
LEMMA VerdictOnAll ==
    ASSUME CollectorInv, Complete
    PROVE  IF AllShown = {} /\ NoText THEN NothingShown(AllShown) /\ ~Collected.failed
           ELSE Collected.failed <=> NothingShown(AllShown)
<1> DEFINE t == Joined(textParts) = <<>>
           r == Joined(reasoningParts) = <<>>
           c == toolCalls = <<>>
<1>0. ended = "end" /\ ended # "error" /\ api \in {"chat", "messages", "responses"}
      /\ (api # "chat" => ~tools /\ ~effortOff) /\ tools \in BOOLEAN /\ effortOff \in BOOLEAN
  BY DEF Complete, CollectorInv
<1>1. AllShown = {} <=> t /\ c /\ (effortOff \/ r)
  BY <1>0, PassedIs, ListsAre DEF Passed
<1>2. api = "chat" => ((\A e \in AllShown : e.kind = "reasoning") <=> t /\ c)
  BY PassedIs, ListsAre
<1>3. (textParts = <<>> => t) /\ (reasoningParts = <<>> => r)
  BY ListsAre
<1>4. CASE api = "chat"
  <2>1. ~NoText
    BY <1>4 DEF NoText
  <2>2. NothingShown(AllShown) <=> t /\ c /\ ((t /\ c /\ (effortOff \/ r)) \/ tools)
    BY <1>1, <1>2, <1>4 DEF NothingShown
  <2>3. Collected = ChatAnswer
    BY <1>0, <1>4 DEF Collected
  <2>4. ChatAnswer.failed <=> t /\ c /\ ((effortOff \/ r) \/ tools)
    <3>1. CASE ~(t /\ c)
      BY <3>1, AnswerFields DEF ChatAnswer
    <3>2. CASE t /\ c /\ effortOff
      BY <3>2, AnswerFields DEF ChatAnswer
    <3>3. CASE t /\ c /\ ~effortOff
      BY <3>3, AnswerFields DEF ChatAnswer
    <3> QED
      BY <3>1, <3>2, <3>3
  <2> QED
    BY <2>1, <2>2, <2>3, <2>4
<1>5. CASE api = "messages"
  <2>1. NothingShown(AllShown) <=> AllShown = {}
    BY <1>5 DEF NothingShown
  <2>2. Collected = MessagesAnswer
    BY <1>0, <1>5 DEF Collected
  <2>3. MessagesAnswer.failed <=> textParts = <<>> /\ c /\ reasoningParts = <<>>
    <3>1. CASE textParts # <<>> \/ ~c
      BY <3>1, AnswerFields DEF MessagesAnswer
    <3>2. CASE textParts = <<>> /\ c /\ reasoningParts # <<>>
      BY <3>2, AnswerFields DEF MessagesAnswer
    <3>3. CASE textParts = <<>> /\ c /\ reasoningParts = <<>>
      BY <3>3, AnswerFields DEF MessagesAnswer
    <3> QED
      BY <3>1, <3>2, <3>3
  <2>4. AllShown = {} /\ NoText <=> AllShown = {} /\ (textParts # <<>> \/ reasoningParts # <<>>)
    BY <1>5, EmptyDeltas DEF NoText
  <2> QED
    BY <1>0, <1>1, <1>3, <1>5, <2>1, <2>2, <2>3, <2>4
<1>6. CASE api = "responses"
  <2>1. NothingShown(AllShown) <=> AllShown = {}
    BY <1>6 DEF NothingShown
  <2>2. Collected = ResponsesAnswer
    BY <1>0, <1>6 DEF Collected
  <2>3. ResponsesAnswer.failed <=> t /\ c /\ reasoningParts = <<>>
    <3>1. CASE ~(t /\ c /\ reasoningParts = <<>>)
      BY <3>1, AnswerFields DEF ResponsesAnswer
    <3>2. CASE t /\ c /\ reasoningParts = <<>>
      BY <3>2, AnswerFields DEF ResponsesAnswer
    <3> QED
      BY <3>1, <3>2
  <2>4. AllShown = {} /\ NoText <=> AllShown = {} /\ reasoningParts # <<>>
    BY <1>6, EmptyDeltas DEF NoText
  <2> QED
    BY <1>0, <1>1, <1>3, <1>6, <2>1, <2>2, <2>3, <2>4
<1> QED
  BY <1>0, <1>4, <1>5, <1>6

\* What had come at the finish is among all that came.
LEMMA ShownBefore ==
    /\ Shows(BeforeFinish) \subseteq AllShown /\ PassedOn \subseteq AllShown
    /\ PassedOn \cup Late = AllShown
<1>1. BeforeFinish \subseteq Range(received)
  BY DEF BeforeFinish, Range
<1>2. Shows(BeforeFinish) \subseteq AllShown
  BY <1>1 DEF Shows, AllShown
<1>3. PassedOn \subseteq AllShown
  BY <1>2 DEF PassedOn, AllShown
<1> QED
  BY <1>2, <1>3 DEF Late, AllShown

LEMMA SameVerdictHolds == CollectorInv => SameVerdict
<1> SUFFICES ASSUME CollectorInv, Complete
             PROVE  /\ Collected.failed => StreamFails
                    /\ Late = {} =>
                          IF EmptyAnswer THEN StreamFails /\ ~Collected.failed
                          ELSE Collected.failed <=> StreamFails
  BY DEF SameVerdict
<1>1. Collected.failed => NothingShown(AllShown)
  BY VerdictOnAll
<1>2. NothingShown(AllShown) => StreamFails
  BY ShownBefore DEF NothingShown, StreamFails
<1>3. ASSUME Late = {}
      PROVE  IF EmptyAnswer THEN StreamFails /\ ~Collected.failed
             ELSE Collected.failed <=> StreamFails
  <2>1. PassedOn = AllShown
    BY <1>3, ShownBefore
  <2>2. EmptyAnswer <=> AllShown = {} /\ NoText
    BY <2>1 DEF EmptyAnswer, NoText
  <2>3. CASE api = "chat" /\ ~StreamFails
    <3>1. ~NoText /\ ~Collected.failed
      BY <1>1, <1>2, <2>3 DEF NoText
    <3> QED
      BY <2>2, <2>3, <3>1
  <2>4. CASE ~(api = "chat" /\ ~StreamFails)
    <3>1. Shows(BeforeFinish) = AllShown
      BY <2>1, <2>4 DEF PassedOn
    <3> QED
      BY <2>2, <3>1, VerdictOnAll DEF StreamFails
  <2> QED
    BY <2>3, <2>4
<1> QED
  BY <1>1, <1>2, <1>3

Rises(list) == \A i, j \in DOMAIN list : i < j => list[i] < list[j]

LEMMA RisingInjective ==
    ASSUME NEW list \in Seq(Nat), Rises(list) PROVE IsInjective(list)
<1> SUFFICES ASSUME NEW i \in DOMAIN list, NEW j \in DOMAIN list, list[i] = list[j] PROVE i = j
  BY DEF IsInjective
<1>1. i \in Nat /\ j \in Nat /\ list[i] \in Nat /\ list[j] \in Nat
  OBVIOUS
<1>2. ~(i < j) /\ ~(j < i)
  BY <1>1 DEF Rises
<1> QED
  BY <1>1, <1>2

LEMMA ConcatInjective ==
    ASSUME NEW a \in Seq(Nat), NEW b \in Seq(Nat), IsInjective(a), IsInjective(b),
           Range(a) \cap Range(b) = {}
    PROVE  IsInjective(a \o b) /\ Range(a \o b) = Range(a) \cup Range(b) /\ a \o b \in Seq(Nat)
<1> DEFINE s == a \o b
           n == Len(a)
<1>1. /\ s \in Seq(Nat) /\ n \in Nat /\ Len(b) \in Nat /\ DOMAIN s = 1..n + Len(b)
      /\ DOMAIN a = 1..n /\ DOMAIN b = 1..Len(b)
      /\ \A i \in 1..n + Len(b) : s[i] = IF i <= n THEN a[i] ELSE b[i - n]
  BY ConcatProperties, LenProperties
<1> HIDE DEF s, n
<1>2. ASSUME NEW i \in DOMAIN s, NEW j \in DOMAIN s, s[i] = s[j], i <= n PROVE i = j
  <2>1. i \in DOMAIN a /\ s[i] = a[i]
    BY <1>1, <1>2
  <2>2. CASE j <= n
    <3>1. j \in DOMAIN a /\ s[j] = a[j]
      BY <1>1, <2>2
    <3> QED
      BY <1>2, <2>1, <3>1 DEF IsInjective
  <2>3. CASE ~(j <= n)
    <3>1. j - n \in DOMAIN b /\ s[j] = b[j - n]
      BY <1>1, <2>3
    <3>2. s[i] \in Range(a) /\ s[j] \in Range(b)
      BY <2>1, <3>1 DEF Range
    <3> QED
      BY <1>2, <3>2
  <2> QED
    BY <2>2, <2>3
<1>3. ASSUME NEW i \in DOMAIN s, NEW j \in DOMAIN s, s[i] = s[j], ~(i <= n), ~(j <= n)
      PROVE  i = j
  <2>1. /\ i - n \in DOMAIN b /\ s[i] = b[i - n] /\ j - n \in DOMAIN b /\ s[j] = b[j - n]
        /\ i \in Nat /\ j \in Nat
    BY <1>1, <1>3
  <2>2. i - n = j - n
    BY <1>3, <2>1 DEF IsInjective
  <2> QED
    BY <1>1, <2>1, <2>2
<1>4. IsInjective(s)
  BY <1>2, <1>3 DEF IsInjective
<1>5. Range(s) = Range(a) \cup Range(b)
  BY RangeConcatenation DEF s
<1> QED
  BY <1>1, <1>4, <1>5 DEF s

\* Three lists that are held of different events make an answer.
AnswersFrom(t, r, c) ==
    LET all == t \o r \o c
    IN  /\ Range(all) = Passed
        /\ IsInjective(all)
        /\ \A part \in {t, r, c} : \A i, j \in DOMAIN part : i < j => part[i] < part[j]

LEMMA ThreeLists ==
    ASSUME NEW t \in Seq(Nat), NEW r \in Seq(Nat), NEW c \in Seq(Nat),
           Rises(t), Rises(r), Rises(c),
           Range(t) \cap Range(r) = {}, (Range(t) \cup Range(r)) \cap Range(c) = {},
           Range(t) \cup Range(r) \cup Range(c) = Passed
    PROVE  AnswersFrom(t, r, c)
<1>1. IsInjective(t) /\ IsInjective(r) /\ IsInjective(c)
  BY RisingInjective
<1>2. IsInjective(t \o r) /\ Range(t \o r) = Range(t) \cup Range(r) /\ t \o r \in Seq(Nat)
  BY <1>1, ConcatInjective
<1>3. IsInjective(t \o r \o c) /\ Range(t \o r \o c) = Passed
  BY <1>1, <1>2, ConcatInjective
<1> QED
  BY <1>3 DEF AnswersFrom, Rises

LEMMA NothingRises == <<>> \in Seq(Nat) /\ Rises(<<>>) /\ Range(<<>>) = {}
<1>1. <<>> \in Seq(Nat) /\ DOMAIN <<>> = {}
  OBVIOUS
<1> QED
  BY <1>1 DEF Rises, Range

LEMMA HeldRises ==
    ASSUME NEW list, NEW r, NEW kinds, Holds(list, r, kinds)
    PROVE  list \in Seq(Nat) /\ Rises(list) /\ Range(list) = Shown(r, kinds)
  BY DEF Holds, Rises

\* What the collectors answer, when they do.
LEMMA CollectedIs ==
    ASSUME CollectorInv, Complete, ~Collected.failed
    PROVE  \E t, r, c : Collected = Answer(t, r, c) /\ AnswersFrom(t, r, c)
<1> DEFINE T == Joined(textParts)
           R == Joined(reasoningParts)
           C == toolCalls
<1>0. ended = "end" /\ ended # "error" /\ api \in {"chat", "messages", "responses"}
      /\ (api # "chat" => ~tools /\ ~effortOff) /\ tools \in BOOLEAN /\ effortOff \in BOOLEAN
  BY DEF Complete, CollectorInv
<1>1. /\ T \in Seq(Nat) /\ Rises(T) /\ Range(T) = Shown(received, {"text"})
      /\ R \in Seq(Nat) /\ Rises(R) /\ Range(R) = Shown(received, {"reasoning"})
      /\ C \in Seq(Nat) /\ Rises(C) /\ Range(C) = Shown(received, CallKinds)
  BY HeldRises DEF CollectorInv
<1>2. /\ Shown(received, {"text"}) \cap Shown(received, {"reasoning"}) = {}
      /\ (Shown(received, {"text"}) \cup Shown(received, {"reasoning"}))
            \cap Shown(received, CallKinds) = {}
  BY DEF Shown, CallKinds
<1>3. /\ T = <<>> <=> Shown(received, {"text"}) = {}
      /\ C = <<>> <=> Shown(received, CallKinds) = {}
      /\ textParts = <<>> => T = <<>>
      /\ reasoningParts = <<>> => R = <<>>
  BY ListsAre
<1> HIDE DEF T, R, C
<1>4. ~effortOff => AnswersFrom(T, R, C)
  BY <1>1, <1>2, ThreeLists DEF Passed
<1>5. effortOff => AnswersFrom(T, <<>>, C)
  BY <1>1, <1>2, NothingRises, ThreeLists DEF Passed
<1>6. T = <<>> /\ C = <<>> /\ ~effortOff => AnswersFrom(R, <<>>, <<>>)
  BY <1>1, <1>3, NothingRises, ThreeLists DEF Passed
<1>7. CASE api = "chat"
  <2>1. Collected = ChatAnswer
    BY <1>0, <1>7 DEF Collected
  <2>2. CASE ~(T = <<>> /\ C = <<>>)
    <3>1. ChatAnswer = Answer(T, IF effortOff THEN <<>> ELSE R, C)
      BY <2>2 DEF ChatAnswer, T, R, C
    <3> QED
      BY <1>4, <1>5, <2>1, <3>1
  <2>3. CASE T = <<>> /\ C = <<>>
    <3>1. ~effortOff /\ ChatAnswer = Answer(R, <<>>, <<>>)
      <4>1. ChatAnswer # Failure
        BY <2>1, AnswerFields
      <4> QED
        BY <2>3, <4>1 DEF ChatAnswer, T, R, C
    <3> QED
      BY <1>6, <2>1, <2>3, <3>1
  <2> QED
    BY <2>2, <2>3
<1>8. CASE api = "messages"
  <2>1. Collected = MessagesAnswer /\ ~effortOff
    BY <1>0, <1>8 DEF Collected
  <2>2. CASE textParts # <<>> \/ C # <<>>
    <3>1. MessagesAnswer = Answer(T, R, C)
      BY <2>2 DEF MessagesAnswer, T, R, C
    <3> QED
      BY <1>4, <2>1, <3>1
  <2>3. CASE textParts = <<>> /\ C = <<>>
    <3>1. MessagesAnswer = Answer(R, <<>>, <<>>)
      <4>1. MessagesAnswer # Failure
        BY <2>1, AnswerFields
      <4> QED
        BY <2>3, <4>1 DEF MessagesAnswer, R, C
    <3> QED
      BY <1>3, <1>6, <2>1, <2>3, <3>1
  <2> QED
    BY <2>2, <2>3
<1>9. CASE api = "responses"
  <2>1. Collected = ResponsesAnswer /\ ~effortOff
    BY <1>0, <1>9 DEF Collected
  <2>2. ResponsesAnswer # Failure
    BY <2>1, AnswerFields
  <2>3. ResponsesAnswer = Answer(T, R, C)
    BY <2>2 DEF ResponsesAnswer, T, R, C
  <2> QED
    BY <1>4, <2>1, <2>3
<1> QED
  BY <1>0, <1>7, <1>8, <1>9

LEMMA NothingLost == CollectorInv => NothingLostOrDoubled
<1> SUFFICES ASSUME CollectorInv, Complete, ~Collected.failed
             PROVE  LET a == Collected
                        all == a.text \o a.reasoning \o a.calls
                    IN  /\ Range(all) = { e.text[1] : e \in PassedOn \cup Late }
                        /\ IsInjective(all)
                        /\ \A part \in {a.text, a.reasoning, a.calls} :
                              \A i, j \in DOMAIN part : i < j => part[i] < part[j]
  BY DEF NothingLostOrDoubled
<1>1. PICK t, r, c : Collected = Answer(t, r, c) /\ AnswersFrom(t, r, c)
  BY CollectedIs
<1>2. Collected.text = t /\ Collected.reasoning = r /\ Collected.calls = c
  <2>1. Collected = Answer(t, r, c)
    BY <1>1
  <2>2. Answer(t, r, c).text = t /\ Answer(t, r, c).reasoning = r /\ Answer(t, r, c).calls = c
    BY DEF Answer
  <2> QED
    BY <2>1, <2>2, Zenon
<1>3. { e.text[1] : e \in PassedOn \cup Late } = Passed
  BY PassedIs, ShownBefore
<1> QED
  BY <1>1, <1>2, <1>3 DEF AnswersFrom

-----------------------------------------------------------------------------
(* The theorems *)

\* The frames sent and what _ResponsesStreamState keeps for the rest of the
\* stream fit together in every state.
THEOREM Invariance == Spec => []IInv
<1>1. Init => IInv
  BY InitInv
<1>2. IInv /\ [Next]_vars => IInv'
  BY NextInv
<1> QED
  BY <1>1, <1>2, PTL DEF Spec

\* The frames and the fields are what their types say; of the current item the kind's
\* own item id is kept, too.
THEOREM TypeCorrect == Spec => []TypeInv
<1>1. IInv => TypeInv
  BY DEF IInv
<1> QED
  BY <1>1, Invariance, PTL

\* However many events the upstream sends and wherever the stream ends, the items are
\* opened and closed one by one under consecutive output indexes.
THEOREM OneByOneAlways == Spec => []ItemsOneByOne
<1>1. IInv => ItemsOneByOne
  BY Sound, OneByOne
<1> QED
  BY <1>1, Invariance, PTL

\* The text an item is closed with ends in what was streamed under its id.
THEOREM DoneEndsAlways == Spec => []DoneEndsInItsDeltas
<1>1. IInv => DoneEndsInItsDeltas
  BY Sound, DoneEndsIs DEF IInv, TypeInv
<1> QED
  BY <1>1, Invariance, PTL

\* The completed response repeats the items as they were closed and the deltas as
\* they were streamed.
THEOREM CompletedRepeatsAlways == Spec => []CompletedRepeatsTheStream
<1>1. IInv => CompletedRepeatsTheStream
  BY Sound, RepeatsIs DEF IInv, TypeInv
<1> QED
  BY <1>1, Invariance, PTL

\* The invariant of the three collectors: their lists hold, in order, the text and the
\* calls of the events received.
THEOREM CollectorInvariance == CollectorSpec => []CollectorInv
<1>1. CollectorInit => CollectorInv
  BY InitCollector
<1>2. CollectorInv /\ [CollectorNext]_collectorVars => CollectorInv'
  BY StepCollector
<1> QED
  BY <1>1, <1>2, PTL DEF CollectorSpec

\* However many deltas, calls and finishes come, in whatever order: what the stream
\* translator of a protocol takes for an answer, its collector does, and the two give the
\* same verdict on a complete response with no content behind the finish at which the
\* stream left, but for the responses of empty deltas alone (has_visible_output, has_text
\* and the like, and what the translators do at the finish event).
THEOREM SameVerdictAlways == CollectorSpec => []SameVerdict
<1>1. CollectorInv => SameVerdict
  BY SameVerdictHolds
<1> QED
  BY <1>1, CollectorInvariance, PTL

\* An answer holds each delta the stream passes on once, in the order received, and
\* besides only what came behind the finish at which the stream left, for responses of any
\* length.
THEOREM NothingLostAlways == CollectorSpec => []NothingLostOrDoubled
<1>1. CollectorInv => NothingLostOrDoubled
  BY NothingLost
<1> QED
  BY <1>1, CollectorInvariance, PTL
=============================================================================
