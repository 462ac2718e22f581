---------------------- MODULE RequestTranslation_proofs ----------------------
(* Proofs about requests and their translation by the three protocols: the       *)
(* conversation, message by message, for conversations of any length, and the    *)
(* model, effort and tools, with the maps they are looked up in, for any tables,  *)
(* releases, tools and thinking budgets.                                         *)
EXTENDS RequestTranslation, FiniteSetTheorems, SequenceTheorems, WellFoundedInduction,
        TLAPS

-----------------------------------------------------------------------------
(* Numbers *)

LEMMA LeastExists ==
    ASSUME NEW S \in SUBSET Nat, S # {}
    PROVE  \E i \in S : \A j \in S : i <= j
<1>1. PICK i \in S : \A j \in S : ~(<<j, i>> \in OpToRel(<, Nat))
  BY NatLessThanWellFounded, WFMin
<1>2. \A j \in S : ~(j < i)
  BY <1>1 DEF OpToRel
<1> QED
  BY <1>2

LEMMA GreatestExists ==
    ASSUME NEW n \in Nat, NEW S \in SUBSET (1..n), S # {}
    PROVE  \E i \in S : \A j \in S : j <= i
<1> DEFINE T == { n - i : i \in S }
<1>1. T \in SUBSET Nat /\ T # {}
  <2>1. \A i \in S : i \in 1..n /\ n - i \in Nat
    OBVIOUS
  <2> QED
    BY <2>1
<1>2. PICK t \in T : \A u \in T : t <= u
  BY <1>1, LeastExists
<1>3. PICK i \in S : t = n - i
  BY <1>2
<1>4. ASSUME NEW j \in S PROVE j <= i
  <2>1. n - j \in T /\ i \in 1..n /\ j \in 1..n
    OBVIOUS
  <2>2. n - i <= n - j
    BY <1>2, <1>3, <2>1
  <2> HIDE DEF T
  <2> QED
    BY <2>1, <2>2
<1> QED
  BY <1>4

-----------------------------------------------------------------------------
(* Induction *)

\* Induction over the numbers, with a set for the property.
LEMMA SetInduction ==
    ASSUME NEW S, 0 \in S, \A n \in S : n + 1 \in S
    PROVE  Nat \subseteq S
<1> SUFFICES ASSUME ~(Nat \subseteq S) PROVE FALSE
  OBVIOUS
<1> DEFINE T == Nat \ S
<1>1. T \subseteq Nat /\ T # {}
  OBVIOUS
<1>2. PICK i \in T : \A j \in T : ~(<<j, i>> \in OpToRel(<, Nat))
  BY <1>1, NatLessThanWellFounded, WFMin
<1>3. i \in Nat /\ i # 0 /\ i - 1 \in Nat
  OBVIOUS
<1>4. \A j \in T : ~(j < i)
  BY <1>2 DEF OpToRel
<1>5. i - 1 \notin T
  BY <1>3, <1>4
<1> QED
  BY <1>3, <1>5

\* Induction over sequences, element by element.
LEMMA SeqInduction ==
    ASSUME NEW T, NEW U, <<>> \in U, \A s \in Seq(T), x \in T : s \in U => Append(s, x) \in U
    PROVE  Seq(T) \subseteq U
<1> DEFINE N == { n \in Nat : \A s \in Seq(T) : Len(s) = n => s \in U }
<1>1. 0 \in N
  OBVIOUS
<1>2. ASSUME NEW n \in N PROVE n + 1 \in N
  <2>0. n \in Nat /\ \A s \in Seq(T) : Len(s) = n => s \in U
    OBVIOUS
  <2>1. ASSUME NEW s \in Seq(T), Len(s) = n + 1 PROVE s \in U
    <3> DEFINE t == SubSeq(s, 1, n)
    <3>1. t \in Seq(T) /\ Len(t) = n /\ s[n + 1] \in T
      BY <2>0, <2>1
    <3>2. s = Append(t, s[n + 1])
      BY <2>0, <2>1
    <3>3. t \in U
      BY <2>0, <3>1
    <3> HIDE DEF t
    <3> QED
      BY <3>1, <3>2, <3>3
  <2> QED
    BY <2>0, <2>1
<1> HIDE DEF N
<1>3. Nat \subseteq N
  BY <1>1, <1>2, SetInduction
<1> QED
  BY <1>3, LenProperties DEF N

-----------------------------------------------------------------------------
(* Loops *)

\* The loops of the model and of FlattenSeq, each by what it starts from and by what
\* it makes of the next element.
Base(loop) ==
    CASE loop = "chat" -> [system |-> <<>>, names |-> NoNames, out |-> <<>>]
      [] loop = "responses" -> [ok |-> TRUE, system |-> <<>>, names |-> NoNames, out |-> <<>>]
      [] OTHER -> <<>>

Step(loop, acc, x, names) ==
    CASE loop = "chat" -> ChatMessage(acc, x)
      [] loop = "responses" -> TranslateInputItem(acc, x)
      [] loop = "request" -> acc \o ToChat(x)
      [] loop = "input" -> acc \o ToItems(x)
      [] loop = "messages" -> acc \o MessageToMessages(x, names)
      [] OTHER -> acc \o x

Solves(h, loop, w, names, n) ==
    /\ h[0] = Base(loop)
    /\ \A i \in 1..n : h[i] = Step(loop, h[i - 1], w[i], names)

\* Every loop has a solution, over an input of any length.
LEMMA SolutionExists ==
    ASSUME NEW loop, NEW w, NEW names, NEW n \in Nat
    PROVE  \E h : Solves(h, loop, w, names, n)
<1> DEFINE N == { m \in Nat : \E h : Solves(h, loop, w, names, m) }
<1>1. 0 \in N
  <2>1. Solves([i \in {0} |-> Base(loop)], loop, w, names, 0)
    BY DEF Solves
  <2> QED
    BY <2>1
<1>2. ASSUME NEW m \in N PROVE m + 1 \in N
  <2>1. m \in Nat
    OBVIOUS
  <2>2. PICK h : Solves(h, loop, w, names, m)
    OBVIOUS
  <2> DEFINE last == Step(loop, h[m], w[m + 1], names)
             g == [i \in 0..m + 1 |-> IF i = m + 1 THEN last ELSE h[i]]
  <2>3. g[m + 1] = last /\ \A i \in 0..m : g[i] = h[i]
    BY <2>1
  <2> HIDE DEF g
  <2>4. ASSUME NEW i \in 1..m + 1 PROVE g[i] = Step(loop, g[i - 1], w[i], names)
    <3>1. CASE i = m + 1
      <4>1. i - 1 = m /\ m \in 0..m
        BY <2>1, <3>1
      <4> QED
        BY <2>3, <3>1, <4>1
    <3>2. CASE i # m + 1
      <4>1. i \in 1..m /\ i \in 0..m /\ i - 1 \in 0..m
        BY <2>1, <3>2
      <4> QED
        BY <2>2, <2>3, <4>1 DEF Solves
    <3> QED
      BY <3>1, <3>2
  <2>5. Solves(g, loop, w, names, m + 1)
    <3>1. 0 \in 0..m
      BY <2>1
    <3> QED
      BY <2>2, <2>3, <2>4, <3>1 DEF Solves
  <2> QED
    BY <2>1, <2>5
<1> HIDE DEF N
<1>3. n \in N
  BY <1>1, <1>2, SetInduction
<1> QED
  BY <1>3 DEF N

\* Two solutions agree as long as what they loop over does.
LEMMA SolutionsAgree ==
    ASSUME NEW loop, NEW w, NEW v, NEW names, NEW n \in Nat, NEW m \in Nat, NEW k \in Nat,
           NEW h, Solves(h, loop, w, names, n), NEW g, Solves(g, loop, v, names, m),
           k <= n, k <= m, \A i \in 1..k : w[i] = v[i]
    PROVE  h[k] = g[k]
<1> DEFINE N == { j \in Nat : j <= k => h[j] = g[j] }
<1>1. 0 \in N
  BY DEF Solves
<1>2. ASSUME NEW j \in N PROVE j + 1 \in N
  <2>1. j \in Nat
    OBVIOUS
  <2> SUFFICES ASSUME j + 1 <= k PROVE h[j + 1] = g[j + 1]
    BY <2>1
  <2>2. /\ j + 1 \in 1..n /\ j + 1 \in 1..m /\ j + 1 \in 1..k
        /\ (j + 1) - 1 = j /\ j <= k
    BY <2>1
  <2>3. h[j] = g[j]
    BY <2>2
  <2>4. h[j + 1] = Step(loop, h[(j + 1) - 1], w[j + 1], names)
    BY <2>2 DEF Solves
  <2>5. g[j + 1] = Step(loop, g[(j + 1) - 1], v[j + 1], names)
    BY <2>2 DEF Solves
  <2> QED
    BY <2>2, <2>3, <2>4, <2>5
<1> HIDE DEF N
<1>3. k \in N
  BY <1>1, <1>2, SetInduction
<1> QED
  BY <1>3 DEF N

\* What a loop comes to.
Value(loop, w, names) == (CHOOSE h : Solves(h, loop, w, names, Len(w)))[Len(w)]

LEMMA ValueIs ==
    ASSUME NEW loop, NEW w, Len(w) \in Nat, NEW names, NEW h, Solves(h, loop, w, names, Len(w))
    PROVE  Value(loop, w, names) = h[Len(w)]
<1> DEFINE g == CHOOSE g : Solves(g, loop, w, names, Len(w))
<1>1. Solves(g, loop, w, names, Len(w))
  OBVIOUS
<1>2. Value(loop, w, names) = g[Len(w)]
  BY DEF Value
<1> HIDE DEF g
<1>3. Len(w) <= Len(w) /\ \A i \in 1..Len(w) : w[i] = w[i]
  OBVIOUS
<1>4. g[Len(w)] = h[Len(w)]
  BY <1>1, <1>3, SolutionsAgree
<1> QED
  BY <1>2, <1>4

LEMMA ValueNothing == ASSUME NEW loop, NEW names PROVE Value(loop, <<>>, names) = Base(loop)
<1>1. Len(<<>>) = 0
  OBVIOUS
<1>2. PICK h : Solves(h, loop, <<>>, names, 0)
  BY SolutionExists
<1>3. Value(loop, <<>>, names) = h[0]
  BY <1>1, <1>2, ValueIs
<1> QED
  BY <1>2, <1>3 DEF Solves

\* An element more at the end is one step more.
LEMMA ValueAppend ==
    ASSUME NEW loop, NEW names, NEW T, NEW w \in Seq(T), NEW x \in T
    PROVE  Value(loop, Append(w, x), names) = Step(loop, Value(loop, w, names), x, names)
<1> DEFINE n == Len(w)
           v == Append(w, x)
<1>1. /\ n \in Nat /\ n + 1 \in Nat /\ n <= n + 1 /\ n <= n
      /\ Len(v) = n + 1 /\ v[n + 1] = x /\ \A i \in 1..n : w[i] = v[i]
  OBVIOUS
<1>2. PICK g : Solves(g, loop, w, names, n)
  BY <1>1, SolutionExists
<1> HIDE DEF n, v
<1>3. PICK h : Solves(h, loop, v, names, n + 1)
  BY <1>1, SolutionExists
<1>4. Value(loop, w, names) = g[n]
  BY <1>1, <1>2, ValueIs DEF n
<1>5. Value(loop, v, names) = h[n + 1]
  BY <1>1, <1>3, ValueIs
<1>7. g[n] = h[n]
  <2>1. n \in Nat /\ n + 1 \in Nat /\ n <= n /\ n <= n + 1
    BY <1>1
  <2>2. \A i \in 1..n : w[i] = v[i]
    BY <1>1
  <2> QED
    BY <1>2, <1>3, <2>1, <2>2, SolutionsAgree
<1>8. h[n + 1] = Step(loop, h[(n + 1) - 1], v[n + 1], names) /\ (n + 1) - 1 = n
  BY <1>1, <1>3 DEF Solves
<1> QED
  BY <1>1, <1>4, <1>5, <1>7, <1>8 DEF v

\* The loops as the model writes them.
LEMMA ChatLoopIs ==
    ASSUME NEW w, Len(w) \in Nat, NEW names
    PROVE  ChatLoop(w) = Value("chat", w, names)
<1> DEFINE n == Len(w)
           R(f) == f = [i \in 0..n |->
                          IF i = 0 THEN [system |-> <<>>, names |-> NoNames, out |-> <<>>]
                          ELSE ChatMessage(f[i - 1], w[i])]
           f == CHOOSE f : R(f)
<1>1. PICK h : Solves(h, "chat", w, names, n)
  BY SolutionExists
<1>2. h[0] = [system |-> <<>>, names |-> NoNames, out |-> <<>>]
  BY <1>1 DEF Solves, Base
<1>3. \A i \in 1..n : h[i] = ChatMessage(h[i - 1], w[i])
  BY <1>1 DEF Solves, Step
<1>4. R([i \in 0..n |-> h[i]])
  BY <1>2, <1>3
<1>5. R(f)
  BY <1>4
<1>6. ChatLoop(w) = f[n]
  BY DEF ChatLoop
<1> HIDE DEF f
<1>7. f[0] = [system |-> <<>>, names |-> NoNames, out |-> <<>>]
  BY <1>5
<1>8. ASSUME NEW i \in 1..n PROVE f[i] = ChatMessage(f[i - 1], w[i])
  <2>1. i \in 0..n /\ i # 0
    OBVIOUS
  <2> QED
    BY <1>5, <2>1
<1>9. Solves(f, "chat", w, names, n)
  BY <1>7, <1>8 DEF Solves, Base, Step
<1> QED
  BY <1>6, <1>9, ValueIs

LEMMA ResponsesLoopIs ==
    ASSUME NEW w, Len(w) \in Nat, NEW names
    PROVE  ResponsesLoop(w) = Value("responses", w, names)
<1> DEFINE n == Len(w)
           R(f) == f = [i \in 0..n |->
                          IF i = 0 THEN [ok |-> TRUE, system |-> <<>>, names |-> NoNames, out |-> <<>>]
                          ELSE TranslateInputItem(f[i - 1], w[i])]
           f == CHOOSE f : R(f)
<1>1. PICK h : Solves(h, "responses", w, names, n)
  BY SolutionExists
<1>2. h[0] = [ok |-> TRUE, system |-> <<>>, names |-> NoNames, out |-> <<>>]
  BY <1>1 DEF Solves, Base
<1>3. \A i \in 1..n : h[i] = TranslateInputItem(h[i - 1], w[i])
  BY <1>1 DEF Solves, Step
<1>4. R([i \in 0..n |-> h[i]])
  BY <1>2, <1>3
<1>5. R(f)
  BY <1>4
<1>6. ResponsesLoop(w) = f[n]
  BY DEF ResponsesLoop
<1> HIDE DEF f
<1>7. f[0] = [ok |-> TRUE, system |-> <<>>, names |-> NoNames, out |-> <<>>]
  BY <1>5
<1>8. ASSUME NEW i \in 1..n PROVE f[i] = TranslateInputItem(f[i - 1], w[i])
  <2>1. i \in 0..n /\ i # 0
    OBVIOUS
  <2> QED
    BY <1>5, <2>1
<1>9. Solves(f, "responses", w, names, n)
  BY <1>7, <1>8 DEF Solves, Base, Step
<1> QED
  BY <1>6, <1>9, ValueIs

LEMMA ChatRequestIs ==
    ASSUME NEW w, Len(w) \in Nat, NEW names
    PROVE  ChatRequest(w) = Value("request", w, names)
<1> DEFINE n == Len(w)
           R(f) == f = [i \in 0..n |->
                          IF i = 0 THEN <<>>
                          ELSE f[i - 1] \o ToChat(w[i])]
           f == CHOOSE f : R(f)
<1>1. PICK h : Solves(h, "request", w, names, n)
  BY SolutionExists
<1>2. h[0] = <<>>
  BY <1>1 DEF Solves, Base
<1>3. \A i \in 1..n : h[i] = h[i - 1] \o ToChat(w[i])
  BY <1>1 DEF Solves, Step
<1>4. R([i \in 0..n |-> h[i]])
  BY <1>2, <1>3
<1>5. R(f)
  BY <1>4
<1>6. ChatRequest(w) = f[n]
  BY DEF ChatRequest
<1> HIDE DEF f
<1>7. f[0] = <<>>
  BY <1>5
<1>8. ASSUME NEW i \in 1..n PROVE f[i] = f[i - 1] \o ToChat(w[i])
  <2>1. i \in 0..n /\ i # 0
    OBVIOUS
  <2> QED
    BY <1>5, <2>1
<1>9. Solves(f, "request", w, names, n)
  BY <1>7, <1>8 DEF Solves, Base, Step
<1> QED
  BY <1>6, <1>9, ValueIs

LEMMA ResponsesInputIs ==
    ASSUME NEW w, Len(w) \in Nat, NEW names
    PROVE  ResponsesInput(w) = Value("input", w, names)
<1> DEFINE n == Len(w)
           R(f) == f = [i \in 0..n |->
                          IF i = 0 THEN <<>>
                          ELSE f[i - 1] \o ToItems(w[i])]
           f == CHOOSE f : R(f)
<1>1. PICK h : Solves(h, "input", w, names, n)
  BY SolutionExists
<1>2. h[0] = <<>>
  BY <1>1 DEF Solves, Base
<1>3. \A i \in 1..n : h[i] = h[i - 1] \o ToItems(w[i])
  BY <1>1 DEF Solves, Step
<1>4. R([i \in 0..n |-> h[i]])
  BY <1>2, <1>3
<1>5. R(f)
  BY <1>4
<1>6. ResponsesInput(w) = f[n]
  BY DEF ResponsesInput
<1> HIDE DEF f
<1>7. f[0] = <<>>
  BY <1>5
<1>8. ASSUME NEW i \in 1..n PROVE f[i] = f[i - 1] \o ToItems(w[i])
  <2>1. i \in 0..n /\ i # 0
    OBVIOUS
  <2> QED
    BY <1>5, <2>1
<1>9. Solves(f, "input", w, names, n)
  BY <1>7, <1>8 DEF Solves, Base, Step
<1> QED
  BY <1>6, <1>9, ValueIs

LEMMA MessagesLoopIs ==
    ASSUME NEW w, Len(w) \in Nat, NEW names
    PROVE  MessagesLoop(w, names) = Value("messages", w, names)
<1> DEFINE n == Len(w)
           R(f) == f = [i \in 0..n |->
                          IF i = 0 THEN <<>>
                          ELSE f[i - 1] \o MessageToMessages(w[i], names)]
           f == CHOOSE f : R(f)
<1>1. PICK h : Solves(h, "messages", w, names, n)
  BY SolutionExists
<1>2. h[0] = <<>>
  BY <1>1 DEF Solves, Base
<1>3. \A i \in 1..n : h[i] = h[i - 1] \o MessageToMessages(w[i], names)
  BY <1>1 DEF Solves, Step
<1>4. R([i \in 0..n |-> h[i]])
  BY <1>2, <1>3
<1>5. R(f)
  BY <1>4
<1>6. MessagesLoop(w, names) = f[n]
  BY DEF MessagesLoop
<1> HIDE DEF f
<1>7. f[0] = <<>>
  BY <1>5
<1>8. ASSUME NEW i \in 1..n PROVE f[i] = f[i - 1] \o MessageToMessages(w[i], names)
  <2>1. i \in 0..n /\ i # 0
    OBVIOUS
  <2> QED
    BY <1>5, <2>1
<1>9. Solves(f, "messages", w, names, n)
  BY <1>7, <1>8 DEF Solves, Base, Step
<1> QED
  BY <1>6, <1>9, ValueIs

LEMMA FlattenIs ==
    ASSUME NEW T, NEW w \in Seq(Seq(T)), NEW names
    PROVE  FlattenSeq(w) = Value("flatten", w, names)
<1> DEFINE n == Len(w)
           R(f) == f = [i \in 1..n |-> IF i = 1 THEN w[i] ELSE f[i - 1] \o w[i]]
           f == CHOOSE f : R(f)
<1>0. n \in Nat /\ \A i \in 1..n : w[i] \in Seq(T)
  OBVIOUS
<1>1. PICK h : Solves(h, "flatten", w, names, n)
  BY <1>0, SolutionExists
<1>2. h[0] = <<>> /\ \A i \in 1..n : h[i] = h[i - 1] \o w[i]
  BY <1>1 DEF Solves, Base, Step
<1> HIDE DEF n
<1>3. \A i \in 1..n : i = 1 => h[i] = w[i]
  <2>1. ASSUME 1 \in 1..n PROVE h[1] = w[1]
    <3>1. 1 - 1 = 0 /\ w[1] \in Seq(T)
      BY <1>0, <2>1
    <3>2. h[1] = <<>> \o w[1]
      BY <1>2, <2>1, <3>1
    <3> QED
      BY <3>1, <3>2, ConcatEmptySeq
  <2> QED
    BY <2>1
<1>4. R([i \in 1..n |-> h[i]])
  <2> DEFINE g == [i \in 1..n |-> h[i]]
  <2>1. ASSUME NEW i \in 1..n, i # 1 PROVE i - 1 \in 1..n
    BY <1>0, <2>1
  <2>2. ASSUME NEW i \in 1..n PROVE g[i] = IF i = 1 THEN w[i] ELSE g[i - 1] \o w[i]
    BY <1>2, <1>3, <2>1
  <2> QED
    BY <2>2
<1>5. R(f)
  BY <1>4
<1>6. CASE n = 0
  <2>1. w = <<>>
    BY <1>6 DEF n
  <2>2. FlattenSeq(w) = <<>>
    BY <2>1 DEF FlattenSeq
  <2> QED
    BY <2>1, <2>2, ValueNothing DEF Base
<1>7. CASE n # 0
  <2>1. FlattenSeq(w) = f[n]
    BY <1>7 DEF FlattenSeq, n
  <2> HIDE DEF f
  <2> DEFINE g == [i \in 0..n |-> IF i = 0 THEN <<>> ELSE f[i]]
  <2>2. g[n] = f[n] /\ g[0] = <<>> /\ \A i \in 1..n : g[i] = f[i]
    BY <1>0, <1>7
  <2>3. ASSUME NEW i \in 1..n PROVE g[i] = g[i - 1] \o w[i]
    <3>1. f[i] = IF i = 1 THEN w[i] ELSE f[i - 1] \o w[i]
      BY <1>5
    <3>2. CASE i = 1
      <4>1. g[i - 1] = <<>> /\ w[i] \in Seq(T)
        BY <1>0, <3>2
      <4> HIDE DEF g
      <4>2. g[i] = w[i]
        BY <2>2, <3>1, <3>2
      <4> QED
        BY <4>1, <4>2, ConcatEmptySeq
    <3>3. CASE i # 1
      <4>1. i - 1 \in 1..n
        BY <1>0, <3>3
      <4> HIDE DEF g
      <4> QED
        BY <2>2, <3>1, <3>3, <4>1
    <3> QED
      BY <3>2, <3>3
  <2> HIDE DEF g
  <2>4. Solves(g, "flatten", w, names, n)
    BY <2>2, <2>3 DEF Solves, Base, Step
  <2> QED
    BY <1>0, <2>1, <2>2, <2>4, ValueIs DEF n
<1> QED
  BY <1>6, <1>7

-----------------------------------------------------------------------------
(* Sequences put together *)

\* Joining sequences, one at a time.
LEMMA FlattenAppend ==
    ASSUME NEW T, NEW w \in Seq(Seq(T)), NEW x \in Seq(T)
    PROVE  FlattenSeq(Append(w, x)) = FlattenSeq(w) \o x
<1>1. Append(w, x) \in Seq(Seq(T))
  OBVIOUS
<1>2. FlattenSeq(w) = Value("flatten", w, Blank)
  BY FlattenIs
<1>3. FlattenSeq(Append(w, x)) = Value("flatten", Append(w, x), Blank)
  BY <1>1, FlattenIs
<1>4. Value("flatten", Append(w, x), Blank) = Step("flatten", Value("flatten", w, Blank), x, Blank)
  BY ValueAppend
<1> QED
  BY <1>2, <1>3, <1>4 DEF Step

LEMMA AppendToConcat ==
    ASSUME NEW T, NEW s \in Seq(T), NEW t \in Seq(T), NEW x \in T
    PROVE  Append(s \o t, x) = s \o Append(t, x)
  OBVIOUS

LEMMA FlattenNothing == FlattenSeq(<<>>) = <<>>
  BY DEF FlattenSeq

\* The elements of a sequence that belong to a set, in order.
Only(s, S) == FlattenSeq([i \in DOMAIN s |-> IF s[i] \in S THEN <<s[i]>> ELSE <<>>])

LEMMA OnlyNothing == ASSUME NEW S PROVE Only(<<>>, S) = <<>>
<1>1. [i \in DOMAIN <<>> |-> IF <<>>[i] \in S THEN <<<<>>[i]>> ELSE <<>>] = <<>>
  OBVIOUS
<1> QED
  BY <1>1, FlattenNothing DEF Only

LEMMA OnlyAppend ==
    ASSUME NEW T, NEW s \in Seq(T), NEW x \in T, NEW S
    PROVE  Only(Append(s, x), S) = Only(s, S) \o (IF x \in S THEN <<x>> ELSE <<>>)
<1> DEFINE p == IF x \in S THEN <<x>> ELSE <<>>
           f == [i \in DOMAIN s |-> IF s[i] \in S THEN <<s[i]>> ELSE <<>>]
           t == Append(s, x)
           g == [i \in DOMAIN t |-> IF t[i] \in S THEN <<t[i]>> ELSE <<>>]
<1>1. p \in Seq(T) /\ f \in Seq(Seq(T))
  <2>1. <<>> \in Seq(T) /\ <<x>> \in Seq(T)
    OBVIOUS
  <2>2. ASSUME NEW i \in 1..Len(s) PROVE f[i] \in Seq(T)
    <3>1. s[i] \in T /\ <<s[i]>> \in Seq(T)
      OBVIOUS
    <3> QED
      BY <2>1, <3>1
  <2>3. f \in [1..Len(s) -> Seq(T)] /\ Len(s) \in Nat
    BY <2>2
  <2> HIDE DEF f
  <2> QED
    BY <2>1, <2>3
<1>2. /\ DOMAIN f = 1..Len(s) /\ DOMAIN g = 1..Len(s) + 1 /\ Len(s) \in Nat /\ Len(f) = Len(s)
      /\ \A i \in 1..Len(s) : t[i] = s[i] /\ g[i] = f[i]
      /\ g[Len(s) + 1] = p
  OBVIOUS
<1>3. g = Append(f, p)
  <2>1. /\ DOMAIN Append(f, p) = 1..Len(s) + 1
        /\ \A i \in 1..Len(s) : Append(f, p)[i] = f[i]
        /\ Append(f, p)[Len(s) + 1] = p
    BY <1>1, <1>2
  <2>2. g = [i \in DOMAIN g |-> g[i]] /\ Append(f, p) = [i \in DOMAIN Append(f, p) |-> Append(f, p)[i]]
    BY <1>1
  <2> HIDE DEF g, f, p, t
  <2> QED
    BY <1>2, <2>1, <2>2
<1>4. Only(t, S) = FlattenSeq(g) /\ Only(s, S) = FlattenSeq(f)
  BY DEF Only
<1> HIDE DEF f, g, p, t
<1> QED
  BY <1>1, <1>3, <1>4, FlattenAppend DEF p, t

LEMMA OnlyType ==
    ASSUME NEW T, NEW s \in Seq(T), NEW S
    PROVE  Only(s, S) \in Seq(T \cap S)
<1> DEFINE U == { t \in Seq(T) : Only(t, S) \in Seq(T \cap S) }
<1>1. <<>> \in U
  <2>1. <<>> \in Seq(T) /\ <<>> \in Seq(T \cap S)
    OBVIOUS
  <2>2. Only(<<>>, S) \in Seq(T \cap S)
    BY <2>1, OnlyNothing, Zenon
  <2> QED
    BY <2>1, <2>2
<1>2. ASSUME NEW t \in Seq(T), NEW x \in T, t \in U PROVE Append(t, x) \in U
  <2> DEFINE p == IF x \in S THEN <<x>> ELSE <<>>
  <2>1. Only(t, S) \in Seq(T \cap S) /\ Append(t, x) \in Seq(T)
    BY <1>2
  <2>2. p \in Seq(T \cap S)
    <3>1. x \in S => <<x>> \in Seq(T \cap S)
      OBVIOUS
    <3>2. <<>> \in Seq(T \cap S)
      OBVIOUS
    <3> QED
      BY <3>1, <3>2, Zenon
  <2>3. Only(Append(t, x), S) = Only(t, S) \o p
    BY OnlyAppend
  <2> HIDE DEF p
  <2>4. Only(t, S) \o p \in Seq(T \cap S)
    BY <2>1, <2>2
  <2>5. Only(Append(t, x), S) \in Seq(T \cap S)
    BY <2>3, <2>4, Zenon
  <2> QED
    BY <2>1, <2>5
<1> HIDE DEF U
<1>3. s \in U
  BY <1>1, <1>2, SeqInduction
<1> QED
  BY <1>3 DEF U

\* The same among the elements of the sequence.
LEMMA OnlyKeeps ==
    ASSUME NEW T, NEW s \in Seq(T), NEW S
    PROVE  Only(s, S) \in Seq(T)
<1>1. Only(s, S) \in Seq(T \cap S)
  BY OnlyType
<1> QED
  BY <1>1, SeqMonotonic

LEMMA OnlyConcat ==
    ASSUME NEW T, NEW s \in Seq(T), NEW t \in Seq(T), NEW S
    PROVE  Only(s \o t, S) = Only(s, S) \o Only(t, S)
<1> DEFINE U == { u \in Seq(T) : Only(s \o u, S) = Only(s, S) \o Only(u, S) }
<1>0. Only(s, S) \in Seq(T)
  BY OnlyKeeps
<1>1. <<>> \in U
  <2>1. <<>> \in Seq(T) /\ s \o <<>> = s /\ Only(s, S) \o <<>> = Only(s, S)
    BY <1>0, ConcatEmptySeq
  <2>2. Only(s \o <<>>, S) = Only(s, S) \o Only(<<>>, S)
    BY <2>1, OnlyNothing, Zenon
  <2> QED
    BY <2>1, <2>2
<1>2. ASSUME NEW u \in Seq(T), NEW x \in T, u \in U PROVE Append(u, x) \in U
  <2> DEFINE p == IF x \in S THEN <<x>> ELSE <<>>
  <2>1. /\ Append(u, x) \in Seq(T) /\ s \o u \in Seq(T) /\ p \in Seq(T)
        /\ Only(s \o u, S) = Only(s, S) \o Only(u, S)
    <3>1. <<x>> \in Seq(T) /\ <<>> \in Seq(T)
      OBVIOUS
    <3>2. Append(u, x) \in Seq(T) /\ s \o u \in Seq(T)
      OBVIOUS
    <3>3. Only(s \o u, S) = Only(s, S) \o Only(u, S)
      BY <1>2
    <3> QED
      BY <3>1, <3>2, <3>3
  <2>2. s \o Append(u, x) = Append(s \o u, x)
    OBVIOUS
  <2>3. Only(Append(s \o u, x), S) = Only(s \o u, S) \o p
    BY <2>1, OnlyAppend
  <2>4. Only(Append(u, x), S) = Only(u, S) \o p
    BY OnlyAppend
  <2>5. Only(u, S) \in Seq(T)
    BY OnlyKeeps
  <2> HIDE DEF p
  <2>6. (Only(s, S) \o Only(u, S)) \o p = Only(s, S) \o (Only(u, S) \o p)
    BY <1>0, <2>1, <2>5, ConcatAssociative
  <2>7. Only(s \o Append(u, x), S) = Only(s, S) \o Only(Append(u, x), S)
    BY <2>1, <2>2, <2>3, <2>4, <2>6, Zenon
  <2> QED
    BY <2>1, <2>7
<1> HIDE DEF U
<1>3. t \in U
  BY <1>1, <1>2, SeqInduction
<1> QED
  BY <1>3 DEF U

LEMMA OnlyOne ==
    ASSUME NEW x, NEW S
    PROVE  Only(<<x>>, S) = IF x \in S THEN <<x>> ELSE <<>>
<1> DEFINE p == IF x \in S THEN <<x>> ELSE <<>>
<1>1. <<>> \in Seq({x}) /\ x \in {x} /\ Append(<<>>, x) = <<x>>
  OBVIOUS
<1>2. Only(Append(<<>>, x), S) = Only(<<>>, S) \o p
  BY <1>1, OnlyAppend
<1>3. <<>> \o p = p
  OBVIOUS
<1> QED
  BY <1>1, <1>2, <1>3, OnlyNothing, Zenon

LEMMA OnlyAll ==
    ASSUME NEW T, NEW S, T \subseteq S, NEW s \in Seq(T)
    PROVE  Only(s, S) = s
<1> DEFINE U == { t \in Seq(T) : Only(t, S) = t }
<1>1. <<>> \in U
  BY OnlyNothing
<1>2. ASSUME NEW t \in Seq(T), NEW x \in T, t \in U PROVE Append(t, x) \in U
  <2>1. Only(Append(t, x), S) = Only(t, S) \o <<x>>
    BY OnlyAppend
  <2>2. Only(t, S) = t /\ Append(t, x) \in Seq(T) /\ Append(t, x) = t \o <<x>>
    BY <1>2
  <2> QED
    BY <2>1, <2>2
<1> HIDE DEF U
<1>3. s \in U
  BY <1>1, <1>2, SeqInduction
<1> QED
  BY <1>3 DEF U

LEMMA OnlyNone ==
    ASSUME NEW T, NEW S, T \cap S = {}, NEW s \in Seq(T)
    PROVE  Only(s, S) = <<>>
<1>1. Only(s, S) \in Seq(T \cap S)
  BY OnlyType
<1> QED
  BY <1>1

LEMMA OnlyOnly ==
    ASSUME NEW T, NEW s \in Seq(T), NEW S, NEW R
    PROVE  Only(Only(s, S), R) = Only(s, S \cap R)
<1> DEFINE U == { t \in Seq(T) : Only(Only(t, S), R) = Only(t, S \cap R) }
<1>1. <<>> \in U
  <2>1. Only(Only(<<>>, S), R) = Only(<<>>, S \cap R)
    BY OnlyNothing, Zenon
  <2> QED
    BY <2>1
<1>2. ASSUME NEW t \in Seq(T), NEW x \in T, t \in U PROVE Append(t, x) \in U
  <2>0. Append(t, x) \in Seq(T) /\ Only(Only(t, S), R) = Only(t, S \cap R)
    BY <1>2
  <2>1. Only(t, S) \in Seq(T) /\ Only(t, S \cap R) \in Seq(T)
    BY OnlyKeeps
  <2>2. /\ Only(Append(t, x), S) = Only(t, S) \o (IF x \in S THEN <<x>> ELSE <<>>)
        /\ Only(Append(t, x), S \cap R) =
              Only(t, S \cap R) \o (IF x \in S \cap R THEN <<x>> ELSE <<>>)
    BY OnlyAppend
  <2>3. CASE x \in S
    <3>1. Only(Append(t, x), S) = Append(Only(t, S), x)
      BY <2>1, <2>2, <2>3
    <3>2. Only(Append(Only(t, S), x), R) =
             Only(Only(t, S), R) \o (IF x \in R THEN <<x>> ELSE <<>>)
      BY <2>1, OnlyAppend
    <3>4. (IF x \in R THEN <<x>> ELSE <<>>) = (IF x \in S \cap R THEN <<x>> ELSE <<>>)
      BY <2>3
    <3>5. Only(Only(Append(t, x), S), R) = Only(Append(t, x), S \cap R)
      BY <2>0, <2>2, <3>1, <3>2, <3>4, Zenon
    <3> QED
      BY <2>0, <3>5
  <2>4. CASE x \notin S
    <3>1. Only(Append(t, x), S) = Only(t, S)
      BY <2>1, <2>2, <2>4
    <3>2. Only(Append(t, x), S \cap R) = Only(t, S \cap R) \o <<>>
      <4>1. x \notin S \cap R
        BY <2>4
      <4> QED
        BY <2>2, <4>1, Zenon
    <3>3. Only(t, S \cap R) \o <<>> = Only(t, S \cap R)
      BY <2>1, ConcatEmptySeq
    <3> QED
      BY <2>0, <3>1, <3>2, <3>3
  <2> QED
    BY <2>3, <2>4
<1> HIDE DEF U
<1>3. s \in U
  BY <1>1, <1>2, SeqInduction
<1> QED
  BY <1>3 DEF U

-----------------------------------------------------------------------------
(* Blocks and messages *)

BlockSet ==
    [kind : Kinds, id : Ids \cup {Blank}, name : Names \cup {Blank, "unknown"}, value : Seq(Stamps)]

Roles == {"system", "user", "assistant", "tool"}

MessageSet == [role : Roles, blocks : Seq(BlockSet)]

LEMMA JoinedNothing == Joined(<<>>) = <<>>
<1>1. [i \in DOMAIN <<>> |-> <<>>[i].value] = <<>>
  OBVIOUS
<1> QED
  BY <1>1, FlattenNothing DEF Joined

LEMMA JoinedAppend ==
    ASSUME NEW s \in Seq(BlockSet), NEW b \in BlockSet
    PROVE  Joined(Append(s, b)) = Joined(s) \o b.value
<1> DEFINE f == [i \in DOMAIN s |-> s[i].value]
           t == Append(s, b)
           g == [i \in DOMAIN t |-> t[i].value]
<1>1. b.value \in Seq(Stamps) /\ f \in Seq(Seq(Stamps))
  <2>1. b.value \in Seq(Stamps)
    BY DEF BlockSet
  <2>2. /\ DOMAIN s = 1..Len(s) /\ Len(s) \in Nat /\ \A i \in 1..Len(s) : s[i] \in BlockSet
    OBVIOUS
  <2>3. f = [i \in 1..Len(s) |-> f[i]] /\ \A i \in 1..Len(s) : f[i] = s[i].value
    BY <2>2
  <2> HIDE DEF f
  <2>4. \A i \in 1..Len(s) : f[i] \in Seq(Stamps)
    BY <2>2, <2>3 DEF BlockSet
  <2> QED
    BY <2>1, <2>2, <2>3, <2>4
<1>2. /\ DOMAIN f = 1..Len(s) /\ DOMAIN g = 1..Len(s) + 1 /\ Len(s) \in Nat /\ Len(f) = Len(s)
      /\ \A i \in 1..Len(s) : t[i] = s[i] /\ g[i] = f[i]
      /\ g[Len(s) + 1] = b.value
  OBVIOUS
<1>3. g = Append(f, b.value)
  <2>1. /\ DOMAIN Append(f, b.value) = 1..Len(s) + 1
        /\ \A i \in 1..Len(s) : Append(f, b.value)[i] = f[i]
        /\ Append(f, b.value)[Len(s) + 1] = b.value
    BY <1>1, <1>2
  <2>2. /\ g = [i \in DOMAIN g |-> g[i]]
        /\ Append(f, b.value) = [i \in DOMAIN Append(f, b.value) |-> Append(f, b.value)[i]]
    BY <1>1
  <2> HIDE DEF g, f, t
  <2> QED
    BY <1>2, <2>1, <2>2
<1>4. Joined(t) = FlattenSeq(g) /\ Joined(s) = FlattenSeq(f)
  BY DEF Joined
<1> HIDE DEF f, g, t
<1> QED
  BY <1>1, <1>3, <1>4, FlattenAppend DEF t

LEMMA JoinedType == ASSUME NEW s \in Seq(BlockSet) PROVE Joined(s) \in Seq(Stamps)
<1> DEFINE U == { t \in Seq(BlockSet) : Joined(t) \in Seq(Stamps) }
<1>1. <<>> \in U
  <2>1. <<>> \in Seq(BlockSet) /\ <<>> \in Seq(Stamps)
    OBVIOUS
  <2>2. Joined(<<>>) \in Seq(Stamps)
    BY <2>1, JoinedNothing, Zenon
  <2> QED
    BY <2>1, <2>2
<1>2. ASSUME NEW t \in Seq(BlockSet), NEW b \in BlockSet, t \in U PROVE Append(t, b) \in U
  <2>1. Joined(t) \in Seq(Stamps) /\ Append(t, b) \in Seq(BlockSet)
    BY <1>2
  <2>2. b.value \in Seq(Stamps)
    BY DEF BlockSet
  <2>3. Joined(t) \o b.value \in Seq(Stamps)
    BY <2>1, <2>2
  <2>4. Joined(Append(t, b)) \in Seq(Stamps)
    BY <2>3, JoinedAppend, Zenon
  <2> QED
    BY <2>1, <2>4
<1> HIDE DEF U
<1>3. s \in U
  BY <1>1, <1>2, SeqInduction
<1> QED
  BY <1>3 DEF U

LEMMA JoinedConcat ==
    ASSUME NEW s \in Seq(BlockSet), NEW t \in Seq(BlockSet)
    PROVE  Joined(s \o t) = Joined(s) \o Joined(t)
<1> DEFINE U == { u \in Seq(BlockSet) : Joined(s \o u) = Joined(s) \o Joined(u) }
<1>0. Joined(s) \in Seq(Stamps)
  BY JoinedType
<1>1. <<>> \in U
  <2>1. <<>> \in Seq(BlockSet) /\ s \o <<>> = s /\ Joined(s) \o <<>> = Joined(s)
    BY <1>0, ConcatEmptySeq
  <2>2. Joined(s \o <<>>) = Joined(s) \o Joined(<<>>)
    BY <2>1, JoinedNothing, Zenon
  <2> QED
    BY <2>1, <2>2
<1>2. ASSUME NEW u \in Seq(BlockSet), NEW b \in BlockSet, u \in U PROVE Append(u, b) \in U
  <2>1. /\ Append(u, b) \in Seq(BlockSet) /\ s \o u \in Seq(BlockSet)
        /\ Joined(s \o u) = Joined(s) \o Joined(u)
    BY <1>2
  <2>2. s \o Append(u, b) = Append(s \o u, b)
    OBVIOUS
  <2>3. Joined(Append(s \o u, b)) = Joined(s \o u) \o b.value
    BY <2>1, JoinedAppend
  <2>4. Joined(Append(u, b)) = Joined(u) \o b.value
    BY JoinedAppend
  <2>5. Joined(u) \in Seq(Stamps)
    BY JoinedType
  <2>6. PICK last \in Seq(Stamps) : last = b.value
    BY DEF BlockSet
  <2>8. (Joined(s) \o Joined(u)) \o last = Joined(s) \o (Joined(u) \o last)
    BY <1>0, <2>5, ConcatAssociative
  <2>7. Joined(s \o Append(u, b)) = Joined(s) \o Joined(Append(u, b))
    BY <2>1, <2>2, <2>3, <2>4, <2>6, <2>8, Zenon
  <2> QED
    BY <2>1, <2>7
<1> HIDE DEF U
<1>3. t \in U
  BY <1>1, <1>2, SeqInduction
<1> QED
  BY <1>3 DEF U

LEMMA JoinedOne == ASSUME NEW b \in BlockSet PROVE Joined(<<b>>) = b.value
<1>1. Append(<<>>, b) = <<b>> /\ <<>> \in Seq(BlockSet)
  OBVIOUS
<1>2. Joined(Append(<<>>, b)) = Joined(<<>>) \o b.value
  BY <1>1, JoinedAppend
<1>3. b.value \in Seq(Stamps)
  BY DEF BlockSet
<1>4. <<>> \o b.value = b.value
  BY <1>3, ConcatEmptySeq
<1> QED
  BY <1>1, <1>2, <1>4, JoinedNothing, Zenon

LEMMA AllBlocksNothing == AllBlocks(<<>>) = <<>>
<1>1. [i \in DOMAIN <<>> |-> <<>>[i].blocks] = <<>>
  OBVIOUS
<1> QED
  BY <1>1, FlattenNothing DEF AllBlocks

LEMMA AllBlocksAppend ==
    ASSUME NEW s \in Seq(MessageSet), NEW m \in MessageSet
    PROVE  AllBlocks(Append(s, m)) = AllBlocks(s) \o m.blocks
<1> DEFINE f == [i \in DOMAIN s |-> s[i].blocks]
           t == Append(s, m)
           g == [i \in DOMAIN t |-> t[i].blocks]
<1>1. m.blocks \in Seq(BlockSet) /\ f \in Seq(Seq(BlockSet))
  <2>1. m.blocks \in Seq(BlockSet)
    BY DEF MessageSet
  <2>2. /\ DOMAIN s = 1..Len(s) /\ Len(s) \in Nat /\ \A i \in 1..Len(s) : s[i] \in MessageSet
    OBVIOUS
  <2>3. f = [i \in 1..Len(s) |-> f[i]] /\ \A i \in 1..Len(s) : f[i] = s[i].blocks
    BY <2>2
  <2> HIDE DEF f
  <2>4. \A i \in 1..Len(s) : f[i] \in Seq(BlockSet)
    BY <2>2, <2>3 DEF MessageSet
  <2> QED
    BY <2>1, <2>2, <2>3, <2>4
<1>2. /\ DOMAIN f = 1..Len(s) /\ DOMAIN g = 1..Len(s) + 1 /\ Len(s) \in Nat /\ Len(f) = Len(s)
      /\ \A i \in 1..Len(s) : t[i] = s[i] /\ g[i] = f[i]
      /\ g[Len(s) + 1] = m.blocks
  OBVIOUS
<1>3. g = Append(f, m.blocks)
  <2>1. /\ DOMAIN Append(f, m.blocks) = 1..Len(s) + 1
        /\ \A i \in 1..Len(s) : Append(f, m.blocks)[i] = f[i]
        /\ Append(f, m.blocks)[Len(s) + 1] = m.blocks
    BY <1>1, <1>2
  <2>2. /\ g = [i \in DOMAIN g |-> g[i]]
        /\ Append(f, m.blocks) = [i \in DOMAIN Append(f, m.blocks) |-> Append(f, m.blocks)[i]]
    BY <1>1
  <2> HIDE DEF g, f, t
  <2> QED
    BY <1>2, <2>1, <2>2
<1>4. AllBlocks(t) = FlattenSeq(g) /\ AllBlocks(s) = FlattenSeq(f)
  BY DEF AllBlocks
<1> HIDE DEF f, g, t
<1> QED
  BY <1>1, <1>3, <1>4, FlattenAppend DEF t

LEMMA AllBlocksType == ASSUME NEW s \in Seq(MessageSet) PROVE AllBlocks(s) \in Seq(BlockSet)
<1> DEFINE U == { t \in Seq(MessageSet) : AllBlocks(t) \in Seq(BlockSet) }
<1>1. <<>> \in U
  <2>1. <<>> \in Seq(MessageSet) /\ <<>> \in Seq(BlockSet)
    OBVIOUS
  <2>2. AllBlocks(<<>>) \in Seq(BlockSet)
    BY <2>1, AllBlocksNothing, Zenon
  <2> QED
    BY <2>1, <2>2
<1>2. ASSUME NEW t \in Seq(MessageSet), NEW m \in MessageSet, t \in U PROVE Append(t, m) \in U
  <2>1. AllBlocks(t) \in Seq(BlockSet) /\ Append(t, m) \in Seq(MessageSet)
    BY <1>2
  <2>2. m.blocks \in Seq(BlockSet)
    BY DEF MessageSet
  <2>3. AllBlocks(t) \o m.blocks \in Seq(BlockSet)
    BY <2>1, <2>2
  <2>4. AllBlocks(Append(t, m)) \in Seq(BlockSet)
    BY <2>3, AllBlocksAppend, Zenon
  <2> QED
    BY <2>1, <2>4
<1> HIDE DEF U
<1>3. s \in U
  BY <1>1, <1>2, SeqInduction
<1> QED
  BY <1>3 DEF U

LEMMA AllBlocksConcat ==
    ASSUME NEW s \in Seq(MessageSet), NEW t \in Seq(MessageSet)
    PROVE  AllBlocks(s \o t) = AllBlocks(s) \o AllBlocks(t)
<1> DEFINE U == { u \in Seq(MessageSet) : AllBlocks(s \o u) = AllBlocks(s) \o AllBlocks(u) }
<1>0. AllBlocks(s) \in Seq(BlockSet)
  BY AllBlocksType
<1>1. <<>> \in U
  <2>1. <<>> \in Seq(MessageSet) /\ s \o <<>> = s /\ AllBlocks(s) \o <<>> = AllBlocks(s)
    BY <1>0, ConcatEmptySeq
  <2>2. AllBlocks(s \o <<>>) = AllBlocks(s) \o AllBlocks(<<>>)
    BY <2>1, AllBlocksNothing, Zenon
  <2> QED
    BY <2>1, <2>2
<1>2. ASSUME NEW u \in Seq(MessageSet), NEW m \in MessageSet, u \in U PROVE Append(u, m) \in U
  <2>1. /\ Append(u, m) \in Seq(MessageSet) /\ s \o u \in Seq(MessageSet)
        /\ AllBlocks(s \o u) = AllBlocks(s) \o AllBlocks(u)
    BY <1>2
  <2>2. s \o Append(u, m) = Append(s \o u, m)
    OBVIOUS
  <2>3. AllBlocks(Append(s \o u, m)) = AllBlocks(s \o u) \o m.blocks
    BY <2>1, AllBlocksAppend
  <2>4. AllBlocks(Append(u, m)) = AllBlocks(u) \o m.blocks
    BY AllBlocksAppend
  <2>5. AllBlocks(u) \in Seq(BlockSet)
    BY AllBlocksType
  <2>6. PICK last \in Seq(BlockSet) : last = m.blocks
    BY DEF MessageSet
  <2>8. (AllBlocks(s) \o AllBlocks(u)) \o last = AllBlocks(s) \o (AllBlocks(u) \o last)
    BY <1>0, <2>5, ConcatAssociative
  <2>7. AllBlocks(s \o Append(u, m)) = AllBlocks(s) \o AllBlocks(Append(u, m))
    BY <2>1, <2>2, <2>3, <2>4, <2>6, <2>8, Zenon
  <2> QED
    BY <2>1, <2>7
<1> HIDE DEF U
<1>3. t \in U
  BY <1>1, <1>2, SeqInduction
<1> QED
  BY <1>3 DEF U

LEMMA AllBlocksOne == ASSUME NEW m \in MessageSet PROVE AllBlocks(<<m>>) = m.blocks
<1>1. Append(<<>>, m) = <<m>> /\ <<>> \in Seq(MessageSet)
  OBVIOUS
<1>2. AllBlocks(Append(<<>>, m)) = AllBlocks(<<>>) \o m.blocks
  BY <1>1, AllBlocksAppend
<1>3. m.blocks \in Seq(BlockSet)
  BY DEF MessageSet
<1>4. <<>> \o m.blocks = m.blocks
  BY <1>3, ConcatEmptySeq
<1> QED
  BY <1>1, <1>2, <1>4, AllBlocksNothing, Zenon

Of(kinds) == { b \in BlockSet : b.kind \in kinds }

By(roles) == { m \in MessageSet : m.role \in roles }

\* The filters of the model are all Only, by what the blocks or messages belong to.
LEMMA OfKindsIs ==
    ASSUME NEW s \in Seq(BlockSet), NEW kinds
    PROVE  OfKinds(s, kinds) = Only(s, Of(kinds))
<1>1. /\ DOMAIN s = 1..Len(s)
      /\ \A i \in 1..Len(s) : s[i] \in BlockSet /\ (s[i].kind \in kinds <=> s[i] \in Of(kinds))
  BY DEF Of
<1>2. [i \in DOMAIN s |-> IF s[i].kind \in kinds THEN <<s[i]>> ELSE <<>>] =
      [i \in DOMAIN s |-> IF s[i] \in Of(kinds) THEN <<s[i]>> ELSE <<>>]
  BY <1>1
<1> QED
  BY <1>2 DEF OfKinds, Only

LEMMA OfKindsType ==
    ASSUME NEW s \in Seq(BlockSet), NEW kinds
    PROVE  OfKinds(s, kinds) \in Seq(BlockSet) /\ OfKinds(s, kinds) \in Seq(Of(kinds))
<1>1. OfKinds(s, kinds) = Only(s, Of(kinds))
  BY OfKindsIs
<1>2. Only(s, Of(kinds)) \in Seq(BlockSet)
  BY OnlyKeeps
<1>3. Only(s, Of(kinds)) \in Seq(BlockSet \cap Of(kinds))
  BY OnlyType
<1>4. BlockSet \cap Of(kinds) = Of(kinds)
  BY DEF Of
<1> QED
  BY <1>1, <1>2, <1>3, <1>4, Zenon

LEMMA OfKindsNothing == ASSUME NEW kinds PROVE OfKinds(<<>>, kinds) = <<>>
<1>1. <<>> \in Seq(BlockSet)
  OBVIOUS
<1> QED
  BY <1>1, OfKindsIs, OnlyNothing, Zenon

LEMMA OfKindsConcat ==
    ASSUME NEW s \in Seq(BlockSet), NEW t \in Seq(BlockSet), NEW kinds
    PROVE  OfKinds(s \o t, kinds) = OfKinds(s, kinds) \o OfKinds(t, kinds)
<1>1. s \o t \in Seq(BlockSet)
  OBVIOUS
<1>2. Only(s \o t, Of(kinds)) = Only(s, Of(kinds)) \o Only(t, Of(kinds))
  BY OnlyConcat
<1>3. /\ OfKinds(s \o t, kinds) = Only(s \o t, Of(kinds))
      /\ OfKinds(s, kinds) = Only(s, Of(kinds)) /\ OfKinds(t, kinds) = Only(t, Of(kinds))
  BY <1>1, OfKindsIs
<1> QED
  BY <1>2, <1>3, Zenon

LEMMA OfKindsOne ==
    ASSUME NEW b \in BlockSet, NEW kinds
    PROVE  OfKinds(<<b>>, kinds) = IF b.kind \in kinds THEN <<b>> ELSE <<>>
<1>1. <<b>> \in Seq(BlockSet) /\ (b.kind \in kinds <=> b \in Of(kinds))
  BY DEF Of
<1>2. OfKinds(<<b>>, kinds) = Only(<<b>>, Of(kinds))
  BY <1>1, OfKindsIs, Zenon
<1> QED
  BY <1>1, <1>2, OnlyOne, Zenon

LEMMA OfKindsAll ==
    ASSUME NEW kinds, NEW s \in Seq(Of(kinds))
    PROVE  OfKinds(s, kinds) = s
<1>1. Of(kinds) \subseteq BlockSet /\ Of(kinds) \subseteq Of(kinds)
  BY DEF Of
<1>2. s \in Seq(BlockSet)
  BY <1>1, SeqMonotonic
<1> QED
  BY <1>1, <1>2, OfKindsIs, OnlyAll, Zenon

LEMMA OfKindsNone ==
    ASSUME NEW kinds, NEW others, kinds \cap others = {}, NEW s \in Seq(Of(others))
    PROVE  OfKinds(s, kinds) = <<>>
<1>1. Of(others) \subseteq BlockSet /\ Of(others) \cap Of(kinds) = {}
  BY DEF Of
<1>2. s \in Seq(BlockSet)
  BY <1>1, SeqMonotonic
<1>3. Only(s, Of(kinds)) = <<>>
  BY <1>1, OnlyNone
<1> QED
  BY <1>2, <1>3, OfKindsIs, Zenon

LEMMA OfKindsTwice ==
    ASSUME NEW s \in Seq(BlockSet), NEW kinds, NEW others
    PROVE  OfKinds(OfKinds(s, kinds), others) = OfKinds(s, kinds \cap others)
<1>1. Of(kinds) \cap Of(others) = Of(kinds \cap others)
  BY DEF Of
<1>2. OfKinds(s, kinds) \in Seq(BlockSet)
  BY OfKindsType
<1>3. OfKinds(OfKinds(s, kinds), others) = Only(OfKinds(s, kinds), Of(others))
  BY <1>2, OfKindsIs
<1>4. OfKinds(s, kinds) = Only(s, Of(kinds))
  BY OfKindsIs
<1>5. OfKinds(s, kinds \cap others) = Only(s, Of(kinds \cap others))
  BY OfKindsIs
<1>6. Only(Only(s, Of(kinds)), Of(others)) = Only(s, Of(kinds) \cap Of(others))
  BY OnlyOnly
<1> QED
  BY <1>1, <1>3, <1>4, <1>5, <1>6, Zenon

LEMMA OfRolesIs ==
    ASSUME NEW s \in Seq(MessageSet), NEW roles
    PROVE  OfRoles(s, roles) = Only(s, By(roles))
<1>1. /\ DOMAIN s = 1..Len(s)
      /\ \A i \in 1..Len(s) : s[i] \in MessageSet /\ (s[i].role \in roles <=> s[i] \in By(roles))
  BY DEF By
<1>2. [i \in DOMAIN s |-> IF s[i].role \in roles THEN <<s[i]>> ELSE <<>>] =
      [i \in DOMAIN s |-> IF s[i] \in By(roles) THEN <<s[i]>> ELSE <<>>]
  BY <1>1
<1> QED
  BY <1>2 DEF OfRoles, Only

LEMMA OfRolesType ==
    ASSUME NEW s \in Seq(MessageSet), NEW roles
    PROVE  OfRoles(s, roles) \in Seq(MessageSet) /\ OfRoles(s, roles) \in Seq(By(roles))
<1>1. OfRoles(s, roles) = Only(s, By(roles))
  BY OfRolesIs
<1>2. Only(s, By(roles)) \in Seq(MessageSet)
  BY OnlyKeeps
<1>3. Only(s, By(roles)) \in Seq(MessageSet \cap By(roles))
  BY OnlyType
<1>4. MessageSet \cap By(roles) = By(roles)
  BY DEF By
<1> QED
  BY <1>1, <1>2, <1>3, <1>4, Zenon

LEMMA OfRolesNothing == ASSUME NEW roles PROVE OfRoles(<<>>, roles) = <<>>
<1>1. <<>> \in Seq(MessageSet)
  OBVIOUS
<1> QED
  BY <1>1, OfRolesIs, OnlyNothing, Zenon

LEMMA OfRolesConcat ==
    ASSUME NEW s \in Seq(MessageSet), NEW t \in Seq(MessageSet), NEW roles
    PROVE  OfRoles(s \o t, roles) = OfRoles(s, roles) \o OfRoles(t, roles)
<1>1. s \o t \in Seq(MessageSet)
  OBVIOUS
<1>2. Only(s \o t, By(roles)) = Only(s, By(roles)) \o Only(t, By(roles))
  BY OnlyConcat
<1>3. /\ OfRoles(s \o t, roles) = Only(s \o t, By(roles))
      /\ OfRoles(s, roles) = Only(s, By(roles)) /\ OfRoles(t, roles) = Only(t, By(roles))
  BY <1>1, OfRolesIs
<1> QED
  BY <1>2, <1>3, Zenon

LEMMA OfRolesOne ==
    ASSUME NEW m \in MessageSet, NEW roles
    PROVE  OfRoles(<<m>>, roles) = IF m.role \in roles THEN <<m>> ELSE <<>>
<1>1. <<m>> \in Seq(MessageSet) /\ (m.role \in roles <=> m \in By(roles))
  BY DEF By
<1>2. OfRoles(<<m>>, roles) = Only(<<m>>, By(roles))
  BY <1>1, OfRolesIs, Zenon
<1> QED
  BY <1>1, <1>2, OnlyOne, Zenon

LEMMA OfRolesNone ==
    ASSUME NEW roles, NEW others, roles \cap others = {}, NEW s \in Seq(By(others))
    PROVE  OfRoles(s, roles) = <<>>
<1>1. By(others) \subseteq MessageSet /\ By(others) \cap By(roles) = {}
  BY DEF By
<1>2. s \in Seq(MessageSet)
  BY <1>1, SeqMonotonic
<1>3. Only(s, By(roles)) = <<>>
  BY <1>1, OnlyNone
<1> QED
  BY <1>2, <1>3, OfRolesIs, Zenon

LEMMA NonEmptyIs ==
    ASSUME NEW s \in Seq(BlockSet)
    PROVE  NonEmpty(s) = Only(s, { b \in BlockSet : b.value # <<>> })
<1> DEFINE S == { b \in BlockSet : b.value # <<>> }
<1>1. /\ DOMAIN s = 1..Len(s)
      /\ \A i \in 1..Len(s) : s[i] \in BlockSet /\ (s[i].value # <<>> <=> s[i] \in S)
  OBVIOUS
<1>2. [i \in DOMAIN s |-> IF s[i].value # <<>> THEN <<s[i]>> ELSE <<>>] =
      [i \in DOMAIN s |-> IF s[i] \in S THEN <<s[i]>> ELSE <<>>]
  BY <1>1
<1> QED
  BY <1>2 DEF NonEmpty, Only

-----------------------------------------------------------------------------
(* The names of the calls *)

LEMMA GreatestIn ==
    ASSUME NEW n \in Nat, NEW S \in SUBSET (1..n), S # {}
    PROVE  Max(S) \in S /\ \A j \in S : j <= Max(S)
<1>1. \E i \in S : \A j \in S : i >= j
  BY GreatestExists
<1>2. Max(S) \in S /\ \A j \in S : Max(S) >= j
  BY <1>1 DEF Max
<1> QED
  BY <1>2

NameSet == Names \cup {"unknown"}

NamesSet == [Ids -> NameSet]

CallSet == { b \in BlockSet : b.kind = "call" /\ b.id \in Ids /\ b.name \in Names }

ResultSet == { b \in BlockSet : b.kind = "result" /\ b.id \in Ids }

Places(calls, id) == { i \in DOMAIN calls : calls[i].id = id }

\* A dictionary holds the name of the latest call, if there is one.
LEMMA NoteIs ==
    ASSUME NEW names \in NamesSet, NEW calls \in Seq(CallSet), NEW id \in Ids
    PROVE  /\ (\A i \in 1..Len(calls) : calls[i].id # id) => Note(names, calls)[id] = names[id]
           /\ \A i \in 1..Len(calls) :
                 calls[i].id = id /\ (\A j \in 1..Len(calls) : calls[j].id = id => j <= i)
                 => Note(names, calls)[id] = calls[i].name
<1>1. Note(names, calls)[id] =
        IF Places(calls, id) = {} THEN names[id] ELSE calls[Max(Places(calls, id))].name
  BY DEF Note, Places
<1>2. /\ DOMAIN calls = 1..Len(calls) /\ Len(calls) \in Nat
      /\ Places(calls, id) \in SUBSET (1..Len(calls))
      /\ \A i : i \in Places(calls, id) <=> i \in 1..Len(calls) /\ calls[i].id = id
  BY DEF Places
<1>3. ASSUME \A i \in 1..Len(calls) : calls[i].id # id PROVE Note(names, calls)[id] = names[id]
  <2>1. Places(calls, id) = {}
    BY <1>2, <1>3
  <2> QED
    BY <1>1, <2>1
<1>4. ASSUME NEW i \in 1..Len(calls), calls[i].id = id,
             \A j \in 1..Len(calls) : calls[j].id = id => j <= i
      PROVE  Note(names, calls)[id] = calls[i].name
  <2> DEFINE S == Places(calls, id)
  <2>1. i \in S
    BY <1>2, <1>4
  <2>2. Max(S) \in S /\ \A j \in S : j <= Max(S)
    BY <1>2, <2>1, GreatestIn
  <2>3. Max(S) \in 1..Len(calls) /\ i <= Max(S) /\ Max(S) <= i
    BY <1>2, <1>4, <2>1, <2>2
  <2>4. Max(S) = i
    BY <2>3
  <2> QED
    BY <1>1, <2>1, <2>4
<1> QED
  BY <1>3, <1>4

LEMMA LatestExists ==
    ASSUME NEW calls \in Seq(CallSet), NEW id, NEW i \in 1..Len(calls), calls[i].id = id
    PROVE  \E k \in 1..Len(calls) :
              calls[k].id = id /\ \A j \in 1..Len(calls) : calls[j].id = id => j <= k
<1> DEFINE S == { j \in 1..Len(calls) : calls[j].id = id }
<1>1. Len(calls) \in Nat /\ S \in SUBSET (1..Len(calls)) /\ i \in S
  OBVIOUS
<1>2. Max(S) \in S /\ \A j \in S : j <= Max(S)
  BY <1>1, GreatestIn
<1> QED
  BY <1>2

LEMMA NoteType ==
    ASSUME NEW names \in NamesSet, NEW calls \in Seq(CallSet)
    PROVE  Note(names, calls) \in NamesSet
<1>1. ASSUME NEW id \in Ids PROVE Note(names, calls)[id] \in NameSet
  <2>1. CASE \A i \in 1..Len(calls) : calls[i].id # id
    <3>1. names[id] \in NameSet
      BY DEF NamesSet
    <3> QED
      BY <2>1, <3>1, NoteIs
  <2>2. CASE \E i \in 1..Len(calls) : calls[i].id = id
    <3>1. PICK k \in 1..Len(calls) :
             calls[k].id = id /\ \A j \in 1..Len(calls) : calls[j].id = id => j <= k
      BY <2>2, LatestExists
    <3>2. Note(names, calls)[id] = calls[k].name
      BY <3>1, NoteIs
    <3>3. calls[k] \in CallSet
      OBVIOUS
    <3> QED
      BY <3>2, <3>3 DEF CallSet, NameSet
  <2> QED
    BY <2>1, <2>2
<1>2. Note(names, calls) = [id \in Ids |-> Note(names, calls)[id]]
  BY DEF Note
<1> QED
  BY <1>1, <1>2 DEF NamesSet

LEMMA NoteNothing == ASSUME NEW names \in NamesSet PROVE Note(names, <<>>) = names
<1>0. <<>> \in Seq(CallSet)
  OBVIOUS
<1>1. PICK calls \in Seq(CallSet) : calls = <<>>
  BY <1>0, Zenon
<1>2. ASSUME NEW id \in Ids PROVE Note(names, calls)[id] = names[id]
  <2>1. \A i \in 1..Len(calls) : calls[i].id # id
    BY <1>1
  <2> QED
    BY <2>1, NoteIs
<1>3. Note(names, calls) = [id \in Ids |-> Note(names, calls)[id]]
  BY DEF Note
<1>4. Note(names, calls) = names
  BY <1>2, <1>3 DEF NamesSet
<1> QED
  BY <1>1, <1>4, Zenon

\* Noting calls in two parts is noting them at once.
LEMMA NoteMore ==
    ASSUME NEW names \in NamesSet, NEW calls \in Seq(CallSet), NEW more \in Seq(CallSet)
    PROVE  Note(Note(names, calls), more) = Note(names, calls \o more)
<1> DEFINE n == Len(calls)
           k == Len(more)
           noted == Note(names, calls)
<1>0. noted \in NamesSet
  BY NoteType
<1> HIDE DEF noted
<1>a. calls \o more \in Seq(CallSet)
  BY ConcatProperties
<1>1. PICK all \in Seq(CallSet) : all = calls \o more
  BY <1>a, Zenon
<1>2. /\ n \in Nat /\ k \in Nat /\ Len(all) = n + k
      /\ \A i \in 1..n : all[i] = calls[i]
      /\ \A i \in 1..k : all[n + i] = more[i]
      /\ \A i \in 1..n + k : i \in 1..n \/ (i > n /\ i - n \in 1..k /\ all[i] = more[i - n])
  BY <1>1
<1> HIDE DEF n, k
<1>3. ASSUME NEW id \in Ids PROVE Note(noted, more)[id] = Note(names, all)[id]
  <2>1. CASE \E i \in 1..k : more[i].id = id
    <3>1. PICK i \in 1..k : more[i].id = id /\ \A j \in 1..k : more[j].id = id => j <= i
      BY <2>1, LatestExists DEF k
    <3>2. Note(noted, more)[id] = more[i].name
      BY <1>0, <3>1, NoteIs DEF k
    <3>3. n + i \in 1..n + k /\ all[n + i] = more[i]
      BY <1>2
    <3>4. ASSUME NEW j \in 1..n + k, all[j].id = id PROVE j <= n + i
      <4>1. CASE j \in 1..n
        BY <1>2, <4>1
      <4>2. CASE j > n /\ j - n \in 1..k /\ all[j] = more[j - n]
        <5>1. j - n <= i
          BY <3>1, <3>4, <4>2
        <5> QED
          BY <1>2, <5>1
      <4> QED
        BY <1>2, <4>1, <4>2
    <3>5. Note(names, all)[id] = all[n + i].name
      <4>1. /\ n + i \in 1..Len(all) /\ all[n + i].id = id
            /\ \A j \in 1..Len(all) : all[j].id = id => j <= n + i
        BY <1>2, <3>1, <3>3, <3>4
      <4> QED
        BY <4>1, NoteIs
    <3> QED
      BY <3>2, <3>3, <3>5
  <2>2. CASE /\ \A i \in 1..k : more[i].id # id
             /\ \E i \in 1..n : calls[i].id = id
    <3>0. PICK first \in 1..Len(calls) : calls[first].id = id
      BY <2>2 DEF n
    <3>1. PICK i \in 1..n : calls[i].id = id /\ \A j \in 1..n : calls[j].id = id => j <= i
      BY <3>0, LatestExists DEF n
    <3>2. noted[id] = calls[i].name
      BY <3>1, NoteIs DEF n, noted
    <3>3. Note(noted, more)[id] = noted[id]
      BY <1>0, <2>2, NoteIs DEF k
    <3>4. i \in 1..n + k /\ all[i] = calls[i]
      BY <1>2
    <3>5. ASSUME NEW j \in 1..n + k, all[j].id = id PROVE j <= i
      <4>1. j \in 1..n
        BY <1>2, <2>2, <3>5
      <4> QED
        BY <1>2, <3>1, <3>5, <4>1
    <3>6. Note(names, all)[id] = all[i].name
      BY <1>2, <3>1, <3>4, <3>5, NoteIs
    <3> QED
      BY <3>2, <3>3, <3>4, <3>6
  <2>3. CASE /\ \A i \in 1..k : more[i].id # id
             /\ \A i \in 1..n : calls[i].id # id
    <3>1. noted[id] = names[id]
      BY <2>3, NoteIs DEF n, noted
    <3>2. Note(noted, more)[id] = noted[id]
      BY <1>0, <2>3, NoteIs DEF k
    <3>3. \A i \in 1..Len(all) : all[i].id # id
      BY <1>2, <2>3
    <3>4. Note(names, all)[id] = names[id]
      BY <3>3, NoteIs
    <3> QED
      BY <3>1, <3>2, <3>4
  <2> QED
    BY <2>1, <2>2, <2>3
<1>4. /\ Note(noted, more) = [id \in Ids |-> Note(noted, more)[id]]
      /\ Note(names, all) = [id \in Ids |-> Note(names, all)[id]]
  BY DEF Note
<1>5. Note(noted, more) = Note(names, all)
  BY <1>3, <1>4
<1> QED
  BY <1>1, <1>5 DEF noted

-----------------------------------------------------------------------------
(* What a message says *)

KindsOf(role) ==
    CASE role = "system" -> {"text"}
      [] role = "user" -> {"text", "image", "result"}
      [] OTHER -> {"text", "thinking", "call"}

SayableSet(role) ==
    { b \in BlockSet : /\ b.kind \in KindsOf(role)
                       /\ b.kind = "call" => b \in CallSet
                       /\ b.kind = "result" => b \in ResultSet }

\* The messages a client can have said, by what their roles may say.
SpokenSet ==
    { m \in MessageSet : /\ m.role \in {"system", "user", "assistant"}
                         /\ m.blocks \in Seq(SayableSet(m.role)) }

Content(m) == OfKinds(m.blocks, {"text", "image"})

CallsOf(m) == OfKind(m.blocks, "call")

ResultsOf(m) == OfKind(m.blocks, "result")

LEMMA BlocksType == ASSUME NEW m \in SpokenSet PROVE m.blocks \in Seq(BlockSet)
  BY DEF SpokenSet, MessageSet

LEMMA OfKindAmong ==
    ASSUME NEW m \in SpokenSet, NEW kind, NEW S, SayableSet(m.role) \cap Of({kind}) \subseteq S
    PROVE  OfKind(m.blocks, kind) \in Seq(S)
<1>1. m.blocks \in Seq(BlockSet) /\ m.blocks \in Seq(SayableSet(m.role))
  BY BlocksType DEF SpokenSet
<1>2. OfKind(m.blocks, kind) = Only(m.blocks, Of({kind}))
  BY <1>1, OfKindsIs DEF OfKind
<1>3. Only(m.blocks, Of({kind})) \in Seq(SayableSet(m.role) \cap Of({kind}))
  BY <1>1, OnlyType
<1> QED
  BY <1>2, <1>3, SeqMonotonic

LEMMA CallsType ==
    ASSUME NEW m \in SpokenSet
    PROVE  CallsOf(m) \in Seq(CallSet) /\ (m.role # "assistant" => CallsOf(m) = <<>>)
<1>1. SayableSet(m.role) \cap Of({"call"}) \subseteq CallSet
  BY DEF SayableSet, Of
<1>2. ASSUME m.role # "assistant" PROVE CallsOf(m) = <<>>
  <2>1. SayableSet(m.role) \cap Of({"call"}) \subseteq {}
    BY <1>2 DEF SayableSet, Of, KindsOf, SpokenSet
  <2>2. CallsOf(m) \in Seq({})
    BY <2>1, OfKindAmong DEF CallsOf
  <2> QED
    BY <2>2
<1> QED
  BY <1>1, <1>2, OfKindAmong DEF CallsOf

LEMMA ResultsType ==
    ASSUME NEW m \in SpokenSet
    PROVE  ResultsOf(m) \in Seq(ResultSet) /\ (m.role # "user" => ResultsOf(m) = <<>>)
<1>1. SayableSet(m.role) \cap Of({"result"}) \subseteq ResultSet
  BY DEF SayableSet, Of
<1>2. ASSUME m.role # "user" PROVE ResultsOf(m) = <<>>
  <2>1. SayableSet(m.role) \cap Of({"result"}) \subseteq {}
    BY <1>2 DEF SayableSet, Of, KindsOf, SpokenSet
  <2>2. ResultsOf(m) \in Seq({})
    BY <2>1, OfKindAmong DEF ResultsOf
  <2> QED
    BY <2>2
<1> QED
  BY <1>1, <1>2, OfKindAmong DEF ResultsOf

LEMMA ContentType == ASSUME NEW m \in SpokenSet PROVE Content(m) \in Seq(BlockSet)
  BY BlocksType, OfKindsType DEF Content

LEMMA CallSetType == CallSet \subseteq BlockSet /\ ResultSet \subseteq BlockSet
  BY DEF CallSet, ResultSet

LEMMA CallsAreBlocks == ASSUME NEW s \in Seq(CallSet) PROVE s \in Seq(BlockSet)
  BY CallSetType, SeqMonotonic

-----------------------------------------------------------------------------
(* Results *)

Results(rs, names) == [i \in DOMAIN rs |-> Result(rs[i], names)]

LEMMA ResultType ==
    ASSUME NEW b \in ResultSet, NEW names \in NamesSet
    PROVE  Result(b, names) \in MessageSet
<1>1. names[b.id] \in Names \cup {Blank, "unknown"}
  BY DEF ResultSet, NamesSet, NameSet
<1>2. [b EXCEPT !.name = names[b.id]] \in BlockSet
  BY <1>1 DEF ResultSet, BlockSet
<1>3. <<[b EXCEPT !.name = names[b.id]]>> \in Seq(BlockSet)
  BY <1>2
<1> QED
  BY <1>3 DEF Result, Message, MessageSet, Roles

LEMMA ResultsNothing == ASSUME NEW names PROVE Results(<<>>, names) = <<>>
  BY DEF Results

LEMMA ResultsMessages ==
    ASSUME NEW rs \in Seq(ResultSet), NEW names \in NamesSet
    PROVE  Results(rs, names) \in Seq(MessageSet)
<1>1. DOMAIN rs = 1..Len(rs) /\ Len(rs) \in Nat /\ \A i \in 1..Len(rs) : rs[i] \in ResultSet
  OBVIOUS
<1>2. \A i \in 1..Len(rs) : Result(rs[i], names) \in MessageSet
  BY <1>1, ResultType
<1> QED
  BY <1>1, <1>2 DEF Results

LEMMA ResultsAppend ==
    ASSUME NEW rs \in Seq(ResultSet), NEW b \in ResultSet, NEW names \in NamesSet
    PROVE  Results(Append(rs, b), names) = Append(Results(rs, names), Result(b, names))
<1> DEFINE f == Results(rs, names)
           t == Append(rs, b)
           g == Results(t, names)
           x == Result(b, names)
<1>0. f \in Seq(MessageSet) /\ t \in Seq(ResultSet)
  BY ResultsMessages
<1>1. g \in Seq(MessageSet) /\ x \in MessageSet
  BY <1>0, ResultsMessages, ResultType
<1>2. /\ DOMAIN rs = 1..Len(rs) /\ DOMAIN t = 1..Len(rs) + 1 /\ Len(rs) \in Nat
      /\ t[Len(rs) + 1] = b /\ \A i \in 1..Len(rs) : t[i] = rs[i]
  OBVIOUS
<1> HIDE DEF t
<1>3. /\ DOMAIN g = 1..Len(rs) + 1 /\ DOMAIN f = 1..Len(rs)
      /\ g[Len(rs) + 1] = x /\ \A i \in 1..Len(rs) : g[i] = f[i]
  BY <1>2 DEF Results
<1> HIDE DEF f, g, x
<1>4. Len(f) = Len(rs) /\ Len(g) = Len(rs) + 1
  BY <1>0, <1>1, <1>2, <1>3
<1>5. g = Append(f, x)
  BY <1>0, <1>1, <1>2, <1>3, <1>4
<1> QED
  BY <1>5 DEF f, g, t, x

-----------------------------------------------------------------------------
(* Chat Completions, message by message *)

LEMMA AppendMessage ==
    ASSUME NEW s \in Seq(MessageSet), NEW t \in Seq(MessageSet), NEW m \in MessageSet
    PROVE  Append(s \o t, m) = s \o Append(t, m)
  OBVIOUS

WireSet == [role : Roles, blocks : Seq(BlockSet), calls : Seq(CallSet)]

Wire(b) == [role |-> "tool", blocks |-> <<b>>, calls |-> <<>>]

Wires(rs) == [i \in DOMAIN rs |-> Wire(rs[i])]

LEMMA WireType == ASSUME NEW b \in ResultSet PROVE Wire(b) \in WireSet
<1>1. <<b>> \in Seq(BlockSet) /\ <<>> \in Seq(CallSet)
  BY DEF ResultSet
<1> QED
  BY <1>1 DEF Wire, WireSet, Roles

LEMMA WiresNothing == Wires(<<>>) = <<>>
  BY DEF Wires

LEMMA WiresType == ASSUME NEW rs \in Seq(ResultSet) PROVE Wires(rs) \in Seq(WireSet)
<1>1. DOMAIN rs = 1..Len(rs) /\ Len(rs) \in Nat /\ \A i \in 1..Len(rs) : rs[i] \in ResultSet
  OBVIOUS
<1>2. \A i \in 1..Len(rs) : Wire(rs[i]) \in WireSet
  BY <1>1, WireType
<1> QED
  BY <1>1, <1>2 DEF Wires

LEMMA WiresAppend ==
    ASSUME NEW rs \in Seq(ResultSet), NEW b \in ResultSet
    PROVE  Wires(Append(rs, b)) = Append(Wires(rs), Wire(b))
<1> DEFINE f == Wires(rs)
           t == Append(rs, b)
           g == Wires(t)
           x == Wire(b)
<1>0. f \in Seq(WireSet) /\ t \in Seq(ResultSet)
  BY WiresType
<1>1. g \in Seq(WireSet) /\ x \in WireSet
  BY <1>0, WiresType, WireType
<1>2. /\ DOMAIN rs = 1..Len(rs) /\ DOMAIN t = 1..Len(rs) + 1 /\ Len(rs) \in Nat
      /\ t[Len(rs) + 1] = b /\ \A i \in 1..Len(rs) : t[i] = rs[i]
  OBVIOUS
<1> HIDE DEF t
<1>3. /\ DOMAIN g = 1..Len(rs) + 1 /\ DOMAIN f = 1..Len(rs)
      /\ g[Len(rs) + 1] = x /\ \A i \in 1..Len(rs) : g[i] = f[i]
  BY <1>2 DEF Wires
<1> HIDE DEF f, g, x
<1>4. Len(f) = Len(rs) /\ Len(g) = Len(rs) + 1
  BY <1>0, <1>1, <1>2, <1>3
<1>5. g = Append(f, x)
  BY <1>0, <1>1, <1>2, <1>3, <1>4
<1> QED
  BY <1>5 DEF f, g, t, x

Acc(system, names, out) == [system |-> system, names |-> names, out |-> out]

LEMMA ChatLoopAppend ==
    ASSUME NEW w \in Seq(WireSet), NEW x \in WireSet
    PROVE  ChatLoop(Append(w, x)) = ChatMessage(ChatLoop(w), x)
<1>1. Append(w, x) \in Seq(WireSet) /\ Len(w) \in Nat /\ Len(Append(w, x)) \in Nat
  OBVIOUS
<1>2. ChatLoop(w) = Value("chat", w, Blank) /\ ChatLoop(Append(w, x)) = Value("chat", Append(w, x), Blank)
  BY <1>1, ChatLoopIs
<1>3. Value("chat", Append(w, x), Blank) = Step("chat", Value("chat", w, Blank), x, Blank)
  BY ValueAppend
<1> QED
  BY <1>2, <1>3 DEF Step

LEMMA ChatOfResult ==
    ASSUME NEW system, NEW names, NEW out, NEW b \in ResultSet
    PROVE  ChatMessage(Acc(system, names, out), Wire(b)) = Acc(system, names, Append(out, Result(b, names)))
  BY DEF ChatMessage, Wire, Acc

LEMMA ChatOfResults ==
    ASSUME NEW system, NEW names \in NamesSet, NEW out \in Seq(MessageSet),
           NEW w \in Seq(WireSet), ChatLoop(w) = Acc(system, names, out),
           NEW rs \in Seq(ResultSet)
    PROVE  ChatLoop(w \o Wires(rs)) = Acc(system, names, out \o Results(rs, names))
<1> DEFINE After(s) == Acc(system, names, out \o Results(s, names))
           U == { s \in Seq(ResultSet) : ChatLoop(w \o Wires(s)) = After(s) }
<1>1. <<>> \in U
  <2>1. w \o <<>> = w /\ out \o <<>> = out
    BY ConcatEmptySeq
  <2>2. ChatLoop(w \o Wires(<<>>)) = After(<<>>)
    BY <2>1, WiresNothing, ResultsNothing, Zenon
  <2> QED
    BY <2>2
<1>2. ASSUME NEW s \in Seq(ResultSet), NEW b \in ResultSet, s \in U PROVE Append(s, b) \in U
  <2>1. Wires(s) \in Seq(WireSet) /\ Wire(b) \in WireSet /\ Wires(Append(s, b)) = Append(Wires(s), Wire(b))
    BY WiresType, WireType, WiresAppend
  <2>2. w \o Wires(s) \in Seq(WireSet) /\ w \o Wires(Append(s, b)) = Append(w \o Wires(s), Wire(b))
    BY <2>1, AppendToConcat, ConcatProperties
  <2>3. ChatLoop(w \o Wires(Append(s, b))) = ChatMessage(ChatLoop(w \o Wires(s)), Wire(b))
    BY <2>1, <2>2, ChatLoopAppend
  <2>4. ChatLoop(w \o Wires(s)) = After(s)
    BY <1>2
  <2>5. Results(s, names) \in Seq(MessageSet) /\ Result(b, names) \in MessageSet
    BY ResultsMessages, ResultType
  <2>6. ChatMessage(After(s), Wire(b)) =
           Acc(system, names, Append(out \o Results(s, names), Result(b, names)))
    BY ChatOfResult
  <2>7. Append(out \o Results(s, names), Result(b, names)) =
            out \o Append(Results(s, names), Result(b, names))
    BY <2>5, AppendMessage, Zenon
  <2>8. Results(Append(s, b), names) = Append(Results(s, names), Result(b, names))
    BY ResultsAppend
  <2>9. ChatLoop(w \o Wires(Append(s, b))) = After(Append(s, b))
    BY <2>3, <2>4, <2>6, <2>7, <2>8, Zenon
  <2> QED
    BY <2>9
<1> HIDE DEF U
<1>3. rs \in U
  BY <1>1, <1>2, SeqInduction
<1> QED
  BY <1>3 DEF U

Spoken(m) == [role |-> m.role, blocks |-> Content(m), calls |-> CallsOf(m)]

ChatBody(role, content, calls) ==
    Message(role, IF Coerced(content) \o calls = <<>> THEN <<Text(<<>>)>> ELSE Coerced(content) \o calls)

\* Whether a message is sent beside its results.
Beside(m) == ~(ResultsOf(m) # <<>> /\ Content(m) = <<>>)

\* What a Chat client sends for a message: its results, then the message itself.
LEMMA ToChatIs ==
    ASSUME NEW m
    PROVE  /\ Beside(m) => ToChat(m) = Wires(ResultsOf(m)) \o <<Spoken(m)>>
           /\ ~Beside(m) => ToChat(m) = Wires(ResultsOf(m)) \o <<>>
  BY DEF ToChat, Beside, Spoken, Wires, Wire, ResultsOf, CallsOf, Content

LEMMA SpokenType == ASSUME NEW m \in SpokenSet PROVE Spoken(m) \in WireSet
<1>1. m.role \in Roles
  BY DEF SpokenSet, Roles
<1> QED
  BY <1>1, ContentType, CallsType DEF Spoken, WireSet

LEMMA ToChatType == ASSUME NEW m \in SpokenSet PROVE ToChat(m) \in Seq(WireSet)
<1>1. Wires(ResultsOf(m)) \in Seq(WireSet)
  BY ResultsType, WiresType
<1>2. <<Spoken(m)>> \in Seq(WireSet) /\ <<>> \in Seq(WireSet)
  BY SpokenType
<1>3. /\ Wires(ResultsOf(m)) \o <<Spoken(m)>> \in Seq(WireSet)
      /\ Wires(ResultsOf(m)) \o <<>> \in Seq(WireSet)
  BY <1>1, <1>2
<1> QED
  BY <1>3, ToChatIs

LEMMA ChatRequestNothing == ChatRequest(<<>>) = <<>>
<1>1. Len(<<>>) \in Nat
  OBVIOUS
<1>2. ChatRequest(<<>>) = Value("request", <<>>, Blank)
  BY <1>1, ChatRequestIs
<1> QED
  BY <1>2, ValueNothing DEF Base

LEMMA ChatRequestAppend ==
    ASSUME NEW c \in Seq(SpokenSet), NEW m \in SpokenSet
    PROVE  ChatRequest(Append(c, m)) = ChatRequest(c) \o ToChat(m)
<1>1. Append(c, m) \in Seq(SpokenSet) /\ Len(c) \in Nat /\ Len(Append(c, m)) \in Nat
  OBVIOUS
<1>2. ChatRequest(c) = Value("request", c, Blank) /\ ChatRequest(Append(c, m)) = Value("request", Append(c, m), Blank)
  BY <1>1, ChatRequestIs
<1>3. Value("request", Append(c, m), Blank) = Step("request", Value("request", c, Blank), m, Blank)
  BY ValueAppend
<1> QED
  BY <1>2, <1>3 DEF Step

LEMMA ChatRequestType == ASSUME NEW c \in Seq(SpokenSet) PROVE ChatRequest(c) \in Seq(WireSet)
<1> DEFINE U == { d \in Seq(SpokenSet) : ChatRequest(d) \in Seq(WireSet) }
<1>1. <<>> \in U
  <2>1. <<>> \in Seq(SpokenSet) /\ <<>> \in Seq(WireSet)
    OBVIOUS
  <2>2. ChatRequest(<<>>) \in Seq(WireSet)
    BY <2>1, ChatRequestNothing, Zenon
  <2> QED
    BY <2>1, <2>2
<1>2. ASSUME NEW d \in Seq(SpokenSet), NEW m \in SpokenSet, d \in U PROVE Append(d, m) \in U
  <2>1. ChatRequest(d) \in Seq(WireSet) /\ ToChat(m) \in Seq(WireSet)
    BY <1>2, ToChatType
  <2>2. ChatRequest(d) \o ToChat(m) \in Seq(WireSet)
    BY <2>1
  <2>3. Append(d, m) \in Seq(SpokenSet)
    OBVIOUS
  <2> QED
    BY <2>2, <2>3, ChatRequestAppend
<1> HIDE DEF U
<1>3. c \in U
  BY <1>1, <1>2, SeqInduction
<1> QED
  BY <1>3 DEF U

LEMMA TextType == ASSUME NEW v \in Seq(Stamps) PROVE Text(v) \in BlockSet
  BY DEF Text, Block, BlockSet, Kinds

LEMMA NoTextType == Text(<<>>) \in BlockSet
<1>1. <<>> \in Seq(Stamps)
  OBVIOUS
<1> QED
  BY <1>1, TextType

LEMMA CoercedType == ASSUME NEW s \in Seq(BlockSet) PROVE Coerced(s) \in Seq(BlockSet)
<1>1. Text(Joined(s)) \in BlockSet
  BY JoinedType, TextType
<1>2. <<Text(Joined(s))>> \in Seq(BlockSet)
  BY <1>1
<1> QED
  BY <1>2 DEF Coerced

LEMMA ChatBodyType ==
    ASSUME NEW role \in Roles, NEW content \in Seq(BlockSet), NEW calls \in Seq(CallSet)
    PROVE  ChatBody(role, content, calls) \in MessageSet
<1>1. Coerced(content) \in Seq(BlockSet) /\ calls \in Seq(BlockSet)
  BY CoercedType, CallsAreBlocks
<1>2. Coerced(content) \o calls \in Seq(BlockSet)
  BY <1>1
<1>3. <<Text(<<>>)>> \in Seq(BlockSet)
  BY NoTextType
<1> QED
  BY <1>2, <1>3 DEF ChatBody, Message, MessageSet

\* What a message adds to the upstream's.
ChatAdds(m, names) ==
    IF m.role = "system" THEN <<>>
    ELSE Results(ResultsOf(m), names) \o
         (IF Beside(m) THEN <<ChatBody(m.role, Content(m), CallsOf(m))>> ELSE <<>>)

ChatSystem(m, system) == IF m.role = "system" THEN Joined(Content(m)) ELSE system

LEMMA SpokenRole == ASSUME NEW m \in SpokenSet PROVE m.role \in {"system", "user", "assistant"} /\ m.role \in Roles
  BY DEF SpokenSet, Roles

LEMMA ChatAddsType ==
    ASSUME NEW m \in SpokenSet, NEW names \in NamesSet
    PROVE  ChatAdds(m, names) \in Seq(MessageSet)
<1>1. ChatBody(m.role, Content(m), CallsOf(m)) \in MessageSet
  BY SpokenRole, ContentType, CallsType, ChatBodyType
<1>2. /\ <<ChatBody(m.role, Content(m), CallsOf(m))>> \in Seq(MessageSet)
      /\ <<>> \in Seq(MessageSet)
  BY <1>1
<1>3. Results(ResultsOf(m), names) \in Seq(MessageSet)
  BY ResultsType, ResultsMessages
<1>4. PICK r \in Seq(MessageSet) : r = Results(ResultsOf(m), names)
  BY <1>3, Zenon
<1>5. PICK b \in Seq(MessageSet) : b = IF Beside(m) THEN <<ChatBody(m.role, Content(m), CallsOf(m))>> ELSE <<>>
  BY <1>2
<1>6. r \o b \in Seq(MessageSet)
  OBVIOUS
<1> QED
  BY <1>2, <1>4, <1>5, <1>6 DEF ChatAdds

LEMMA AppendOne == ASSUME NEW T, NEW s \in Seq(T), NEW x \in T PROVE Append(s, x) = s \o <<x>>
  OBVIOUS

LEMMA ConcatOneWire ==
    ASSUME NEW s \in Seq(WireSet), NEW t \in Seq(WireSet), NEW x \in WireSet
    PROVE  s \o (t \o <<x>>) = Append(s \o t, x)
  OBVIOUS

LEMMA ConcatOneMessage ==
    ASSUME NEW s \in Seq(MessageSet), NEW t \in Seq(MessageSet), NEW x \in MessageSet
    PROVE  s \o (t \o <<x>>) = Append(s \o t, x)
  OBVIOUS

LEMMA ConcatNone ==
    ASSUME NEW T, NEW s \in Seq(T), NEW t \in Seq(T)
    PROVE  s \o (t \o <<>>) = s \o t
  OBVIOUS

LEMMA SpokenOfSystem ==
    ASSUME NEW system, NEW names, NEW out, NEW m, m.role = "system"
    PROVE  ChatMessage(Acc(system, names, out), Spoken(m)) = Acc(Joined(Content(m)), names, out)
  BY DEF ChatMessage, Acc, Spoken

LEMMA SpokenOfOthers ==
    ASSUME NEW system, NEW names, NEW out, NEW m, m.role \in {"user", "assistant"}
    PROVE  ChatMessage(Acc(system, names, out), Spoken(m))
           = Acc(system, Note(names, CallsOf(m)), Append(out, ChatBody(m.role, Content(m), CallsOf(m))))
  BY DEF ChatMessage, Acc, Spoken, ChatBody

LEMMA ChatStepOf ==
    ASSUME NEW w \in Seq(WireSet), NEW m \in SpokenSet,
           NEW system, NEW names \in NamesSet, NEW out \in Seq(MessageSet),
           ChatLoop(w) = Acc(system, names, out)
    PROVE  ChatLoop(w \o ToChat(m)) =
             Acc(ChatSystem(m, system), Note(names, CallsOf(m)), out \o ChatAdds(m, names))
<1> DEFINE rs == ResultsOf(m)
           res == Results(rs, names)
           body == ChatBody(m.role, Content(m), CallsOf(m))
<1>1. rs \in Seq(ResultSet) /\ Wires(rs) \in Seq(WireSet) /\ Spoken(m) \in WireSet
  BY ResultsType, WiresType, SpokenType
<1>2. ChatLoop(w \o Wires(rs)) = Acc(system, names, out \o res)
  BY <1>1, ChatOfResults
<1>3. res \in Seq(MessageSet) /\ body \in MessageSet
  BY <1>1, ResultsMessages, SpokenRole, ContentType, CallsType, ChatBodyType
<1>4. w \o Wires(rs) \in Seq(WireSet)
  BY <1>1
<1> HIDE DEF rs, res, body
<1>5. CASE ~Beside(m)
  <2>1. m.role = "user" /\ CallsOf(m) = <<>>
    BY <1>5, ResultsType, CallsType DEF Beside
  <2>2. w \o ToChat(m) = w \o Wires(rs)
    BY <1>1, <1>5, ToChatIs, ConcatNone, Zenon DEF rs
  <2>3. out \o ChatAdds(m, names) = out \o res
    BY <1>3, <1>5, <2>1, ConcatNone DEF ChatAdds, rs, res
  <2>4. Note(names, CallsOf(m)) = names
    BY <2>1, NoteNothing, Zenon
  <2>5. ChatSystem(m, system) = system
    BY <2>1 DEF ChatSystem
  <2> QED
    BY <1>2, <2>2, <2>3, <2>4, <2>5, Zenon
<1>6. CASE Beside(m)
  <2>1. w \o ToChat(m) = Append(w \o Wires(rs), Spoken(m))
    BY <1>1, <1>6, ToChatIs, ConcatOneWire, Zenon DEF rs
  <2>2. ChatLoop(w \o ToChat(m)) = ChatMessage(Acc(system, names, out \o res), Spoken(m))
    BY <1>1, <1>2, <1>4, <2>1, ChatLoopAppend, Zenon
  <2>3. CASE m.role = "system"
    <3>1. rs = <<>> /\ CallsOf(m) = <<>>
      BY <2>3, ResultsType, CallsType DEF rs
    <3>2. res = <<>>
      BY <3>1, ResultsNothing, Zenon DEF res
    <3>3. out \o res = out \o ChatAdds(m, names)
      BY <2>3, <3>2, Zenon DEF ChatAdds
    <3>4. Note(names, CallsOf(m)) = names
      BY <3>1, NoteNothing, Zenon
    <3>5. ChatMessage(Acc(system, names, out \o res), Spoken(m)) = Acc(Joined(Content(m)), names, out \o res)
      BY <2>3, SpokenOfSystem
    <3> QED
      BY <2>2, <2>3, <3>3, <3>4, <3>5, Zenon DEF ChatSystem
  <2>4. CASE m.role \in {"user", "assistant"}
    <3>1. ChatMessage(Acc(system, names, out \o res), Spoken(m))
             = Acc(system, Note(names, CallsOf(m)), Append(out \o res, body))
      BY <2>4, SpokenOfOthers DEF body
    <3>2. ChatAdds(m, names) = res \o <<body>>
      BY <1>6, <2>4 DEF ChatAdds, res, rs, body
    <3>3. Append(out \o res, body) = out \o ChatAdds(m, names)
      BY <1>3, <3>2, ConcatOneMessage, Zenon
    <3>4. ChatSystem(m, system) = system
      BY <2>4 DEF ChatSystem
    <3> QED
      BY <2>2, <3>1, <3>3, <3>4, Zenon
  <2> QED
    BY <2>3, <2>4, SpokenRole
<1> QED
  BY <1>5, <1>6

CallsSaid(c) == OfKind(AllBlocks(c), "call")

NamesAfter(c) == Note(NoNames, CallsSaid(c))

ChatOut(c) == Chat(c).out

ChatSys(c) == Chat(c).system

LEMMA SpokenAreMessages == SpokenSet \subseteq MessageSet
  BY DEF SpokenSet

LEMMA SpokenMessages == ASSUME NEW c \in Seq(SpokenSet) PROVE c \in Seq(MessageSet)
  BY SpokenAreMessages, SeqMonotonic

LEMMA NoNamesType == NoNames \in NamesSet
  BY DEF NoNames, NamesSet, NameSet

LEMMA CallsSaidAppend ==
    ASSUME NEW c \in Seq(SpokenSet), NEW m \in SpokenSet
    PROVE  CallsSaid(Append(c, m)) = CallsSaid(c) \o CallsOf(m)
<1>1. c \in Seq(MessageSet) /\ m \in MessageSet
  BY SpokenMessages, SpokenAreMessages
<1>2. AllBlocks(c) \in Seq(BlockSet) /\ m.blocks \in Seq(BlockSet)
  BY <1>1, AllBlocksType, BlocksType
<1>3. AllBlocks(Append(c, m)) = AllBlocks(c) \o m.blocks
  BY <1>1, AllBlocksAppend
<1>4. PICK a \in Seq(BlockSet) : a = AllBlocks(c)
  BY <1>2, Zenon
<1>5. PICK b \in Seq(BlockSet) : b = m.blocks
  BY <1>2, Zenon
<1>6. OfKinds(a \o b, {"call"}) = OfKinds(a, {"call"}) \o OfKinds(b, {"call"})
  BY OfKindsConcat
<1> QED
  BY <1>3, <1>4, <1>5, <1>6, Zenon DEF CallsSaid, CallsOf, OfKind

LEMMA CallsSaidNothing == CallsSaid(<<>>) = <<>>
  BY AllBlocksNothing, OfKindsNothing, Zenon DEF CallsSaid, OfKind

LEMMA CallsSaidType == ASSUME NEW c \in Seq(SpokenSet) PROVE CallsSaid(c) \in Seq(CallSet)
<1> DEFINE U == { d \in Seq(SpokenSet) : CallsSaid(d) \in Seq(CallSet) }
<1>1. <<>> \in U
  <2>1. <<>> \in Seq(SpokenSet) /\ <<>> \in Seq(CallSet)
    OBVIOUS
  <2>2. CallsSaid(<<>>) \in Seq(CallSet)
    BY <2>1, CallsSaidNothing, Zenon
  <2> QED
    BY <2>1, <2>2
<1>2. ASSUME NEW d \in Seq(SpokenSet), NEW m \in SpokenSet, d \in U PROVE Append(d, m) \in U
  <2>1. CallsSaid(d) \in Seq(CallSet) /\ CallsOf(m) \in Seq(CallSet)
    BY <1>2, CallsType
  <2>2. CallsSaid(d) \o CallsOf(m) \in Seq(CallSet)
    BY <2>1
  <2>3. Append(d, m) \in Seq(SpokenSet)
    OBVIOUS
  <2> QED
    BY <2>2, <2>3, CallsSaidAppend
<1> HIDE DEF U
<1>3. c \in U
  BY <1>1, <1>2, SeqInduction
<1> QED
  BY <1>3 DEF U

LEMMA NamesAfterType == ASSUME NEW c \in Seq(SpokenSet) PROVE NamesAfter(c) \in NamesSet
  BY CallsSaidType, NoNamesType, NoteType DEF NamesAfter

LEMMA NamesAfterAppend ==
    ASSUME NEW c \in Seq(SpokenSet), NEW m \in SpokenSet
    PROVE  NamesAfter(Append(c, m)) = Note(NamesAfter(c), CallsOf(m))
<1>1. CallsSaid(c) \in Seq(CallSet) /\ CallsOf(m) \in Seq(CallSet)
  BY CallsSaidType, CallsType
<1>2. Note(Note(NoNames, CallsSaid(c)), CallsOf(m)) = Note(NoNames, CallsSaid(c) \o CallsOf(m))
  BY <1>1, NoNamesType, NoteMore
<1> QED
  BY <1>2, CallsSaidAppend DEF NamesAfter

LEMMA ChatNothing == Chat(<<>>) = Acc(<<>>, NoNames, <<>>)
<1>1. Len(<<>>) \in Nat
  OBVIOUS
<1>2. ChatLoop(<<>>) = Value("chat", <<>>, Blank)
  BY <1>1, ChatLoopIs
<1>3. Chat(<<>>) = ChatLoop(<<>>)
  BY ChatRequestNothing, Zenon DEF Chat
<1> QED
  BY <1>2, <1>3, ValueNothing DEF Base, Acc

LEMMA ChatStep ==
    ASSUME NEW c \in Seq(SpokenSet), NEW m \in SpokenSet,
           NEW system, NEW names \in NamesSet, NEW out \in Seq(MessageSet),
           Chat(c) = Acc(system, names, out)
    PROVE  Chat(Append(c, m)) =
             Acc(ChatSystem(m, system), Note(names, CallsOf(m)), out \o ChatAdds(m, names))
<1>1. ChatRequest(c) \in Seq(WireSet) /\ ChatRequest(Append(c, m)) = ChatRequest(c) \o ToChat(m)
  BY ChatRequestType, ChatRequestAppend
<1>2. ChatLoop(ChatRequest(c)) = Acc(system, names, out)
  BY DEF Chat
<1>3. ChatLoop(ChatRequest(c) \o ToChat(m)) =
          Acc(ChatSystem(m, system), Note(names, CallsOf(m)), out \o ChatAdds(m, names))
  BY <1>1, <1>2, ChatStepOf
<1> QED
  BY <1>1, <1>3 DEF Chat

LEMMA ChatSystemType ==
    ASSUME NEW m \in SpokenSet, NEW system \in Seq(Stamps)
    PROVE  ChatSystem(m, system) \in Seq(Stamps)
  BY ContentType, JoinedType DEF ChatSystem

LEMMA ChatShape ==
    ASSUME NEW c \in Seq(SpokenSet)
    PROVE  \E system \in Seq(Stamps), out \in Seq(MessageSet) : Chat(c) = Acc(system, NamesAfter(c), out)
<1> DEFINE U == { d \in Seq(SpokenSet) :
                    \E system \in Seq(Stamps), out \in Seq(MessageSet) :
                       Chat(d) = Acc(system, NamesAfter(d), out) }
<1>1. <<>> \in U
  <2>1. <<>> \in Seq(SpokenSet) /\ <<>> \in Seq(Stamps) /\ <<>> \in Seq(MessageSet)
    OBVIOUS
  <2>2. NamesAfter(<<>>) = NoNames
    BY CallsSaidNothing, NoNamesType, NoteNothing, Zenon DEF NamesAfter
  <2>3. Chat(<<>>) = Acc(<<>>, NamesAfter(<<>>), <<>>)
    BY <2>2, ChatNothing, Zenon
  <2> QED
    BY <2>1, <2>3, Zenon
<1>2. ASSUME NEW d \in Seq(SpokenSet), NEW m \in SpokenSet, d \in U PROVE Append(d, m) \in U
  <2>1. PICK system \in Seq(Stamps), out \in Seq(MessageSet) : Chat(d) = Acc(system, NamesAfter(d), out)
    BY <1>2
  <2>2. NamesAfter(d) \in NamesSet
    BY NamesAfterType
  <2>3. Chat(Append(d, m)) = Acc(ChatSystem(m, system), NamesAfter(Append(d, m)), out \o ChatAdds(m, NamesAfter(d)))
    BY <2>1, <2>2, ChatStep, NamesAfterAppend
  <2>4. ChatSystem(m, system) \in Seq(Stamps)
    BY ChatSystemType
  <2>5. ChatAdds(m, NamesAfter(d)) \in Seq(MessageSet)
    BY <2>2, ChatAddsType
  <2>6. out \o ChatAdds(m, NamesAfter(d)) \in Seq(MessageSet)
    BY <2>5, ConcatProperties
  <2>7. Append(d, m) \in Seq(SpokenSet)
    OBVIOUS
  <2> QED
    BY <2>3, <2>4, <2>6, <2>7, Zenon
<1> HIDE DEF U
<1>3. c \in U
  BY <1>1, <1>2, SeqInduction
<1> QED
  BY <1>3 DEF U

LEMMA ChatType ==
    ASSUME NEW c \in Seq(SpokenSet)
    PROVE  /\ ChatOut(c) \in Seq(MessageSet) /\ ChatSys(c) \in Seq(Stamps)
           /\ Chat(c) = Acc(ChatSys(c), NamesAfter(c), ChatOut(c))
<1>1. PICK system \in Seq(Stamps), out \in Seq(MessageSet) : Chat(c) = Acc(system, NamesAfter(c), out)
  BY ChatShape
<1>2. ChatOut(c) = out /\ ChatSys(c) = system
  BY <1>1 DEF ChatOut, ChatSys, Acc
<1> QED
  BY <1>1, <1>2

\* What a message adds to the upstream's messages and to the system prompt in Chat.
LEMMA ChatAppend ==
    ASSUME NEW c \in Seq(SpokenSet), NEW m \in SpokenSet
    PROVE  /\ ChatOut(Append(c, m)) = ChatOut(c) \o ChatAdds(m, NamesAfter(c))
           /\ ChatSys(Append(c, m)) = ChatSystem(m, ChatSys(c))
<1>1. /\ ChatOut(c) \in Seq(MessageSet)
      /\ Chat(c) = Acc(ChatSys(c), NamesAfter(c), ChatOut(c))
      /\ NamesAfter(c) \in NamesSet
  BY ChatType, NamesAfterType
<1>2. Chat(Append(c, m)) =
         Acc(ChatSystem(m, ChatSys(c)), Note(NamesAfter(c), CallsOf(m)), ChatOut(c) \o ChatAdds(m, NamesAfter(c)))
  BY <1>1, ChatStep
<1> QED
  BY <1>2 DEF ChatOut, ChatSys, Acc

-----------------------------------------------------------------------------
(* The Messages protocol, message by message *)

Speech(m) == OfKinds(m.blocks, {"text", "image", "call"})

MessagesAdds(m, names) ==
    IF m.role = "system" THEN <<>>
    ELSE (IF Speech(m) = <<>> THEN <<>> ELSE <<Message(m.role, Speech(m))>>) \o Results(ResultsOf(m), names)

MessagesOut(c, names) == MessagesLoop(Others(c), names)

LEMMA SpeechType == ASSUME NEW m \in SpokenSet PROVE Speech(m) \in Seq(BlockSet)
  BY BlocksType, OfKindsType DEF Speech

LEMMA MessageTypeOf ==
    ASSUME NEW role \in Roles, NEW blocks \in Seq(BlockSet)
    PROVE  Message(role, blocks) \in MessageSet
  BY DEF Message, MessageSet

LEMMA MessagesAddsType ==
    ASSUME NEW m \in SpokenSet, NEW names \in NamesSet
    PROVE  MessagesAdds(m, names) \in Seq(MessageSet)
<1>1. Message(m.role, Speech(m)) \in MessageSet
  BY SpokenRole, SpeechType, MessageTypeOf
<1>2. <<Message(m.role, Speech(m))>> \in Seq(MessageSet) /\ <<>> \in Seq(MessageSet)
  BY <1>1
<1>3. Results(ResultsOf(m), names) \in Seq(MessageSet)
  BY ResultsType, ResultsMessages
<1>4. PICK r \in Seq(MessageSet) : r = Results(ResultsOf(m), names)
  BY <1>3, Zenon
<1>5. PICK b \in Seq(MessageSet) : b = IF Speech(m) = <<>> THEN <<>> ELSE <<Message(m.role, Speech(m))>>
  BY <1>2
<1>6. b \o r \in Seq(MessageSet)
  OBVIOUS
<1> QED
  BY <1>2, <1>4, <1>5, <1>6 DEF MessagesAdds

LEMMA MessageToMessagesIs ==
    ASSUME NEW m \in SpokenSet, m.role # "system", NEW names
    PROVE  MessageToMessages(m, names) = MessagesAdds(m, names)
<1>1. m.blocks \in Seq(BlockSet)
  BY BlocksType
<1>2. /\ (Kinds \ {"thinking"}) \cap {"result"} = {"result"}
      /\ (Kinds \ {"thinking"}) \cap (Kinds \ {"result"}) = {"text", "image", "call"}
  BY DEF Kinds
<1>3. OfKinds(TranslateContentBlocks(m.blocks), {"result"}) = OfKinds(m.blocks, (Kinds \ {"thinking"}) \cap {"result"})
  BY <1>1, OfKindsTwice DEF TranslateContentBlocks
<1>4. OfKinds(TranslateContentBlocks(m.blocks), Kinds \ {"result"})
         = OfKinds(m.blocks, (Kinds \ {"thinking"}) \cap (Kinds \ {"result"}))
  BY <1>1, OfKindsTwice DEF TranslateContentBlocks
<1>5. OfKind(TranslateContentBlocks(m.blocks), "result") = ResultsOf(m)
  BY <1>2, <1>3 DEF ResultsOf, OfKind
<1>6. OfKinds(TranslateContentBlocks(m.blocks), Kinds \ {"result"}) = Speech(m)
  BY <1>2, <1>4 DEF Speech
<1> QED
  BY <1>5, <1>6, Zenon DEF MessageToMessages, MessagesAdds, Results

LEMMA MessagesLoopAppend ==
    ASSUME NEW c \in Seq(MessageSet), NEW m \in MessageSet, NEW names
    PROVE  MessagesLoop(Append(c, m), names) = MessagesLoop(c, names) \o MessageToMessages(m, names)
<1>1. Append(c, m) \in Seq(MessageSet) /\ Len(c) \in Nat /\ Len(Append(c, m)) \in Nat
  OBVIOUS
<1>2. /\ MessagesLoop(c, names) = Value("messages", c, names)
      /\ MessagesLoop(Append(c, m), names) = Value("messages", Append(c, m), names)
  BY <1>1, MessagesLoopIs
<1>3. Value("messages", Append(c, m), names) = Step("messages", Value("messages", c, names), m, names)
  BY ValueAppend
<1> QED
  BY <1>2, <1>3 DEF Step

LEMMA MessagesLoopNothing == ASSUME NEW names PROVE MessagesLoop(<<>>, names) = <<>>
<1>1. Len(<<>>) \in Nat
  OBVIOUS
<1>2. MessagesLoop(<<>>, names) = Value("messages", <<>>, names)
  BY <1>1, MessagesLoopIs
<1> QED
  BY <1>2, ValueNothing DEF Base

LEMMA OthersAppend ==
    ASSUME NEW c \in Seq(SpokenSet), NEW m \in SpokenSet
    PROVE  /\ Others(c) \in Seq(MessageSet)
           /\ m.role = "system" => Others(Append(c, m)) = Others(c)
           /\ m.role # "system" => Others(Append(c, m)) = Append(Others(c), m)
<1>1. c \in Seq(MessageSet) /\ m \in MessageSet
  BY SpokenMessages, SpokenAreMessages
<1>2. <<m>> \in Seq(MessageSet) /\ Append(c, m) = c \o <<m>>
  BY <1>1
<1>3. Others(Append(c, m)) = Others(c) \o OfRoles(<<m>>, {"user", "assistant"})
  <2>1. OfRoles(c \o <<m>>, {"user", "assistant"}) =
           OfRoles(c, {"user", "assistant"}) \o OfRoles(<<m>>, {"user", "assistant"})
    BY <1>1, <1>2, OfRolesConcat
  <2> QED
    BY <1>2, <2>1 DEF Others
<1>4. OfRoles(<<m>>, {"user", "assistant"}) = IF m.role \in {"user", "assistant"} THEN <<m>> ELSE <<>>
  BY <1>1, OfRolesOne
<1>5. Others(c) \in Seq(MessageSet)
  BY <1>1, OfRolesType DEF Others
<1>6. Others(c) \o <<m>> = Append(Others(c), m) /\ Others(c) \o <<>> = Others(c)
  BY <1>1, <1>5, AppendOne, ConcatEmptySeq, Zenon
<1> QED
  BY <1>3, <1>4, <1>5, <1>6, SpokenRole

LEMMA MessagesNothing == ASSUME NEW names PROVE MessagesOut(<<>>, names) = <<>>
  BY OfRolesNothing, MessagesLoopNothing, Zenon DEF MessagesOut, Others

LEMMA MessagesType ==
    ASSUME NEW c \in Seq(SpokenSet), NEW names \in NamesSet
    PROVE  MessagesOut(c, names) \in Seq(MessageSet)
<1> DEFINE U == { d \in Seq(SpokenSet) : MessagesOut(d, names) \in Seq(MessageSet) }
<1>1. <<>> \in U
  <2>1. <<>> \in Seq(SpokenSet) /\ <<>> \in Seq(MessageSet)
    OBVIOUS
  <2>2. MessagesOut(<<>>, names) \in Seq(MessageSet)
    BY <2>1, MessagesNothing, Zenon
  <2> QED
    BY <2>1, <2>2
<1>2. ASSUME NEW d \in Seq(SpokenSet), NEW m \in SpokenSet, d \in U PROVE Append(d, m) \in U
  <2>1. MessagesOut(d, names) \in Seq(MessageSet) /\ MessagesAdds(m, names) \in Seq(MessageSet)
    BY <1>2, MessagesAddsType
  <2>2. MessagesOut(d, names) \o MessagesAdds(m, names) \in Seq(MessageSet)
    BY <2>1
  <2>3. Append(d, m) \in Seq(SpokenSet) /\ m \in MessageSet
    BY SpokenAreMessages
  <2>4. CASE m.role = "system"
    <3>1. MessagesOut(Append(d, m), names) = MessagesOut(d, names)
      BY <2>4, OthersAppend, Zenon DEF MessagesOut
    <3> QED
      BY <2>1, <2>3, <3>1
  <2>5. CASE m.role # "system"
    <3>1. MessagesOut(Append(d, m), names) = MessagesOut(d, names) \o MessagesAdds(m, names)
      BY <2>3, <2>5, OthersAppend, MessagesLoopAppend, MessageToMessagesIs, Zenon DEF MessagesOut
    <3> QED
      BY <2>2, <2>3, <3>1
  <2> QED
    BY <2>4, <2>5
<1> HIDE DEF U
<1>3. c \in U
  BY <1>1, <1>2, SeqInduction
<1> QED
  BY <1>3 DEF U

\* What it adds in Messages, whatever the names.
LEMMA MessagesAppend ==
    ASSUME NEW c \in Seq(SpokenSet), NEW m \in SpokenSet, NEW names \in NamesSet
    PROVE  MessagesOut(Append(c, m), names) = MessagesOut(c, names) \o MessagesAdds(m, names)
<1>1. MessagesOut(c, names) \in Seq(MessageSet) /\ m \in MessageSet
  BY MessagesType, SpokenAreMessages
<1>2. CASE m.role = "system"
  <2>1. MessagesOut(Append(c, m), names) = MessagesOut(c, names)
    BY <1>2, OthersAppend, Zenon DEF MessagesOut
  <2>2. MessagesAdds(m, names) = <<>>
    BY <1>2 DEF MessagesAdds
  <2> QED
    BY <1>1, <2>1, <2>2, ConcatEmptySeq, Zenon
<1>3. CASE m.role # "system"
  BY <1>1, <1>3, OthersAppend, MessagesLoopAppend, MessageToMessagesIs, Zenon DEF MessagesOut
<1> QED
  BY <1>2, <1>3

\* Messages joins the system's texts.
LEMMA SystemTextAppend ==
    ASSUME NEW c \in Seq(SpokenSet), NEW m \in SpokenSet
    PROVE  /\ SystemText(c) \in Seq(Stamps)
           /\ m.role # "system" => SystemText(Append(c, m)) = SystemText(c)
           /\ m.role = "system" => SystemText(Append(c, m)) = SystemText(c) \o Joined(m.blocks)
<1>1. c \in Seq(MessageSet) /\ m \in MessageSet /\ m.blocks \in Seq(BlockSet)
  BY SpokenMessages, SpokenAreMessages, BlocksType
<1>2. <<m>> \in Seq(MessageSet) /\ Append(c, m) = c \o <<m>>
  BY <1>1
<1>3. OfRoles(Append(c, m), {"system"}) = OfRoles(c, {"system"}) \o OfRoles(<<m>>, {"system"})
  <2>1. OfRoles(c \o <<m>>, {"system"}) = OfRoles(c, {"system"}) \o OfRoles(<<m>>, {"system"})
    BY <1>1, <1>2, OfRolesConcat
  <2> QED
    BY <1>2, <2>1
<1>4. OfRoles(<<m>>, {"system"}) = IF m.role \in {"system"} THEN <<m>> ELSE <<>>
  BY <1>1, OfRolesOne
<1>5. OfRoles(c, {"system"}) \in Seq(MessageSet)
  BY <1>1, OfRolesType
<1>6. AllBlocks(OfRoles(c, {"system"})) \in Seq(BlockSet)
  BY <1>5, AllBlocksType
<1>7. SystemText(c) \in Seq(Stamps)
  BY <1>6, JoinedType DEF SystemText
<1>8. ASSUME m.role # "system" PROVE SystemText(Append(c, m)) = SystemText(c)
  <2>1. OfRoles(Append(c, m), {"system"}) = OfRoles(c, {"system"})
    BY <1>3, <1>4, <1>5, <1>8, ConcatEmptySeq
  <2> QED
    BY <2>1, Zenon DEF SystemText
<1>9. ASSUME m.role = "system" PROVE SystemText(Append(c, m)) = SystemText(c) \o Joined(m.blocks)
  <2>1. OfRoles(Append(c, m), {"system"}) = Append(OfRoles(c, {"system"}), m)
    <3>1. OfRoles(<<m>>, {"system"}) = <<m>>
      BY <1>4, <1>9
    <3> QED
      BY <1>1, <1>3, <1>5, <3>1, AppendOne, Zenon
  <2>2. AllBlocks(Append(OfRoles(c, {"system"}), m)) = AllBlocks(OfRoles(c, {"system"})) \o m.blocks
    BY <1>1, <1>5, AllBlocksAppend
  <2>3. Joined(AllBlocks(OfRoles(c, {"system"})) \o m.blocks) =
            Joined(AllBlocks(OfRoles(c, {"system"}))) \o Joined(m.blocks)
    BY <1>1, <1>6, JoinedConcat, Zenon
  <2> QED
    BY <2>1, <2>2, <2>3, Zenon DEF SystemText
<1> QED
  BY <1>7, <1>8, <1>9

-----------------------------------------------------------------------------
(* Responses, item by item *)

ItemTypes == {"message", "function_call", "function_call_output"}

ItemSet == [type : ItemTypes, role : Roles, blocks : Seq(BlockSet), calls : Seq(CallSet)]

Item(role, type, blocks, inside) == [type |-> type, role |-> role, blocks |-> blocks, calls |-> inside]

OutputItem(role, b) == Item(role, "function_call_output", <<b>>, <<>>)

CallItem(role, b) == Item(role, "function_call", <<b>>, <<>>)

OutputItems(role, rs) == [i \in DOMAIN rs |-> OutputItem(role, rs[i])]

CallItems(role, cs) == [i \in DOMAIN cs |-> CallItem(role, cs[i])]

CallMessage(b) == Message("assistant", <<b>>)

CallMessages(cs) == [i \in DOMAIN cs |-> CallMessage(cs[i])]

LEMMA OneMore ==
    ASSUME NEW T, NEW f \in Seq(T), NEW g \in Seq(T), NEW n \in Nat, NEW x \in T,
           DOMAIN f = 1..n, DOMAIN g = 1..n + 1, g[n + 1] = x, \A i \in 1..n : g[i] = f[i]
    PROVE  g = Append(f, x)
<1>1. Len(f) = n /\ Len(g) = n + 1
  OBVIOUS
<1> QED
  BY <1>1

LEMMA ItemTypesOf ==
    ASSUME NEW role \in Roles, NEW type \in ItemTypes, NEW blocks \in Seq(BlockSet), NEW calls \in Seq(CallSet)
    PROVE  Item(role, type, blocks, calls) \in ItemSet
  BY DEF Item, ItemSet

LEMMA OutputItemType == ASSUME NEW role \in Roles, NEW b \in ResultSet PROVE OutputItem(role, b) \in ItemSet
<1>1. <<b>> \in Seq(BlockSet) /\ <<>> \in Seq(CallSet)
  BY CallSetType
<1> QED
  BY <1>1, ItemTypesOf DEF OutputItem, ItemTypes

LEMMA CallItemType == ASSUME NEW role \in Roles, NEW b \in CallSet PROVE CallItem(role, b) \in ItemSet
<1>1. <<b>> \in Seq(BlockSet) /\ <<>> \in Seq(CallSet)
  BY CallSetType
<1> QED
  BY <1>1, ItemTypesOf DEF CallItem, ItemTypes

LEMMA CallMessageType == ASSUME NEW b \in CallSet PROVE CallMessage(b) \in MessageSet
<1>1. <<b>> \in Seq(BlockSet)
  BY CallSetType
<1> QED
  BY <1>1, MessageTypeOf DEF CallMessage, Roles

LEMMA Extended ==
    ASSUME NEW T, NEW s \in Seq(T), NEW b \in T
    PROVE  /\ Len(s) \in Nat /\ DOMAIN s = 1..Len(s) /\ DOMAIN Append(s, b) = 1..Len(s) + 1
           /\ Append(s, b)[Len(s) + 1] = b /\ \A i \in 1..Len(s) : Append(s, b)[i] = s[i]
           /\ Append(s, b) \in Seq(T)
  OBVIOUS

LEMMA OutputItemsNothing == ASSUME NEW role PROVE OutputItems(role, <<>>) = <<>>
  BY DEF OutputItems

LEMMA OutputItemsType ==
    ASSUME NEW role \in Roles, NEW rs \in Seq(ResultSet)
    PROVE  OutputItems(role, rs) \in Seq(ItemSet)
<1>1. DOMAIN rs = 1..Len(rs) /\ Len(rs) \in Nat /\ \A i \in 1..Len(rs) : rs[i] \in ResultSet
  OBVIOUS
<1>2. \A i \in 1..Len(rs) : OutputItem(role, rs[i]) \in ItemSet
  BY <1>1, OutputItemType
<1> QED
  BY <1>1, <1>2 DEF OutputItems

LEMMA OutputItemsAppend ==
    ASSUME NEW role \in Roles, NEW rs \in Seq(ResultSet), NEW b \in ResultSet
    PROVE  OutputItems(role, Append(rs, b)) = Append(OutputItems(role, rs), OutputItem(role, b))
<1> DEFINE f == OutputItems(role, rs)
           t == Append(rs, b)
           g == OutputItems(role, t)
           x == OutputItem(role, b)
<1>1. /\ Len(rs) \in Nat /\ DOMAIN rs = 1..Len(rs) /\ DOMAIN t = 1..Len(rs) + 1
      /\ t[Len(rs) + 1] = b /\ \A i \in 1..Len(rs) : t[i] = rs[i]
      /\ t \in Seq(ResultSet)
  BY Extended
<1>2. f \in Seq(ItemSet) /\ x \in ItemSet
  BY OutputItemsType, OutputItemType
<1> HIDE DEF t
<1>3. g \in Seq(ItemSet)
  BY <1>1, OutputItemsType
<1>4. /\ DOMAIN g = 1..Len(rs) + 1 /\ DOMAIN f = 1..Len(rs)
      /\ g[Len(rs) + 1] = x /\ \A i \in 1..Len(rs) : g[i] = f[i]
  BY <1>1 DEF OutputItems
<1> HIDE DEF f, g, x
<1>5. g = Append(f, x)
  BY <1>1, <1>2, <1>3, <1>4, OneMore
<1> QED
  BY <1>5 DEF f, g, t, x

LEMMA CallItemsNothing == ASSUME NEW role PROVE CallItems(role, <<>>) = <<>>
  BY DEF CallItems

LEMMA CallItemsType ==
    ASSUME NEW role \in Roles, NEW cs \in Seq(CallSet)
    PROVE  CallItems(role, cs) \in Seq(ItemSet)
<1>1. DOMAIN cs = 1..Len(cs) /\ Len(cs) \in Nat /\ \A i \in 1..Len(cs) : cs[i] \in CallSet
  OBVIOUS
<1>2. \A i \in 1..Len(cs) : CallItem(role, cs[i]) \in ItemSet
  BY <1>1, CallItemType
<1> QED
  BY <1>1, <1>2 DEF CallItems

LEMMA CallItemsAppend ==
    ASSUME NEW role \in Roles, NEW cs \in Seq(CallSet), NEW b \in CallSet
    PROVE  CallItems(role, Append(cs, b)) = Append(CallItems(role, cs), CallItem(role, b))
<1> DEFINE f == CallItems(role, cs)
           t == Append(cs, b)
           g == CallItems(role, t)
           x == CallItem(role, b)
<1>1. /\ Len(cs) \in Nat /\ DOMAIN cs = 1..Len(cs) /\ DOMAIN t = 1..Len(cs) + 1
      /\ t[Len(cs) + 1] = b /\ \A i \in 1..Len(cs) : t[i] = cs[i]
      /\ t \in Seq(CallSet)
  BY Extended
<1>2. f \in Seq(ItemSet) /\ x \in ItemSet
  BY CallItemsType, CallItemType
<1> HIDE DEF t
<1>3. g \in Seq(ItemSet)
  BY <1>1, CallItemsType
<1>4. /\ DOMAIN g = 1..Len(cs) + 1 /\ DOMAIN f = 1..Len(cs)
      /\ g[Len(cs) + 1] = x /\ \A i \in 1..Len(cs) : g[i] = f[i]
  BY <1>1 DEF CallItems
<1> HIDE DEF f, g, x
<1>5. g = Append(f, x)
  BY <1>1, <1>2, <1>3, <1>4, OneMore
<1> QED
  BY <1>5 DEF f, g, t, x

LEMMA CallMessagesNothing == CallMessages(<<>>) = <<>>
  BY DEF CallMessages

LEMMA CallMessagesType ==
    ASSUME NEW cs \in Seq(CallSet) PROVE CallMessages(cs) \in Seq(MessageSet)
<1>1. DOMAIN cs = 1..Len(cs) /\ Len(cs) \in Nat /\ \A i \in 1..Len(cs) : cs[i] \in CallSet
  OBVIOUS
<1>2. \A i \in 1..Len(cs) : CallMessage(cs[i]) \in MessageSet
  BY <1>1, CallMessageType
<1> QED
  BY <1>1, <1>2 DEF CallMessages

LEMMA CallMessagesAppend ==
    ASSUME NEW cs \in Seq(CallSet), NEW b \in CallSet
    PROVE  CallMessages(Append(cs, b)) = Append(CallMessages(cs), CallMessage(b))
<1> DEFINE f == CallMessages(cs)
           t == Append(cs, b)
           g == CallMessages(t)
           x == CallMessage(b)
<1>1. /\ Len(cs) \in Nat /\ DOMAIN cs = 1..Len(cs) /\ DOMAIN t = 1..Len(cs) + 1
      /\ t[Len(cs) + 1] = b /\ \A i \in 1..Len(cs) : t[i] = cs[i]
      /\ t \in Seq(CallSet)
  BY Extended
<1>2. f \in Seq(MessageSet) /\ x \in MessageSet
  BY CallMessagesType, CallMessageType
<1> HIDE DEF t
<1>3. g \in Seq(MessageSet)
  BY <1>1, CallMessagesType
<1>4. /\ DOMAIN g = 1..Len(cs) + 1 /\ DOMAIN f = 1..Len(cs)
      /\ g[Len(cs) + 1] = x /\ \A i \in 1..Len(cs) : g[i] = f[i]
  BY <1>1 DEF CallMessages
<1> HIDE DEF f, g, x
<1>5. g = Append(f, x)
  BY <1>1, <1>2, <1>3, <1>4, OneMore
<1> QED
  BY <1>5 DEF f, g, t, x

RAcc(names, out) == [ok |-> TRUE, system |-> <<>>, names |-> names, out |-> out]

LEMMA AppendItem ==
    ASSUME NEW s \in Seq(ItemSet), NEW t \in Seq(ItemSet), NEW x \in ItemSet
    PROVE  /\ s \o t \in Seq(ItemSet) /\ Append(t, x) \in Seq(ItemSet)
           /\ Append(s \o t, x) = s \o Append(t, x)
  OBVIOUS

LEMMA ResponsesLoopAppend ==
    ASSUME NEW w \in Seq(ItemSet), NEW x \in ItemSet
    PROVE  ResponsesLoop(Append(w, x)) = TranslateInputItem(ResponsesLoop(w), x)
<1>1. Append(w, x) \in Seq(ItemSet) /\ Len(w) \in Nat /\ Len(Append(w, x)) \in Nat
  OBVIOUS
<1>2. /\ ResponsesLoop(w) = Value("responses", w, Blank)
      /\ ResponsesLoop(Append(w, x)) = Value("responses", Append(w, x), Blank)
  BY <1>1, ResponsesLoopIs
<1>3. Value("responses", Append(w, x), Blank) = Step("responses", Value("responses", w, Blank), x, Blank)
  BY ValueAppend
<1> QED
  BY <1>2, <1>3 DEF Step

LEMMA ResponsesLoopNothing == ResponsesLoop(<<>>) = RAcc(NoNames, <<>>)
<1>1. Len(<<>>) \in Nat
  OBVIOUS
<1>2. ResponsesLoop(<<>>) = Value("responses", <<>>, Blank)
  BY <1>1, ResponsesLoopIs
<1> QED
  BY <1>2, ValueNothing DEF Base, RAcc

\* A refused request stays refused.
LEMMA RefusedAsAWhole ==
    ASSUME NEW acc, NEW item, ~acc.ok
    PROVE  TranslateInputItem(acc, item) = acc
  BY DEF TranslateInputItem

LEMMA AcceptedBefore ==
    ASSUME NEW w \in Seq(ItemSet), NEW v \in Seq(ItemSet), ResponsesLoop(w \o v).ok
    PROVE  ResponsesLoop(w).ok
<1> DEFINE U == { u \in Seq(ItemSet) : ResponsesLoop(w \o u).ok => ResponsesLoop(w).ok }
<1>1. <<>> \in U
  <2>1. <<>> \in Seq(ItemSet) /\ w \o <<>> = w
    BY ConcatEmptySeq
  <2> QED
    BY <2>1, Zenon
<1>2. ASSUME NEW u \in Seq(ItemSet), NEW x \in ItemSet, u \in U PROVE Append(u, x) \in U
  <2>1. w \o u \in Seq(ItemSet) /\ Append(w \o u, x) = w \o Append(u, x) /\ Append(u, x) \in Seq(ItemSet)
    BY AppendItem
  <2>2. ResponsesLoop(w \o Append(u, x)) = TranslateInputItem(ResponsesLoop(w \o u), x)
    BY <2>1, ResponsesLoopAppend
  <2>3. ResponsesLoop(w \o Append(u, x)).ok => ResponsesLoop(w \o u).ok
    BY <2>2, RefusedAsAWhole
  <2> QED
    BY <1>2, <2>1, <2>3
<1> HIDE DEF U
<1>3. v \in U
  BY <1>1, <1>2, SeqInduction
<1> QED
  BY <1>3 DEF U

LEMMA OfOutput ==
    ASSUME NEW names, NEW out, NEW role, NEW b
    PROVE  LET after == TranslateInputItem(RAcc(names, out), OutputItem(role, b))
           IN  after.ok => /\ after = RAcc(names, Append(out, Result(b, names)))
                           /\ names[b.id] # "unknown"
  BY DEF TranslateInputItem, RAcc, OutputItem, Item

LEMMA OfCall ==
    ASSUME NEW names, NEW out, NEW role, NEW b
    PROVE  TranslateInputItem(RAcc(names, out), CallItem(role, b)) =
             RAcc(Note(names, <<b>>), Append(out, CallMessage(b)))
  BY DEF TranslateInputItem, RAcc, CallItem, Item, CallMessage

LEMMA OfContent ==
    ASSUME NEW names, NEW out, NEW role, NEW blocks, NEW calls
    PROVE  LET item == Item(role, "message", blocks, calls)
               after == TranslateInputItem(RAcc(names, out), item)
           IN  after.ok => /\ after = RAcc(Note(names, calls), Append(out, Message(role, NonEmpty(blocks) \o calls)))
                           /\ ~Unsupported(item)
  BY DEF TranslateInputItem, RAcc, Item

Known(rs, names) == \A i \in DOMAIN rs : names[rs[i].id] # "unknown"

LEMMA OfOutputs ==
    ASSUME NEW names \in NamesSet, NEW out \in Seq(MessageSet), NEW w \in Seq(ItemSet), NEW role \in Roles,
           ResponsesLoop(w) = RAcc(names, out), NEW rs \in Seq(ResultSet),
           ResponsesLoop(w \o OutputItems(role, rs)).ok
    PROVE  /\ ResponsesLoop(w \o OutputItems(role, rs)) = RAcc(names, out \o Results(rs, names))
           /\ Known(rs, names)
<1> DEFINE At(s) == w \o OutputItems(role, s)
           After(s) == RAcc(names, out \o Results(s, names))
           U == { s \in Seq(ResultSet) :
                    ResponsesLoop(At(s)).ok => ResponsesLoop(At(s)) = After(s) /\ Known(s, names) }
<1>1. <<>> \in U
  <2>1. w \o <<>> = w /\ out \o <<>> = out
    BY ConcatEmptySeq
  <2>2. ResponsesLoop(At(<<>>)) = After(<<>>)
    BY <2>1, OutputItemsNothing, ResultsNothing, Zenon
  <2>3. Known(<<>>, names)
    BY DEF Known
  <2> QED
    BY <2>2, <2>3
<1>2. ASSUME NEW s \in Seq(ResultSet), NEW b \in ResultSet, s \in U PROVE Append(s, b) \in U
  <2>1. /\ OutputItems(role, s) \in Seq(ItemSet) /\ OutputItem(role, b) \in ItemSet
        /\ OutputItems(role, Append(s, b)) = Append(OutputItems(role, s), OutputItem(role, b))
    BY OutputItemsType, OutputItemType, OutputItemsAppend
  <2>2. At(s) \in Seq(ItemSet) /\ At(Append(s, b)) = Append(At(s), OutputItem(role, b))
    BY <2>1, AppendItem, Zenon
  <2>3. ResponsesLoop(At(Append(s, b))) = TranslateInputItem(ResponsesLoop(At(s)), OutputItem(role, b))
    BY <2>1, <2>2, ResponsesLoopAppend, Zenon
  <2> HIDE DEF At
  <2>4. SUFFICES ASSUME ResponsesLoop(At(Append(s, b))).ok
                 PROVE  ResponsesLoop(At(Append(s, b))) = After(Append(s, b)) /\ Known(Append(s, b), names)
    <3>1. Append(s, b) \in Seq(ResultSet)
      OBVIOUS
    <3> QED
      BY <3>1
  <2>5. ResponsesLoop(At(s)).ok
    BY <2>3, <2>4, RefusedAsAWhole
  <2>6. ResponsesLoop(At(s)) = After(s) /\ Known(s, names)
    BY <1>2, <2>5
  <2>7. Results(s, names) \in Seq(MessageSet) /\ Result(b, names) \in MessageSet
    BY ResultsMessages, ResultType
  <2>8. /\ ResponsesLoop(At(Append(s, b))) =
             RAcc(names, Append(out \o Results(s, names), Result(b, names)))
        /\ names[b.id] # "unknown"
    BY <2>3, <2>4, <2>6, OfOutput
  <2>9. Append(out \o Results(s, names), Result(b, names)) = out \o Results(Append(s, b), names)
    BY <2>7, AppendMessage, ResultsAppend, Zenon
  <2>10. Known(Append(s, b), names)
    BY <2>6, <2>8, Extended DEF Known
  <2> QED
    BY <2>8, <2>9, <2>10, Zenon
<1> HIDE DEF U
<1>3. rs \in U
  BY <1>1, <1>2, SeqInduction
<1> QED
  BY <1>3 DEF U

LEMMA OfCalls ==
    ASSUME NEW names \in NamesSet, NEW out \in Seq(MessageSet), NEW w \in Seq(ItemSet), NEW role \in Roles,
           ResponsesLoop(w) = RAcc(names, out), NEW cs \in Seq(CallSet)
    PROVE  ResponsesLoop(w \o CallItems(role, cs)) = RAcc(Note(names, cs), out \o CallMessages(cs))
<1> DEFINE At(s) == w \o CallItems(role, s)
           After(s) == RAcc(Note(names, s), out \o CallMessages(s))
           U == { s \in Seq(CallSet) : ResponsesLoop(At(s)) = After(s) }
<1>1. <<>> \in U
  <2>1. w \o <<>> = w /\ out \o <<>> = out /\ Note(names, <<>>) = names
    BY ConcatEmptySeq, NoteNothing
  <2>2. ResponsesLoop(At(<<>>)) = After(<<>>)
    BY <2>1, CallItemsNothing, CallMessagesNothing, Zenon
  <2> QED
    BY <2>2
<1>2. ASSUME NEW s \in Seq(CallSet), NEW b \in CallSet, s \in U PROVE Append(s, b) \in U
  <2>1. /\ CallItems(role, s) \in Seq(ItemSet) /\ CallItem(role, b) \in ItemSet
        /\ CallItems(role, Append(s, b)) = Append(CallItems(role, s), CallItem(role, b))
    BY CallItemsType, CallItemType, CallItemsAppend
  <2>2. At(s) \in Seq(ItemSet) /\ At(Append(s, b)) = Append(At(s), CallItem(role, b))
    BY <2>1, AppendItem, Zenon
  <2>3. ResponsesLoop(At(Append(s, b))) = TranslateInputItem(ResponsesLoop(At(s)), CallItem(role, b))
    BY <2>1, <2>2, ResponsesLoopAppend, Zenon
  <2> HIDE DEF At
  <2>4. ResponsesLoop(At(s)) = After(s)
    BY <1>2
  <2>5. CallMessages(s) \in Seq(MessageSet) /\ CallMessage(b) \in MessageSet
    BY CallMessagesType, CallMessageType
  <2>6. ResponsesLoop(At(Append(s, b))) =
             RAcc(Note(Note(names, s), <<b>>), Append(out \o CallMessages(s), CallMessage(b)))
    BY <2>3, <2>4, OfCall
  <2>7. Append(out \o CallMessages(s), CallMessage(b)) = out \o CallMessages(Append(s, b))
    BY <2>5, AppendMessage, CallMessagesAppend, Zenon
  <2>8. Note(Note(names, s), <<b>>) = Note(names, Append(s, b))
    <3>1. <<b>> \in Seq(CallSet) /\ Append(s, b) = s \o <<b>>
      OBVIOUS
    <3>2. Note(Note(names, s), <<b>>) = Note(names, s \o <<b>>)
      BY <3>1, NoteMore
    <3> QED
      BY <3>1, <3>2
  <2>9. Append(s, b) \in Seq(CallSet)
    OBVIOUS
  <2>10. ResponsesLoop(At(Append(s, b))) = After(Append(s, b))
    BY <2>6, <2>7, <2>8, Zenon
  <2> QED
    BY <2>9, <2>10
<1> HIDE DEF U
<1>3. cs \in U
  BY <1>1, <1>2, SeqInduction
<1> QED
  BY <1>3 DEF U

Inside(m) == IF embedded THEN CallsOf(m) ELSE <<>>

Apart(m) == IF embedded THEN <<>> ELSE CallsOf(m)

Accompanied(m) == ~(Content(m) = <<>> /\ (ResultsOf(m) # <<>> \/ (CallsOf(m) # <<>> /\ ~embedded)))

ContentItem(m) == Item(m.role, "message", Content(m), Inside(m))

ContentMessage(m) == Message(m.role, NonEmpty(Content(m)) \o Inside(m))

ToItemsOf(m) ==
    (OutputItems(m.role, ResultsOf(m)) \o (IF Accompanied(m) THEN <<ContentItem(m)>> ELSE <<>>))
    \o CallItems(m.role, Apart(m))

ResponsesAdds(m, names) ==
    (Results(ResultsOf(m), names) \o (IF Accompanied(m) THEN <<ContentMessage(m)>> ELSE <<>>))
    \o CallMessages(Apart(m))

Sendable(m, names) ==
    /\ Known(ResultsOf(m), names)
    /\ Accompanied(m) => ~Unsupported(ContentItem(m))

\* What a Responses client sends for a message: results, the message, calls of their own.
LEMMA ToItemsIs == ASSUME NEW m PROVE ToItems(m) = ToItemsOf(m)
<1>1. CASE embedded
  BY <1>1, CallItemsNothing
     DEF ToItems, ToItemsOf, OutputItems, OutputItem, Item, Accompanied, ContentItem, Inside, Apart,
         Content, ResultsOf, CallsOf
<1>2. CASE ~embedded
  BY <1>2 DEF ToItems, ToItemsOf, OutputItems, OutputItem, CallItems, CallItem, Item, Accompanied,
              ContentItem, Inside, Apart, Content, ResultsOf, CallsOf
<1> QED
  BY <1>1, <1>2

LEMMA InsideType == ASSUME NEW m \in SpokenSet PROVE Inside(m) \in Seq(CallSet) /\ Apart(m) \in Seq(CallSet)
<1>1. <<>> \in Seq(CallSet) /\ CallsOf(m) \in Seq(CallSet)
  BY CallsType
<1> QED
  BY <1>1 DEF Inside, Apart

LEMMA ContentItemType == ASSUME NEW m \in SpokenSet PROVE ContentItem(m) \in ItemSet
  BY SpokenRole, ContentType, InsideType, ItemTypesOf DEF ContentItem, ItemTypes

LEMMA NonEmptyType == ASSUME NEW s \in Seq(BlockSet) PROVE NonEmpty(s) \in Seq(BlockSet)
  BY NonEmptyIs, OnlyKeeps

LEMMA ContentMessageType == ASSUME NEW m \in SpokenSet PROVE ContentMessage(m) \in MessageSet
<1>1. NonEmpty(Content(m)) \in Seq(BlockSet) /\ Inside(m) \in Seq(BlockSet)
  BY ContentType, NonEmptyType, InsideType, CallsAreBlocks
<1>2. NonEmpty(Content(m)) \o Inside(m) \in Seq(BlockSet)
  BY <1>1
<1> QED
  BY <1>2, SpokenRole, MessageTypeOf DEF ContentMessage

LEMMA ItemPartsType ==
    ASSUME NEW m \in SpokenSet
    PROVE  /\ OutputItems(m.role, ResultsOf(m)) \in Seq(ItemSet)
           /\ (IF Accompanied(m) THEN <<ContentItem(m)>> ELSE <<>>) \in Seq(ItemSet)
           /\ CallItems(m.role, Apart(m)) \in Seq(ItemSet)
<1>1. OutputItems(m.role, ResultsOf(m)) \in Seq(ItemSet)
  BY SpokenRole, ResultsType, OutputItemsType
<1>2. <<ContentItem(m)>> \in Seq(ItemSet) /\ <<>> \in Seq(ItemSet)
  BY ContentItemType
<1>3. CallItems(m.role, Apart(m)) \in Seq(ItemSet)
  BY SpokenRole, InsideType, CallItemsType
<1> QED
  BY <1>1, <1>2, <1>3

LEMMA ItemsConcat ==
    ASSUME NEW s \in Seq(ItemSet), NEW t \in Seq(ItemSet), NEW u \in Seq(ItemSet), NEW w \in Seq(ItemSet)
    PROVE  /\ s \o t \in Seq(ItemSet) /\ (s \o t) \o u \in Seq(ItemSet)
           /\ w \o ((s \o t) \o u) = ((w \o s) \o t) \o u
           /\ w \o s \in Seq(ItemSet) /\ (w \o s) \o t \in Seq(ItemSet)
  OBVIOUS

LEMMA MessagesConcat ==
    ASSUME NEW s \in Seq(MessageSet), NEW t \in Seq(MessageSet), NEW u \in Seq(MessageSet), NEW w \in Seq(MessageSet)
    PROVE  /\ s \o t \in Seq(MessageSet) /\ (s \o t) \o u \in Seq(MessageSet)
           /\ w \o ((s \o t) \o u) = ((w \o s) \o t) \o u
           /\ w \o s \in Seq(MessageSet) /\ (w \o s) \o t \in Seq(MessageSet)
  OBVIOUS

LEMMA ToItemsType == ASSUME NEW m \in SpokenSet PROVE ToItems(m) \in Seq(ItemSet)
  BY ItemPartsType, ItemsConcat, ToItemsIs, Zenon DEF ToItemsOf

LEMMA ResponsesPartsType ==
    ASSUME NEW m \in SpokenSet, NEW names \in NamesSet
    PROVE  /\ Results(ResultsOf(m), names) \in Seq(MessageSet)
           /\ (IF Accompanied(m) THEN <<ContentMessage(m)>> ELSE <<>>) \in Seq(MessageSet)
           /\ CallMessages(Apart(m)) \in Seq(MessageSet)
<1>1. Results(ResultsOf(m), names) \in Seq(MessageSet)
  BY ResultsType, ResultsMessages
<1>2. <<ContentMessage(m)>> \in Seq(MessageSet) /\ <<>> \in Seq(MessageSet)
  BY ContentMessageType
<1>3. CallMessages(Apart(m)) \in Seq(MessageSet)
  BY InsideType, CallMessagesType
<1> QED
  BY <1>1, <1>2, <1>3

LEMMA ResponsesAddsType ==
    ASSUME NEW m \in SpokenSet, NEW names \in NamesSet
    PROVE  ResponsesAdds(m, names) \in Seq(MessageSet)
  BY ResponsesPartsType, MessagesConcat, Zenon DEF ResponsesAdds

LEMMA OfContentItem ==
    ASSUME NEW w \in Seq(ItemSet), NEW m \in SpokenSet, NEW names \in NamesSet, NEW out \in Seq(MessageSet),
           ResponsesLoop(w) = RAcc(names, out),
           ResponsesLoop(w \o (IF Accompanied(m) THEN <<ContentItem(m)>> ELSE <<>>)).ok
    PROVE  /\ ResponsesLoop(w \o (IF Accompanied(m) THEN <<ContentItem(m)>> ELSE <<>>)) =
                RAcc(IF Accompanied(m) THEN Note(names, Inside(m)) ELSE names,
                     out \o (IF Accompanied(m) THEN <<ContentMessage(m)>> ELSE <<>>))
           /\ Accompanied(m) => ~Unsupported(ContentItem(m))
<1>1. CASE Accompanied(m)
  <2>1. ContentItem(m) \in ItemSet /\ ContentMessage(m) \in MessageSet
    BY ContentItemType, ContentMessageType
  <2>2. w \o <<ContentItem(m)>> = Append(w, ContentItem(m)) /\ out \o <<ContentMessage(m)>> = Append(out, ContentMessage(m))
    BY <2>1
  <2>3. ResponsesLoop(w \o <<ContentItem(m)>>) = TranslateInputItem(RAcc(names, out), ContentItem(m))
    BY <2>1, <2>2, ResponsesLoopAppend
  <2>4. TranslateInputItem(RAcc(names, out), ContentItem(m)).ok
    BY <1>1, <2>3
  <2>5. /\ TranslateInputItem(RAcc(names, out), ContentItem(m)) =
              RAcc(Note(names, Inside(m)), Append(out, ContentMessage(m)))
        /\ ~Unsupported(ContentItem(m))
    BY <2>4, OfContent DEF ContentItem, ContentMessage
  <2> QED
    BY <1>1, <2>2, <2>3, <2>5
<1>2. CASE ~Accompanied(m)
  <2>1. w \o <<>> = w /\ out \o <<>> = out
    BY ConcatEmptySeq
  <2> QED
    BY <1>2, <2>1
<1> QED
  BY <1>1, <1>2

LEMMA NotedInParts ==
    ASSUME NEW m \in SpokenSet, NEW names \in NamesSet
    PROVE  Note(IF Accompanied(m) THEN Note(names, Inside(m)) ELSE names, Apart(m)) = Note(names, CallsOf(m))
<1>0. CallsOf(m) \in Seq(CallSet)
  BY CallsType
<1>1. CASE embedded
  <2>1. Inside(m) = CallsOf(m) /\ Apart(m) = <<>>
    BY <1>1 DEF Inside, Apart
  <2>2. Note(names, CallsOf(m)) \in NamesSet
    BY <1>0, NoteType
  <2>3. CASE Accompanied(m)
    BY <2>1, <2>2, <2>3, NoteNothing, Zenon
  <2>4. CASE ~Accompanied(m)
    <3>1. ResultsOf(m) # <<>>
      BY <1>1, <2>4 DEF Accompanied
    <3>2. CallsOf(m) = <<>>
      BY <3>1, ResultsType, CallsType, SpokenRole
    <3> QED
      BY <2>1, <2>4, <3>2, Zenon
  <2> QED
    BY <2>3, <2>4
<1>2. CASE ~embedded
  <2>1. Inside(m) = <<>> /\ Apart(m) = CallsOf(m)
    BY <1>2 DEF Inside, Apart
  <2> QED
    BY <2>1, NoteNothing, Zenon
<1> QED
  BY <1>1, <1>2

LEMMA ResponsesStepOf ==
    ASSUME NEW w \in Seq(ItemSet), NEW m \in SpokenSet, NEW names \in NamesSet, NEW out \in Seq(MessageSet),
           ResponsesLoop(w) = RAcc(names, out), ResponsesLoop(w \o ToItems(m)).ok
    PROVE  /\ ResponsesLoop(w \o ToItems(m)) = RAcc(Note(names, CallsOf(m)), out \o ResponsesAdds(m, names))
           /\ Sendable(m, names)
<1> DEFINE a == OutputItems(m.role, ResultsOf(m))
           b == IF Accompanied(m) THEN <<ContentItem(m)>> ELSE <<>>
           d == CallItems(m.role, Apart(m))
           ra == Results(ResultsOf(m), names)
           rb == IF Accompanied(m) THEN <<ContentMessage(m)>> ELSE <<>>
           rd == CallMessages(Apart(m))
           noted == IF Accompanied(m) THEN Note(names, Inside(m)) ELSE names
<1>1. a \in Seq(ItemSet) /\ b \in Seq(ItemSet) /\ d \in Seq(ItemSet)
  BY ItemPartsType, Zenon
<1>2. ra \in Seq(MessageSet) /\ rb \in Seq(MessageSet) /\ rd \in Seq(MessageSet)
  BY ResponsesPartsType, Zenon
<1>3. noted \in NamesSet
  BY InsideType, NoteType
<1>4. ToItems(m) = (a \o b) \o d /\ ResponsesAdds(m, names) = (ra \o rb) \o rd
  BY ToItemsIs, Zenon DEF ToItemsOf, ResponsesAdds
<1>5. Note(noted, Apart(m)) = Note(names, CallsOf(m))
  BY NotedInParts
<1>6. ASSUME ResponsesLoop(w \o a).ok
      PROVE  ResponsesLoop(w \o a) = RAcc(names, out \o ra) /\ Known(ResultsOf(m), names)
  BY <1>6, SpokenRole, ResultsType, OfOutputs
<1>7. ASSUME NEW v \in Seq(ItemSet), NEW o \in Seq(MessageSet), ResponsesLoop(v) = RAcc(names, o),
             ResponsesLoop(v \o b).ok
      PROVE  ResponsesLoop(v \o b) = RAcc(noted, o \o rb) /\ (Accompanied(m) => ~Unsupported(ContentItem(m)))
  BY <1>7, OfContentItem, Zenon
<1>8. ASSUME NEW v \in Seq(ItemSet), NEW o \in Seq(MessageSet), ResponsesLoop(v) = RAcc(noted, o)
      PROVE  ResponsesLoop(v \o d) = RAcc(Note(noted, Apart(m)), o \o rd)
  BY <1>3, <1>8, SpokenRole, InsideType, OfCalls
<1> HIDE DEF a, b, d, ra, rb, rd, noted
<1>9. /\ w \o ToItems(m) = ((w \o a) \o b) \o d /\ w \o a \in Seq(ItemSet) /\ (w \o a) \o b \in Seq(ItemSet)
  <2>1. /\ w \o ((a \o b) \o d) = ((w \o a) \o b) \o d
        /\ w \o a \in Seq(ItemSet) /\ (w \o a) \o b \in Seq(ItemSet)
    BY <1>1
  <2> QED
    BY <1>4, <2>1, Zenon
<1>10. /\ out \o ResponsesAdds(m, names) = ((out \o ra) \o rb) \o rd
       /\ out \o ra \in Seq(MessageSet) /\ (out \o ra) \o rb \in Seq(MessageSet)
  <2>1. /\ out \o ((ra \o rb) \o rd) = ((out \o ra) \o rb) \o rd
        /\ out \o ra \in Seq(MessageSet) /\ (out \o ra) \o rb \in Seq(MessageSet)
    BY <1>2
  <2> QED
    BY <1>4, <2>1, Zenon
<1>11. ResponsesLoop((w \o a) \o b).ok
  BY <1>1, <1>9, AcceptedBefore
<1>12. ResponsesLoop(w \o a).ok
  BY <1>1, <1>9, <1>11, AcceptedBefore
<1>13. ResponsesLoop(w \o a) = RAcc(names, out \o ra) /\ Known(ResultsOf(m), names)
  BY <1>6, <1>12
<1>14. /\ ResponsesLoop((w \o a) \o b) = RAcc(noted, (out \o ra) \o rb)
       /\ Accompanied(m) => ~Unsupported(ContentItem(m))
  BY <1>7, <1>9, <1>10, <1>11, <1>13
<1>15. ResponsesLoop(((w \o a) \o b) \o d) = RAcc(Note(noted, Apart(m)), ((out \o ra) \o rb) \o rd)
  BY <1>8, <1>9, <1>10, <1>14
<1> QED
  BY <1>5, <1>9, <1>10, <1>13, <1>14, <1>15, Zenon DEF Sendable

ResponsesOut(c) == Responses(c).out

LEMMA ResponsesInputNothing == ResponsesInput(<<>>) = <<>>
<1>1. Len(<<>>) \in Nat
  OBVIOUS
<1>2. ResponsesInput(<<>>) = Value("input", <<>>, Blank)
  BY <1>1, ResponsesInputIs
<1> QED
  BY <1>2, ValueNothing DEF Base

LEMMA ResponsesInputAppend ==
    ASSUME NEW c \in Seq(SpokenSet), NEW m \in SpokenSet
    PROVE  ResponsesInput(Append(c, m)) = ResponsesInput(c) \o ToItems(m)
<1>1. Append(c, m) \in Seq(SpokenSet) /\ Len(c) \in Nat /\ Len(Append(c, m)) \in Nat
  OBVIOUS
<1>2. ResponsesInput(c) = Value("input", c, Blank) /\ ResponsesInput(Append(c, m)) = Value("input", Append(c, m), Blank)
  BY <1>1, ResponsesInputIs
<1>3. Value("input", Append(c, m), Blank) = Step("input", Value("input", c, Blank), m, Blank)
  BY ValueAppend
<1> QED
  BY <1>2, <1>3 DEF Step

LEMMA ResponsesInputType == ASSUME NEW c \in Seq(SpokenSet) PROVE ResponsesInput(c) \in Seq(ItemSet)
<1> DEFINE U == { d \in Seq(SpokenSet) : ResponsesInput(d) \in Seq(ItemSet) }
<1>1. <<>> \in U
  <2>1. <<>> \in Seq(SpokenSet) /\ <<>> \in Seq(ItemSet)
    OBVIOUS
  <2>2. ResponsesInput(<<>>) \in Seq(ItemSet)
    BY <2>1, ResponsesInputNothing, Zenon
  <2> QED
    BY <2>1, <2>2
<1>2. ASSUME NEW d \in Seq(SpokenSet), NEW m \in SpokenSet, d \in U PROVE Append(d, m) \in U
  <2>1. ResponsesInput(d) \in Seq(ItemSet) /\ ToItems(m) \in Seq(ItemSet)
    BY <1>2, ToItemsType
  <2>2. ResponsesInput(d) \o ToItems(m) \in Seq(ItemSet)
    BY <2>1
  <2>3. Append(d, m) \in Seq(SpokenSet)
    OBVIOUS
  <2> QED
    BY <2>2, <2>3, ResponsesInputAppend
<1> HIDE DEF U
<1>3. c \in U
  BY <1>1, <1>2, SeqInduction
<1> QED
  BY <1>3 DEF U

LEMMA ResponsesNothing == Responses(<<>>) = RAcc(NoNames, <<>>)
  BY ResponsesInputNothing, ResponsesLoopNothing, Zenon DEF Responses

LEMMA ResponsesBefore ==
    ASSUME NEW c \in Seq(SpokenSet), NEW m \in SpokenSet, Responses(Append(c, m)).ok
    PROVE  Responses(c).ok
<1>1. ResponsesInput(c) \in Seq(ItemSet) /\ ToItems(m) \in Seq(ItemSet)
  BY ResponsesInputType, ToItemsType
<1>2. ResponsesLoop(ResponsesInput(c) \o ToItems(m)).ok
  BY ResponsesInputAppend DEF Responses
<1> QED
  BY <1>1, <1>2, AcceptedBefore DEF Responses

LEMMA ResponsesStep ==
    ASSUME NEW c \in Seq(SpokenSet), NEW m \in SpokenSet, Responses(Append(c, m)).ok,
           NEW names \in NamesSet, NEW out \in Seq(MessageSet), Responses(c) = RAcc(names, out)
    PROVE  /\ Responses(Append(c, m)) = RAcc(Note(names, CallsOf(m)), out \o ResponsesAdds(m, names))
           /\ Sendable(m, names)
<1>1. ResponsesInput(c) \in Seq(ItemSet) /\ ResponsesInput(Append(c, m)) = ResponsesInput(c) \o ToItems(m)
  BY ResponsesInputType, ResponsesInputAppend
<1>2. ResponsesLoop(ResponsesInput(c) \o ToItems(m)).ok /\ ResponsesLoop(ResponsesInput(c)) = RAcc(names, out)
  BY <1>1 DEF Responses
<1>3. /\ ResponsesLoop(ResponsesInput(c) \o ToItems(m)) = RAcc(Note(names, CallsOf(m)), out \o ResponsesAdds(m, names))
      /\ Sendable(m, names)
  BY <1>1, <1>2, ResponsesStepOf
<1> QED
  BY <1>1, <1>3 DEF Responses

LEMMA ResponsesShape ==
    ASSUME NEW c \in Seq(SpokenSet), Responses(c).ok
    PROVE  \E out \in Seq(MessageSet) : Responses(c) = RAcc(NamesAfter(c), out)
<1> DEFINE U == { d \in Seq(SpokenSet) :
                    Responses(d).ok => \E out \in Seq(MessageSet) : Responses(d) = RAcc(NamesAfter(d), out) }
<1>1. <<>> \in U
  <2>1. <<>> \in Seq(SpokenSet) /\ <<>> \in Seq(MessageSet)
    OBVIOUS
  <2>2. NamesAfter(<<>>) = NoNames
    BY CallsSaidNothing, NoNamesType, NoteNothing, Zenon DEF NamesAfter
  <2>3. Responses(<<>>) = RAcc(NamesAfter(<<>>), <<>>)
    BY <2>2, ResponsesNothing, Zenon
  <2> QED
    BY <2>1, <2>3, Zenon
<1>2. ASSUME NEW d \in Seq(SpokenSet), NEW m \in SpokenSet, d \in U PROVE Append(d, m) \in U
  <2>1. SUFFICES ASSUME Responses(Append(d, m)).ok
                 PROVE  \E out \in Seq(MessageSet) : Responses(Append(d, m)) = RAcc(NamesAfter(Append(d, m)), out)
    <3>1. Append(d, m) \in Seq(SpokenSet)
      OBVIOUS
    <3> QED
      BY <3>1
  <2>2. Responses(d).ok
    BY <2>1, ResponsesBefore
  <2>3. PICK out \in Seq(MessageSet) : Responses(d) = RAcc(NamesAfter(d), out)
    BY <1>2, <2>2
  <2>4. NamesAfter(d) \in NamesSet
    BY NamesAfterType
  <2>5. Responses(Append(d, m)) = RAcc(NamesAfter(Append(d, m)), out \o ResponsesAdds(m, NamesAfter(d)))
    BY <2>1, <2>3, <2>4, ResponsesStep, NamesAfterAppend
  <2>6. ResponsesAdds(m, NamesAfter(d)) \in Seq(MessageSet)
    BY <2>4, ResponsesAddsType
  <2>7. out \o ResponsesAdds(m, NamesAfter(d)) \in Seq(MessageSet)
    BY <2>6, ConcatProperties
  <2> QED
    BY <2>5, <2>7, Zenon
<1> HIDE DEF U
<1>3. c \in U
  BY <1>1, <1>2, SeqInduction
<1> QED
  BY <1>3 DEF U

LEMMA ResponsesType ==
    ASSUME NEW c \in Seq(SpokenSet), Responses(c).ok
    PROVE  ResponsesOut(c) \in Seq(MessageSet) /\ Responses(c) = RAcc(NamesAfter(c), ResponsesOut(c))
<1>1. PICK out \in Seq(MessageSet) : Responses(c) = RAcc(NamesAfter(c), out)
  BY ResponsesShape
<1>2. ResponsesOut(c) = out
  BY <1>1 DEF ResponsesOut, RAcc
<1> QED
  BY <1>1, <1>2

\* What a message adds in Responses, and what a request that is accepted has been checked for.
LEMMA ResponsesAppend ==
    ASSUME NEW c \in Seq(SpokenSet), NEW m \in SpokenSet, Responses(Append(c, m)).ok
    PROVE  /\ Responses(c).ok
           /\ ResponsesOut(Append(c, m)) = ResponsesOut(c) \o ResponsesAdds(m, NamesAfter(c))
           /\ Sendable(m, NamesAfter(c))
<1>1. Responses(c).ok
  BY ResponsesBefore
<1>2. ResponsesOut(c) \in Seq(MessageSet) /\ Responses(c) = RAcc(NamesAfter(c), ResponsesOut(c))
  BY <1>1, ResponsesType
<1>3. NamesAfter(c) \in NamesSet
  BY NamesAfterType
<1>4. /\ Responses(Append(c, m)) =
           RAcc(Note(NamesAfter(c), CallsOf(m)), ResponsesOut(c) \o ResponsesAdds(m, NamesAfter(c)))
      /\ Sendable(m, NamesAfter(c))
  BY <1>2, <1>3, ResponsesStep
<1> QED
  BY <1>1, <1>4 DEF ResponsesOut, RAcc

-----------------------------------------------------------------------------
(* The session *)

Users(out) == OfRoles(out, {"user"})

TalkSet == { m \in SpokenSet : m.role # "system" }

LEMMA ConcatNonEmpty ==
    ASSUME NEW T, NEW s \in Seq(T), NEW t \in Seq(T)
    PROVE  /\ s # <<>> => s \o t # <<>> /\ Head(s \o t) = Head(s)
           /\ t # <<>> => s \o t # <<>>
  OBVIOUS

LEMMA UsersConcat ==
    ASSUME NEW s \in Seq(MessageSet), NEW t \in Seq(MessageSet)
    PROVE  Users(s) \in Seq(MessageSet) /\ Users(s \o t) = Users(s) \o Users(t)
  BY OfRolesConcat, OfRolesType DEF Users

\* What follows a first user message leaves it in its place.
LEMMA FirstStays ==
    ASSUME NEW s \in Seq(MessageSet), NEW t \in Seq(MessageSet), Users(s) # <<>>
    PROVE  /\ Users(s \o t) # <<>>
           /\ FirstTextFromRole(s \o t, "user") = FirstTextFromRole(s, "user")
<1>1. Users(s) \in Seq(MessageSet) /\ Users(t) \in Seq(MessageSet) /\ Users(s \o t) = Users(s) \o Users(t)
  BY UsersConcat
<1>2. Users(s \o t) # <<>> /\ Head(Users(s \o t)) = Head(Users(s))
  BY <1>1, ConcatNonEmpty
<1> QED
  BY <1>2 DEF FirstTextFromRole, Users

LEMMA UsersAppear ==
    ASSUME NEW s \in Seq(MessageSet), NEW t \in Seq(MessageSet), Users(t) # <<>>
    PROVE  Users(s \o t) # <<>>
<1>1. Users(s) \in Seq(MessageSet) /\ Users(t) \in Seq(MessageSet) /\ Users(s \o t) = Users(s) \o Users(t)
  BY UsersConcat
<1> QED
  BY <1>1, ConcatNonEmpty

LEMMA UsersOfOne ==
    ASSUME NEW m \in MessageSet, m.role = "user"
    PROVE  <<m>> \in Seq(MessageSet) /\ Users(<<m>>) # <<>>
<1>1. Users(<<m>>) = <<m>>
  BY OfRolesOne DEF Users
<1> QED
  BY <1>1

LEMMA TextIsContent ==
    ASSUME NEW m \in SpokenSet, Joined(OfKind(m.blocks, "text")) # <<>>
    PROVE  Content(m) # <<>> /\ Speech(m) # <<>>
<1>1. m.blocks \in Seq(BlockSet)
  BY BlocksType
<1>2. {"text", "image"} \cap {"text"} = {"text"} /\ {"text", "image", "call"} \cap {"text"} = {"text"}
  OBVIOUS
<1>3. OfKind(m.blocks, "text") # <<>>
  BY JoinedNothing
<1>4. OfKinds(Content(m), {"text"}) = OfKinds(m.blocks, {"text", "image"} \cap {"text"})
  BY <1>1, OfKindsTwice DEF Content
<1>5. OfKinds(Speech(m), {"text"}) = OfKinds(m.blocks, {"text", "image", "call"} \cap {"text"})
  BY <1>1, OfKindsTwice DEF Speech
<1>6. OfKinds(Content(m), {"text"}) # <<>> /\ OfKinds(Speech(m), {"text"}) # <<>>
  BY <1>2, <1>3, <1>4, <1>5 DEF OfKind
<1> QED
  BY <1>6, OfKindsNothing

\* A user message with text is one upstream, in each protocol.
LEMMA ChatUser ==
    ASSUME NEW m \in SpokenSet, m.role = "user", NEW names \in NamesSet,
           Joined(OfKind(m.blocks, "text")) # <<>>
    PROVE  Users(ChatAdds(m, names)) # <<>>
<1>1. Content(m) # <<>>
  BY TextIsContent
<1>2. ChatBody(m.role, Content(m), CallsOf(m)) \in MessageSet
  BY SpokenRole, ContentType, CallsType, ChatBodyType
<1>3. PICK b \in MessageSet : b = ChatBody(m.role, Content(m), CallsOf(m))
  BY <1>2, Zenon
<1>4. b.role = "user"
  BY <1>3 DEF ChatBody, Message
<1>5. Results(ResultsOf(m), names) \in Seq(MessageSet)
  BY ResultsType, ResultsMessages
<1>6. ChatAdds(m, names) = Results(ResultsOf(m), names) \o <<b>>
  BY <1>1, <1>3 DEF ChatAdds, Beside
<1> QED
  BY <1>4, <1>5, <1>6, UsersOfOne, UsersAppear

LEMMA MessagesUser ==
    ASSUME NEW m \in SpokenSet, m.role = "user", NEW names \in NamesSet,
           Joined(OfKind(m.blocks, "text")) # <<>>
    PROVE  Users(MessagesAdds(m, names)) # <<>>
<1>1. Speech(m) # <<>>
  BY TextIsContent
<1>2. Message(m.role, Speech(m)) \in MessageSet
  BY SpokenRole, SpeechType, MessageTypeOf
<1>3. PICK b \in MessageSet : b = Message(m.role, Speech(m))
  BY <1>2, Zenon
<1>4. b.role = "user"
  BY <1>3 DEF Message
<1>5. Results(ResultsOf(m), names) \in Seq(MessageSet)
  BY ResultsType, ResultsMessages
<1>6. MessagesAdds(m, names) = <<b>> \o Results(ResultsOf(m), names)
  BY <1>1, <1>3 DEF MessagesAdds
<1> QED
  BY <1>4, <1>5, <1>6, UsersOfOne, FirstStays

LEMMA ResponsesUser ==
    ASSUME NEW m \in SpokenSet, m.role = "user", NEW names \in NamesSet,
           Joined(OfKind(m.blocks, "text")) # <<>>
    PROVE  Users(ResponsesAdds(m, names)) # <<>>
<1>1. Content(m) # <<>> /\ Accompanied(m)
  BY TextIsContent DEF Accompanied
<1>2. PICK b \in MessageSet : b = ContentMessage(m)
  BY ContentMessageType, Zenon
<1>3. b.role = "user"
  BY <1>2 DEF ContentMessage, Message
<1>4. Results(ResultsOf(m), names) \in Seq(MessageSet) /\ CallMessages(Apart(m)) \in Seq(MessageSet)
  BY ResponsesPartsType
<1>5. ResponsesAdds(m, names) = (Results(ResultsOf(m), names) \o <<b>>) \o CallMessages(Apart(m))
  BY <1>1, <1>2 DEF ResponsesAdds
<1>6. <<b>> \in Seq(MessageSet) /\ Users(<<b>>) # <<>>
  BY <1>3, UsersOfOne
<1>7. Results(ResultsOf(m), names) \o <<b>> \in Seq(MessageSet) /\ Users(Results(ResultsOf(m), names) \o <<b>>) # <<>>
  BY <1>4, <1>6, UsersAppear, MessagesConcat
<1> QED
  BY <1>4, <1>5, <1>7, FirstStays

LEMMA ResultsOfNoUser ==
    ASSUME NEW rs \in Seq(ResultSet), NEW names \in NamesSet
    PROVE  Users(Results(rs, names)) = <<>>
<1>1. DOMAIN rs = 1..Len(rs) /\ Len(rs) \in Nat /\ \A i \in 1..Len(rs) : rs[i] \in ResultSet
  OBVIOUS
<1>2. ASSUME NEW i \in 1..Len(rs) PROVE Result(rs[i], names) \in By({"tool"})
  <2>1. Result(rs[i], names) \in MessageSet
    BY <1>1, ResultType
  <2>2. Result(rs[i], names).role = "tool"
    BY DEF Result, Message
  <2> QED
    BY <2>1, <2>2 DEF By
<1>3. Results(rs, names) \in Seq(By({"tool"}))
  BY <1>1, <1>2 DEF Results
<1>4. {"user"} \cap {"tool"} = {}
  OBVIOUS
<1> QED
  BY <1>3, <1>4, OfRolesNone DEF Users

\* The names of the results make no difference to what users say.
LEMMA UsersOfMessages ==
    ASSUME NEW c \in Seq(SpokenSet), NEW names \in NamesSet, NEW others \in NamesSet
    PROVE  Users(MessagesOut(c, names)) = Users(MessagesOut(c, others))
<1> DEFINE U == { d \in Seq(SpokenSet) : Users(MessagesOut(d, names)) = Users(MessagesOut(d, others)) }
<1>1. <<>> \in U
  <2>1. <<>> \in Seq(SpokenSet)
    OBVIOUS
  <2> QED
    BY <2>1, MessagesNothing, Zenon
<1>2. ASSUME NEW d \in Seq(SpokenSet), NEW m \in SpokenSet, d \in U PROVE Append(d, m) \in U
  <2>1. ASSUME NEW n \in NamesSet
        PROVE  Users(MessagesOut(Append(d, m), n)) = Users(MessagesOut(d, n)) \o Users(MessagesAdds(m, n))
    BY MessagesAppend, MessagesType, MessagesAddsType, UsersConcat
  <2>2. Users(MessagesAdds(m, names)) = Users(MessagesAdds(m, others))
    <3>1. CASE m.role = "system"
      BY <3>1, Zenon DEF MessagesAdds
    <3>2. CASE m.role # "system"
      <4> DEFINE body == IF Speech(m) = <<>> THEN <<>> ELSE <<Message(m.role, Speech(m))>>
      <4>1. body \in Seq(MessageSet)
        <5>1. Message(m.role, Speech(m)) \in MessageSet
          BY SpokenRole, SpeechType, MessageTypeOf
        <5>2. <<Message(m.role, Speech(m))>> \in Seq(MessageSet) /\ <<>> \in Seq(MessageSet)
          BY <5>1
        <5> QED
          BY <5>2
      <4>2. ASSUME NEW n \in NamesSet PROVE MessagesAdds(m, n) = body \o Results(ResultsOf(m), n)
        BY <3>2, Zenon DEF MessagesAdds
      <4> HIDE DEF body
      <4>3. ASSUME NEW n \in NamesSet PROVE Users(MessagesAdds(m, n)) = Users(body)
        <5>1. /\ Results(ResultsOf(m), n) \in Seq(MessageSet)
              /\ Users(Results(ResultsOf(m), n)) = <<>>
          BY ResultsType, ResultsMessages, ResultsOfNoUser
        <5>2. Users(body \o Results(ResultsOf(m), n)) = Users(body) \o <<>> /\ Users(body) \in Seq(MessageSet)
          BY <4>1, <5>1, UsersConcat
        <5> QED
          BY <4>2, <5>2, ConcatEmptySeq
      <4> QED
        BY <4>3
    <3> QED
      BY <3>1, <3>2
  <2>3. Users(MessagesOut(Append(d, m), names)) = Users(MessagesOut(Append(d, m), others))
    BY <1>2, <2>1, <2>2
  <2>4. Append(d, m) \in Seq(SpokenSet)
    OBVIOUS
  <2> QED
    BY <2>3, <2>4
<1> HIDE DEF U
<1>3. c \in U
  BY <1>1, <1>2, SeqInduction
<1> QED
  BY <1>3 DEF U

LEMMA CallsOfOthers ==
    ASSUME NEW c \in Seq(SpokenSet)
    PROVE  OfKind(AllBlocks(Others(c)), "call") = CallsSaid(c)
<1> DEFINE U == { d \in Seq(SpokenSet) : OfKind(AllBlocks(Others(d)), "call") = CallsSaid(d) }
<1>1. <<>> \in U
  <2>1. <<>> \in Seq(SpokenSet)
    OBVIOUS
  <2>2. Others(<<>>) = <<>>
    BY OfRolesNothing DEF Others
  <2> QED
    BY <2>1, <2>2, Zenon DEF CallsSaid
<1>2. ASSUME NEW d \in Seq(SpokenSet), NEW m \in SpokenSet, d \in U PROVE Append(d, m) \in U
  <2>1. Append(d, m) \in Seq(SpokenSet) /\ m \in MessageSet /\ m.blocks \in Seq(BlockSet)
    BY SpokenAreMessages, BlocksType
  <2>2. CallsSaid(Append(d, m)) = CallsSaid(d) \o CallsOf(m) /\ CallsSaid(d) \in Seq(CallSet)
    BY CallsSaidAppend, CallsSaidType
  <2>3. CASE m.role = "system"
    <3>1. Others(Append(d, m)) = Others(d) /\ CallsOf(m) = <<>>
      BY <2>3, OthersAppend, CallsType
    <3>2. CallsSaid(Append(d, m)) = CallsSaid(d)
      BY <2>2, <3>1, ConcatEmptySeq
    <3> QED
      BY <1>2, <2>1, <3>1, <3>2
  <2>4. CASE m.role # "system"
    <3>1. Others(Append(d, m)) = Append(Others(d), m) /\ Others(d) \in Seq(MessageSet)
      BY <2>4, OthersAppend
    <3>2. AllBlocks(Others(Append(d, m))) = AllBlocks(Others(d)) \o m.blocks /\ AllBlocks(Others(d)) \in Seq(BlockSet)
      BY <2>1, <3>1, AllBlocksAppend, AllBlocksType
    <3>3. PICK a \in Seq(BlockSet) : a = AllBlocks(Others(d))
      BY <3>2, Zenon
    <3>4. PICK b \in Seq(BlockSet) : b = m.blocks
      BY <2>1, Zenon
    <3>5. OfKinds(a \o b, {"call"}) = OfKinds(a, {"call"}) \o OfKinds(b, {"call"})
      BY OfKindsConcat
    <3>6. OfKind(AllBlocks(Others(Append(d, m))), "call") = OfKind(AllBlocks(Others(d)), "call") \o CallsOf(m)
      BY <3>2, <3>3, <3>4, <3>5, Zenon DEF OfKind, CallsOf
    <3>7. OfKind(AllBlocks(Others(d)), "call") = CallsSaid(d)
      BY <1>2
    <3> QED
      BY <2>1, <2>2, <3>6, <3>7, Zenon
  <2> QED
    BY <2>3, <2>4
<1> HIDE DEF U
<1>3. c \in U
  BY <1>1, <1>2, SeqInduction
<1> QED
  BY <1>3 DEF U

\* The names that Messages notes beforehand are those noted after the whole conversation.
LEMMA MessagesIs ==
    ASSUME NEW c \in Seq(SpokenSet)
    PROVE  Messages(c) = [system |-> SystemText(c), out |-> MessagesOut(c, NamesAfter(c))]
<1>1. Note(NoNames, OfKind(AllBlocks(Others(c)), "call")) = NamesAfter(c)
  BY CallsOfOthers DEF NamesAfter
<1> QED
  BY <1>1, Zenon DEF Messages, MessagesOut

LEMMA FlagsAre ==
    ASSUME NEW c \in Seq(SpokenSet)
    PROVE  /\ StableFlag(Chat(c)) = <<ChatSys(c), FirstTextFromRole(ChatOut(c), "user")>>
           /\ StableFlag(Messages(c)) = <<SystemText(c), FirstTextFromRole(MessagesOut(c, NamesAfter(c)), "user")>>
           /\ Responses(c).ok => StableFlag(Responses(c)) = <<<<>>, FirstTextFromRole(ResponsesOut(c), "user")>>
<1>1. StableFlag(Chat(c)) = <<ChatSys(c), FirstTextFromRole(ChatOut(c), "user")>>
  BY DEF StableFlag, ChatSys, ChatOut
<1>2. StableFlag(Messages(c)) = <<SystemText(c), FirstTextFromRole(MessagesOut(c, NamesAfter(c)), "user")>>
  BY MessagesIs DEF StableFlag
<1>3. ASSUME Responses(c).ok PROVE StableFlag(Responses(c)) = <<<<>>, FirstTextFromRole(ResponsesOut(c), "user")>>
  BY <1>3, ResponsesType DEF StableFlag, RAcc
<1> QED
  BY <1>1, <1>2, <1>3

LEMMA FlagsStay ==
    ASSUME NEW c \in Seq(SpokenSet), NEW m \in TalkSet, NEW n \in NamesSet
    PROVE  /\ ChatSys(Append(c, m)) = ChatSys(c) /\ SystemText(Append(c, m)) = SystemText(c)
           /\ Users(ChatOut(c)) # <<>> =>
                /\ Users(ChatOut(Append(c, m))) # <<>>
                /\ FirstTextFromRole(ChatOut(Append(c, m)), "user") = FirstTextFromRole(ChatOut(c), "user")
           /\ Users(MessagesOut(c, n)) # <<>> =>
                /\ Users(MessagesOut(Append(c, m), n)) # <<>>
                /\ FirstTextFromRole(MessagesOut(Append(c, m), n), "user") = FirstTextFromRole(MessagesOut(c, n), "user")
           /\ Responses(Append(c, m)).ok =>
                /\ Responses(c).ok
                /\ Users(ResponsesOut(c)) # <<>> =>
                     /\ Users(ResponsesOut(Append(c, m))) # <<>>
                     /\ FirstTextFromRole(ResponsesOut(Append(c, m)), "user") = FirstTextFromRole(ResponsesOut(c), "user")
<1>0. m \in SpokenSet /\ m.role # "system" /\ NamesAfter(c) \in NamesSet
  BY NamesAfterType DEF TalkSet
<1>1. ChatSys(Append(c, m)) = ChatSys(c)
  BY <1>0, ChatAppend DEF ChatSystem
<1>2. SystemText(Append(c, m)) = SystemText(c)
  BY <1>0, SystemTextAppend
<1>3. ASSUME Users(ChatOut(c)) # <<>>
      PROVE  /\ Users(ChatOut(Append(c, m))) # <<>>
             /\ FirstTextFromRole(ChatOut(Append(c, m)), "user") = FirstTextFromRole(ChatOut(c), "user")
  <2>1. /\ ChatOut(c) \in Seq(MessageSet) /\ ChatAdds(m, NamesAfter(c)) \in Seq(MessageSet)
        /\ ChatOut(Append(c, m)) = ChatOut(c) \o ChatAdds(m, NamesAfter(c))
    BY <1>0, ChatType, ChatAddsType, ChatAppend
  <2> QED
    BY <1>3, <2>1, FirstStays
<1>4. ASSUME Users(MessagesOut(c, n)) # <<>>
      PROVE  /\ Users(MessagesOut(Append(c, m), n)) # <<>>
             /\ FirstTextFromRole(MessagesOut(Append(c, m), n), "user") = FirstTextFromRole(MessagesOut(c, n), "user")
  <2>1. /\ MessagesOut(c, n) \in Seq(MessageSet) /\ MessagesAdds(m, n) \in Seq(MessageSet)
        /\ MessagesOut(Append(c, m), n) = MessagesOut(c, n) \o MessagesAdds(m, n)
    BY <1>0, MessagesType, MessagesAddsType, MessagesAppend
  <2> QED
    BY <1>4, <2>1, FirstStays
<1>5. ASSUME Responses(Append(c, m)).ok
      PROVE  /\ Responses(c).ok
             /\ Users(ResponsesOut(c)) # <<>> =>
                  /\ Users(ResponsesOut(Append(c, m))) # <<>>
                  /\ FirstTextFromRole(ResponsesOut(Append(c, m)), "user") = FirstTextFromRole(ResponsesOut(c), "user")
  <2>1. Responses(c).ok
    BY <1>0, <1>5, ResponsesBefore
  <2>2. /\ ResponsesOut(c) \in Seq(MessageSet) /\ ResponsesAdds(m, NamesAfter(c)) \in Seq(MessageSet)
        /\ ResponsesOut(Append(c, m)) = ResponsesOut(c) \o ResponsesAdds(m, NamesAfter(c))
    BY <1>0, <1>5, <2>1, ResponsesType, ResponsesAddsType, ResponsesAppend
  <2> QED
    BY <2>1, <2>2, FirstStays
<1> QED
  BY <1>1, <1>2, <1>3, <1>4, <1>5

LEMMA OpeningHasUser ==
    ASSUME NEW p \in Seq(SpokenSet), NEW m \in SpokenSet, m.role = "user",
           Joined(OfKind(m.blocks, "text")) # <<>>, NEW n \in NamesSet
    PROVE  /\ Users(ChatOut(Append(p, m))) # <<>>
           /\ Users(MessagesOut(Append(p, m), n)) # <<>>
           /\ Responses(Append(p, m)).ok => Users(ResponsesOut(Append(p, m))) # <<>>
<1>0. NamesAfter(p) \in NamesSet
  BY NamesAfterType
<1>1. Users(ChatOut(Append(p, m))) # <<>>
  <2>1. /\ ChatOut(p) \in Seq(MessageSet) /\ ChatAdds(m, NamesAfter(p)) \in Seq(MessageSet)
        /\ ChatOut(Append(p, m)) = ChatOut(p) \o ChatAdds(m, NamesAfter(p))
    BY <1>0, ChatType, ChatAddsType, ChatAppend
  <2> QED
    BY <1>0, <2>1, ChatUser, UsersAppear
<1>2. Users(MessagesOut(Append(p, m), n)) # <<>>
  <2>1. /\ MessagesOut(p, n) \in Seq(MessageSet) /\ MessagesAdds(m, n) \in Seq(MessageSet)
        /\ MessagesOut(Append(p, m), n) = MessagesOut(p, n) \o MessagesAdds(m, n)
    BY MessagesType, MessagesAddsType, MessagesAppend
  <2> QED
    BY <2>1, MessagesUser, UsersAppear
<1>3. ASSUME Responses(Append(p, m)).ok PROVE Users(ResponsesOut(Append(p, m))) # <<>>
  <2>1. Responses(p).ok
    BY <1>3, ResponsesBefore
  <2>2. /\ ResponsesOut(p) \in Seq(MessageSet) /\ ResponsesAdds(m, NamesAfter(p)) \in Seq(MessageSet)
        /\ ResponsesOut(Append(p, m)) = ResponsesOut(p) \o ResponsesAdds(m, NamesAfter(p))
    BY <1>0, <1>3, <2>1, ResponsesType, ResponsesAddsType, ResponsesAppend
  <2> QED
    BY <1>0, <2>2, ResponsesUser, UsersAppear
<1> QED
  BY <1>1, <1>2, <1>3

\* What is said after an opening leaves what the session is taken from.
LEMMA OpeningStays ==
    ASSUME NEW o \in Seq(SpokenSet), NEW n \in NamesSet, NEW v \in Seq(TalkSet),
           Users(ChatOut(o)) # <<>>, Users(MessagesOut(o, n)) # <<>>,
           Responses(o).ok => Users(ResponsesOut(o)) # <<>>
    PROVE  /\ o \o v \in Seq(SpokenSet)
           /\ ChatSys(o \o v) = ChatSys(o) /\ SystemText(o \o v) = SystemText(o)
           /\ FirstTextFromRole(ChatOut(o \o v), "user") = FirstTextFromRole(ChatOut(o), "user")
           /\ FirstTextFromRole(MessagesOut(o \o v, n), "user") = FirstTextFromRole(MessagesOut(o, n), "user")
           /\ Responses(o \o v).ok =>
                 /\ Responses(o).ok
                 /\ FirstTextFromRole(ResponsesOut(o \o v), "user") = FirstTextFromRole(ResponsesOut(o), "user")
<1> DEFINE P(c) ==
             /\ c \in Seq(SpokenSet)
             /\ ChatSys(c) = ChatSys(o) /\ SystemText(c) = SystemText(o)
             /\ Users(ChatOut(c)) # <<>>
             /\ FirstTextFromRole(ChatOut(c), "user") = FirstTextFromRole(ChatOut(o), "user")
             /\ Users(MessagesOut(c, n)) # <<>>
             /\ FirstTextFromRole(MessagesOut(c, n), "user") = FirstTextFromRole(MessagesOut(o, n), "user")
             /\ Responses(c).ok =>
                   /\ Responses(o).ok
                   /\ Users(ResponsesOut(c)) # <<>>
                   /\ FirstTextFromRole(ResponsesOut(c), "user") = FirstTextFromRole(ResponsesOut(o), "user")
           U == { u \in Seq(TalkSet) : P(o \o u) }
<1>1. <<>> \in U
  <2>1. o \o <<>> = o /\ <<>> \in Seq(TalkSet)
    BY ConcatEmptySeq
  <2>2. P(o)
    OBVIOUS
  <2> HIDE DEF P
  <2>3. P(o \o <<>>)
    BY <2>1, <2>2
  <2> QED
    BY <2>1, <2>3
<1>2. ASSUME NEW u \in Seq(TalkSet), NEW m \in TalkSet, u \in U PROVE Append(u, m) \in U
  <2>1. P(o \o u)
    BY <1>2
  <2>2. o \o Append(u, m) = Append(o \o u, m) /\ Append(u, m) \in Seq(TalkSet)
    <3>1. TalkSet \subseteq SpokenSet
      BY DEF TalkSet
    <3>2. u \in Seq(SpokenSet) /\ m \in SpokenSet
      BY <3>1, SeqMonotonic
    <3> HIDE DEF U
    <3>3. o \o Append(u, m) = Append(o \o u, m)
      BY <3>2
    <3> QED
      BY <3>3
  <2>3. ASSUME NEW c, P(c) PROVE P(Append(c, m))
    <3>1. c \in Seq(SpokenSet) /\ Append(c, m) \in Seq(SpokenSet)
      <4>1. m \in SpokenSet
        BY DEF TalkSet
      <4> QED
        BY <2>3, <4>1
    <3> QED
      BY <2>3, <3>1, FlagsStay
  <2> HIDE DEF P
  <2>4. P(Append(o \o u, m))
    BY <2>1, <2>3
  <2>5. P(o \o Append(u, m))
    BY <2>2, <2>4
  <2> QED
    BY <2>2, <2>5
<1> HIDE DEF U
<1>3. v \in U
  BY <1>1, <1>2, SeqInduction
<1> QED
  BY <1>3 DEF U

LEMMA SessionOfOpening ==
    ASSUME NEW p \in Seq(SpokenSet), NEW m \in SpokenSet, m.role = "user",
           Joined(OfKind(m.blocks, "text")) # <<>>, NEW v \in Seq(TalkSet)
    PROVE  LET o == Append(p, m)
               c == o \o v
           IN  /\ StableFlag(Chat(c)) = StableFlag(Chat(o))
               /\ StableFlag(Messages(c)) = StableFlag(Messages(o))
               /\ Responses(c).ok => StableFlag(Responses(c)) = StableFlag(Responses(o))
<1>a. PICK o : o = Append(p, m)
  OBVIOUS
<1>b. PICK c : c = o \o v
  OBVIOUS
<1>0. Append(p, m) \in Seq(SpokenSet)
  OBVIOUS
<1>1. o \in Seq(SpokenSet) /\ NamesAfter(o) \in NamesSet
  BY <1>0, <1>a, NamesAfterType
<1>2. ASSUME NEW n \in NamesSet
      PROVE  /\ Users(ChatOut(o)) # <<>> /\ Users(MessagesOut(o, n)) # <<>>
             /\ Responses(o).ok => Users(ResponsesOut(o)) # <<>>
  BY <1>a, OpeningHasUser
<1>3. c \in Seq(SpokenSet)
  BY <1>1, <1>2, <1>b, OpeningStays
<1>4. NamesAfter(c) \in NamesSet
  BY <1>3, NamesAfterType
<1>5. /\ ChatSys(c) = ChatSys(o) /\ SystemText(c) = SystemText(o)
      /\ FirstTextFromRole(ChatOut(c), "user") = FirstTextFromRole(ChatOut(o), "user")
      /\ FirstTextFromRole(MessagesOut(c, NamesAfter(c)), "user") =
            FirstTextFromRole(MessagesOut(o, NamesAfter(c)), "user")
      /\ Responses(c).ok =>
            /\ Responses(o).ok
            /\ FirstTextFromRole(ResponsesOut(c), "user") = FirstTextFromRole(ResponsesOut(o), "user")
  <2>1. PICK n \in NamesSet : n = NamesAfter(c)
    BY <1>4
  <2>2. /\ Users(ChatOut(o)) # <<>> /\ Users(MessagesOut(o, n)) # <<>>
        /\ Responses(o).ok => Users(ResponsesOut(o)) # <<>>
    BY <1>2
  <2>3. /\ ChatSys(o \o v) = ChatSys(o) /\ SystemText(o \o v) = SystemText(o)
        /\ FirstTextFromRole(ChatOut(o \o v), "user") = FirstTextFromRole(ChatOut(o), "user")
        /\ FirstTextFromRole(MessagesOut(o \o v, n), "user") = FirstTextFromRole(MessagesOut(o, n), "user")
        /\ Responses(o \o v).ok =>
              /\ Responses(o).ok
              /\ FirstTextFromRole(ResponsesOut(o \o v), "user") = FirstTextFromRole(ResponsesOut(o), "user")
    BY <1>1, <2>2, OpeningStays
  <2> QED
    BY <1>b, <2>1, <2>3
<1>6. FirstTextFromRole(MessagesOut(o, NamesAfter(c)), "user") =
         FirstTextFromRole(MessagesOut(o, NamesAfter(o)), "user")
  BY <1>1, <1>4, UsersOfMessages DEF FirstTextFromRole, Users
<1>7. StableFlag(Chat(c)) = StableFlag(Chat(o))
  BY <1>1, <1>3, <1>5, FlagsAre
<1>8. StableFlag(Messages(c)) = StableFlag(Messages(o))
  BY <1>1, <1>3, <1>5, <1>6, FlagsAre
<1>9. Responses(c).ok => StableFlag(Responses(c)) = StableFlag(Responses(o))
  BY <1>1, <1>3, <1>5, FlagsAre
<1> QED
  BY <1>a, <1>b, <1>7, <1>8, <1>9

LEMMA OpeningAndRest ==
    ASSUME NEW c \in Seq(SpokenSet), NEW i \in 1..Len(c),
           \A j \in 1..Len(c) : c[j].role = "system" => j < i
    PROVE  /\ SubSeq(c, 1, i - 1) \in Seq(SpokenSet) /\ c[i] \in SpokenSet
           /\ SubSeq(c, 1, i) = Append(SubSeq(c, 1, i - 1), c[i])
           /\ SubSeq(c, i + 1, Len(c)) \in Seq(TalkSet)
           /\ c = SubSeq(c, 1, i) \o SubSeq(c, i + 1, Len(c))
           /\ SubSeq(c, 1, i)[i] = c[i]
<1>1. /\ Len(c) \in Nat /\ i \in Nat /\ i - 1 \in Nat /\ i <= Len(c)
      /\ \A j \in 1..Len(c) : c[j] \in SpokenSet
  OBVIOUS
<1>2. SubSeq(c, 1, i - 1) \in Seq(SpokenSet) /\ c[i] \in SpokenSet /\ SubSeq(c, 1, i)[i] = c[i]
  OBVIOUS
<1>3. SubSeq(c, 1, i) = Append(SubSeq(c, 1, i - 1), c[i])
  OBVIOUS
<1>4. SubSeq(c, i + 1, Len(c)) \in Seq(TalkSet)
  <2>1. \A j \in i + 1..Len(c) : c[j] \in TalkSet
    BY <1>1 DEF TalkSet
  <2> QED
    BY <1>1, <2>1
<1>5. c = SubSeq(c, 1, i) \o SubSeq(c, i + 1, Len(c))
  OBVIOUS
<1> QED
  BY <1>2, <1>3, <1>4, <1>5

LEMMA SessionStays == ASSUME conversation \in Seq(SpokenSet) PROVE SessionIsStable
<1>1. PICK c \in Seq(SpokenSet) : c = conversation
  OBVIOUS
<1>2. SUFFICES ASSUME NEW i \in OpeningEnds,
                      Joined(OfKind(SubSeq(c, 1, i)[i].blocks, "text")) # <<>>,
                      \A j \in SystemMessages : j < i
               PROVE  /\ StableFlag(Chat(c)) = StableFlag(Chat(SubSeq(c, 1, i)))
                      /\ StableFlag(Messages(c)) = StableFlag(Messages(SubSeq(c, 1, i)))
                      /\ Responses(c).ok => StableFlag(Responses(c)) = StableFlag(Responses(SubSeq(c, 1, i)))
  BY <1>1, Zenon DEF SessionIsStable
<1>3. i \in 1..Len(c) /\ c[i].role = "user"
  BY <1>1 DEF OpeningEnds
<1>4. \A j \in 1..Len(c) : c[j].role = "system" => j < i
  BY <1>1, <1>2 DEF SystemMessages
<1>5. /\ SubSeq(c, 1, i - 1) \in Seq(SpokenSet) /\ c[i] \in SpokenSet
      /\ SubSeq(c, 1, i) = Append(SubSeq(c, 1, i - 1), c[i])
      /\ SubSeq(c, i + 1, Len(c)) \in Seq(TalkSet)
      /\ c = SubSeq(c, 1, i) \o SubSeq(c, i + 1, Len(c))
      /\ SubSeq(c, 1, i)[i] = c[i]
  BY <1>3, <1>4, OpeningAndRest
<1>6. Joined(OfKind(c[i].blocks, "text")) # <<>>
  BY <1>2, <1>5
<1>7. PICK o : o = SubSeq(c, 1, i)
  OBVIOUS
<1>8. PICK p \in Seq(SpokenSet) : p = SubSeq(c, 1, i - 1)
  BY <1>5
<1>9. PICK v \in Seq(TalkSet) : v = SubSeq(c, i + 1, Len(c))
  BY <1>5
<1>10. PICK m \in SpokenSet : m = c[i]
  BY <1>5
<1>11. o = Append(p, m) /\ c = o \o v /\ m.role = "user" /\ Joined(OfKind(m.blocks, "text")) # <<>>
  BY <1>3, <1>5, <1>6, <1>7, <1>8, <1>9, <1>10, Zenon
<1>12. /\ StableFlag(Chat(c)) = StableFlag(Chat(o))
       /\ StableFlag(Messages(c)) = StableFlag(Messages(o))
       /\ Responses(c).ok => StableFlag(Responses(c)) = StableFlag(Responses(o))
  <2>1. LET q == Append(p, m)
            d == q \o v
        IN  /\ StableFlag(Chat(d)) = StableFlag(Chat(q))
            /\ StableFlag(Messages(d)) = StableFlag(Messages(q))
            /\ Responses(d).ok => StableFlag(Responses(d)) = StableFlag(Responses(q))
    BY <1>11, SessionOfOpening
  <2> QED
    BY <1>11, <2>1
<1> QED
  BY <1>7, <1>12

-----------------------------------------------------------------------------
(* What the results are called *)

LEMMA RangeIs ==
    ASSUME NEW T, NEW s \in Seq(T)
    PROVE  /\ \A x : x \in Range(s) <=> \E i \in 1..Len(s) : s[i] = x
           /\ Range(s) \subseteq T
<1>1. DOMAIN s = 1..Len(s) /\ \A i \in 1..Len(s) : s[i] \in T
  OBVIOUS
<1> QED
  BY <1>1 DEF Range

LEMMA RangeNothing == Range(<<>>) = {}
  BY DEF Range

LEMMA RangeConcat ==
    ASSUME NEW T, NEW s \in Seq(T), NEW t \in Seq(T)
    PROVE  Range(s \o t) = Range(s) \cup Range(t)
<1> DEFINE u == s \o t
<1>1. /\ Len(s) \in Nat /\ Len(t) \in Nat /\ DOMAIN s = 1..Len(s) /\ DOMAIN t = 1..Len(t)
      /\ DOMAIN u = 1..Len(s) + Len(t)
      /\ \A i \in 1..Len(s) : u[i] = s[i]
      /\ \A i \in 1..Len(t) : u[Len(s) + i] = t[i]
  OBVIOUS
<1> HIDE DEF u
<1>2. ASSUME NEW i \in 1..Len(s) + Len(t) PROVE u[i] \in Range(s) \cup Range(t)
  <2>1. CASE i \in 1..Len(s)
    BY <1>1, <2>1 DEF Range
  <2>2. CASE i \notin 1..Len(s)
    <3>1. i - Len(s) \in 1..Len(t) /\ Len(s) + (i - Len(s)) = i
      BY <1>1, <2>2
    <3>2. u[i] = t[i - Len(s)]
      BY <1>1, <3>1
    <3> QED
      BY <1>1, <3>1, <3>2 DEF Range
  <2> QED
    BY <2>1, <2>2
<1>3. \A i \in 1..Len(s) : s[i] \in Range(u)
  <2>1. \A i \in 1..Len(s) : i \in DOMAIN u
    BY <1>1
  <2> QED
    BY <1>1, <2>1 DEF Range
<1>4. \A i \in 1..Len(t) : t[i] \in Range(u)
  <2>1. \A i \in 1..Len(t) : Len(s) + i \in DOMAIN u
    BY <1>1
  <2> QED
    BY <1>1, <2>1 DEF Range
<1>5. Range(u) \subseteq Range(s) \cup Range(t)
  BY <1>1, <1>2 DEF Range
<1>6. Range(s) \subseteq Range(u) /\ Range(t) \subseteq Range(u)
  BY <1>1, <1>3, <1>4 DEF Range
<1>7. Range(u) = Range(s) \cup Range(t)
  BY <1>5, <1>6
<1> QED
  BY <1>7 DEF u

LEMMA RangeOne == ASSUME NEW x PROVE Range(<<x>>) = {x}
  BY DEF Range

LEMMA RangeAppend ==
    ASSUME NEW T, NEW s \in Seq(T), NEW x \in T
    PROVE  Range(Append(s, x)) = Range(s) \cup {x} /\ Append(s, x) \in Seq(T)
<1>1. /\ DOMAIN Append(s, x) = 1..Len(s) + 1 /\ Len(s) \in Nat /\ DOMAIN s = 1..Len(s)
      /\ Append(s, x)[Len(s) + 1] = x /\ \A i \in 1..Len(s) : Append(s, x)[i] = s[i]
      /\ Append(s, x) \in Seq(T)
  BY Extended
<1>2. 1..Len(s) + 1 = 1..Len(s) \cup {Len(s) + 1}
  BY <1>1
<1> QED
  BY <1>1, <1>2 DEF Range

LEMMA OfKindsRange ==
    ASSUME NEW s \in Seq(BlockSet), NEW kinds
    PROVE  Range(OfKinds(s, kinds)) = { b \in Range(s) : b.kind \in kinds }
<1> DEFINE U == { t \in Seq(BlockSet) : Range(OfKinds(t, kinds)) = { b \in Range(t) : b.kind \in kinds } }
<1>1. <<>> \in U
  <2>1. <<>> \in Seq(BlockSet)
    OBVIOUS
  <2>2. Range(OfKinds(<<>>, kinds)) = {} /\ Range(<<>>) = {}
    BY OfKindsNothing, RangeNothing, Zenon
  <2> QED
    BY <2>1, <2>2, Zenon
<1>2. ASSUME NEW t \in Seq(BlockSet), NEW b \in BlockSet, t \in U PROVE Append(t, b) \in U
  <2>1. Append(t, b) \in Seq(BlockSet) /\ Append(t, b) = t \o <<b>> /\ <<b>> \in Seq(BlockSet)
    OBVIOUS
  <2>2. Range(t \o <<b>>) = Range(t) \cup {b}
    <3>1. Range(Append(t, b)) = Range(t) \cup {b}
      BY RangeAppend
    <3> QED
      BY <2>1, <3>1, Zenon
  <2>3. /\ OfKinds(t \o <<b>>, kinds) = OfKinds(t, kinds) \o OfKinds(<<b>>, kinds)
        /\ OfKinds(t, kinds) \in Seq(BlockSet) /\ OfKinds(<<b>>, kinds) \in Seq(BlockSet)
    BY <2>1, OfKindsConcat, OfKindsType
  <2>4. Range(OfKinds(t \o <<b>>, kinds)) = Range(OfKinds(t, kinds)) \cup Range(OfKinds(<<b>>, kinds))
    <3>1. PICK x \in Seq(BlockSet) : x = OfKinds(t, kinds)
      BY <2>3, Zenon
    <3>2. PICK y \in Seq(BlockSet) : y = OfKinds(<<b>>, kinds)
      BY <2>3, Zenon
    <3>3. Range(x \o y) = Range(x) \cup Range(y)
      BY RangeConcat
    <3> QED
      BY <2>3, <3>1, <3>2, <3>3, Zenon
  <2>5. Range(OfKinds(<<b>>, kinds)) = IF b.kind \in kinds THEN {b} ELSE {}
    BY OfKindsOne, RangeOne, RangeNothing
  <2>6. Range(OfKinds(t, kinds)) = { d \in Range(t) : d.kind \in kinds }
    BY <1>2
  <2>7. Range(OfKinds(t \o <<b>>, kinds)) = { d \in Range(t \o <<b>>) : d.kind \in kinds }
    BY <2>2, <2>4, <2>5, <2>6
  <2> QED
    BY <2>1, <2>7, Zenon
<1> HIDE DEF U
<1>3. s \in U
  BY <1>1, <1>2, SeqInduction
<1> QED
  BY <1>3 DEF U

\* A result under the name of its call.
Renamed(b, names) == [b EXCEPT !.name = names[b.id]]

ResultsAre(out, rs, names) ==
    \A r \in ResultsIn(out) : \E b \in Range(rs) : r = Renamed(b, names)

LEMMA ResultsInConcat ==
    ASSUME NEW s \in Seq(MessageSet), NEW t \in Seq(MessageSet)
    PROVE  ResultsIn(s \o t) = ResultsIn(s) \cup ResultsIn(t)
<1>1. AllBlocks(s \o t) = AllBlocks(s) \o AllBlocks(t)
  BY AllBlocksConcat
<1>2. PICK a \in Seq(BlockSet) : a = AllBlocks(s)
  BY AllBlocksType
<1>3. PICK b \in Seq(BlockSet) : b = AllBlocks(t)
  BY AllBlocksType
<1>4. Range(a \o b) = Range(a) \cup Range(b)
  BY RangeConcat
<1>5. Range(AllBlocks(s \o t)) = Range(AllBlocks(s)) \cup Range(AllBlocks(t))
  BY <1>1, <1>2, <1>3, <1>4, Zenon
<1> QED
  BY <1>5 DEF ResultsIn

LEMMA ResultsInNothing == ResultsIn(<<>>) = {}
<1>1. Range(AllBlocks(<<>>)) = {}
  BY AllBlocksNothing, RangeNothing, Zenon
<1> QED
  BY <1>1 DEF ResultsIn

LEMMA ResultsInOne ==
    ASSUME NEW m \in MessageSet
    PROVE  ResultsIn(<<m>>) = { b \in Range(m.blocks) : b.kind = "result" }
<1>1. AllBlocks(<<m>>) = m.blocks
  BY AllBlocksOne
<1> QED
  BY <1>1 DEF ResultsIn

LEMMA RenamedType ==
    ASSUME NEW b \in ResultSet, NEW names \in NamesSet
    PROVE  /\ Renamed(b, names) \in BlockSet
           /\ Renamed(b, names).kind = "result" /\ Renamed(b, names).id = b.id
           /\ Renamed(b, names).value = b.value /\ Renamed(b, names).name = names[b.id]
<1>1. names[b.id] \in Names \cup {Blank, "unknown"}
  BY DEF ResultSet, NamesSet, NameSet
<1> QED
  BY <1>1 DEF ResultSet, BlockSet, Renamed

LEMMA ResultIs == ASSUME NEW b, NEW names PROVE Result(b, names) = Message("tool", <<Renamed(b, names)>>)
  BY DEF Result, Renamed

LEMMA ResultsInResults ==
    ASSUME NEW rs \in Seq(ResultSet), NEW names \in NamesSet
    PROVE  ResultsAre(Results(rs, names), rs, names)
<1> DEFINE U == { s \in Seq(ResultSet) : ResultsAre(Results(s, names), s, names) }
<1>1. <<>> \in U
  <2>1. <<>> \in Seq(ResultSet)
    OBVIOUS
  <2>2. ResultsIn(Results(<<>>, names)) = {}
    BY ResultsNothing, ResultsInNothing, Zenon
  <2>3. ResultsAre(Results(<<>>, names), <<>>, names)
    BY <2>2, Zenon DEF ResultsAre
  <2> QED
    BY <2>1, <2>3
<1>2. ASSUME NEW s \in Seq(ResultSet), NEW b \in ResultSet, s \in U PROVE Append(s, b) \in U
  <2>1. Results(s, names) \in Seq(MessageSet) /\ Result(b, names) \in MessageSet
    BY ResultsMessages, ResultType
  <2>2. PICK f \in Seq(MessageSet) : f = Results(s, names)
    BY <2>1, Zenon
  <2>3. PICK x \in MessageSet : x = Result(b, names)
    BY <2>1, Zenon
  <2>4. Results(Append(s, b), names) = Append(f, x)
    BY <2>2, <2>3, ResultsAppend
  <2>5. <<x>> \in Seq(MessageSet) /\ Append(f, x) = f \o <<x>>
    OBVIOUS
  <2>6. ResultsIn(Append(f, x)) = ResultsIn(f) \cup ResultsIn(<<x>>)
    BY <2>5, ResultsInConcat
  <2>7. ResultsIn(<<x>>) \subseteq {Renamed(b, names)}
    <3>1. x.blocks = <<Renamed(b, names)>>
      BY <2>3, ResultIs DEF Message
    <3> QED
      BY <3>1, ResultsInOne, RangeOne
  <2>8. Range(Append(s, b)) = Range(s) \cup {b} /\ Append(s, b) \in Seq(ResultSet)
    BY RangeAppend
  <2>9. \A r \in ResultsIn(f) : \E d \in Range(s) : r = Renamed(d, names)
    BY <1>2, <2>2 DEF ResultsAre
  <2>10. ResultsAre(Results(Append(s, b), names), Append(s, b), names)
    BY <2>4, <2>6, <2>7, <2>8, <2>9 DEF ResultsAre
  <2> QED
    BY <2>8, <2>10
<1> HIDE DEF U
<1>3. rs \in U
  BY <1>1, <1>2, SeqInduction
<1> QED
  BY <1>3 DEF U

LEMMA ResultsBeside ==
    ASSUME NEW s \in Seq(MessageSet), NEW t \in Seq(MessageSet), NEW rs, NEW names,
           ResultsAre(s, rs, names), ResultsIn(t) = {}
    PROVE  ResultsAre(s \o t, rs, names) /\ ResultsAre(t \o s, rs, names)
<1>1. ResultsIn(s \o t) = ResultsIn(s) /\ ResultsIn(t \o s) = ResultsIn(s)
  <2>1. ResultsIn(s \o t) = ResultsIn(s) \cup ResultsIn(t)
    BY ResultsInConcat
  <2>2. ResultsIn(t \o s) = ResultsIn(t) \cup ResultsIn(s)
    BY ResultsInConcat
  <2> QED
    BY <2>1, <2>2
<1> QED
  BY <1>1, Zenon DEF ResultsAre

LEMMA NoResults ==
    ASSUME NEW m \in MessageSet, \A b \in Range(m.blocks) : b.kind # "result"
    PROVE  <<m>> \in Seq(MessageSet) /\ ResultsIn(<<m>>) = {}
<1>1. ResultsIn(<<m>>) = {}
  BY ResultsInOne
<1> QED
  BY <1>1

LEMMA RangeOfCalls ==
    ASSUME NEW cs \in Seq(CallSet)
    PROVE  \A b \in Range(cs) : b \in CallSet /\ b.kind = "call"
<1>1. Range(cs) \subseteq CallSet
  BY RangeIs
<1> QED
  BY <1>1 DEF CallSet

LEMMA RangeOfContent ==
    ASSUME NEW m \in SpokenSet
    PROVE  /\ \A b \in Range(Content(m)) : b.kind \in {"text", "image"}
           /\ \A b \in Range(Speech(m)) : b.kind \in {"text", "image", "call"}
  BY BlocksType, OfKindsRange DEF Content, Speech

LEMMA RangeOfBlocks ==
    ASSUME NEW s \in Seq(BlockSet), NEW t \in Seq(BlockSet)
    PROVE  Range(s \o t) = Range(s) \cup Range(t)
  BY RangeConcat

LEMMA NoTextResult == \A v : Text(v).kind = "text"
  BY DEF Text, Block

LEMMA ChatBodyNoResults ==
    ASSUME NEW m \in SpokenSet
    PROVE  \A b \in Range(ChatBody(m.role, Content(m), CallsOf(m)).blocks) : b.kind # "result"
<1>1. CallsOf(m) \in Seq(CallSet) /\ CallsOf(m) \in Seq(BlockSet) /\ Coerced(Content(m)) \in Seq(BlockSet)
  BY CallsType, CallsAreBlocks, ContentType, CoercedType
<1>2. Range(Coerced(Content(m)) \o CallsOf(m)) = Range(Coerced(Content(m))) \cup Range(CallsOf(m))
  BY <1>1, RangeOfBlocks
<1>3. \A b \in Range(CallsOf(m)) : b.kind # "result"
  BY <1>1, RangeOfCalls
<1>4. \A b \in Range(Coerced(Content(m))) : b.kind # "result"
  BY RangeOfContent, RangeOne, NoTextResult DEF Coerced
<1>5. \A b \in Range(<<Text(<<>>)>>) : b.kind # "result"
  BY RangeOne, NoTextResult
<1> QED
  BY <1>2, <1>3, <1>4, <1>5 DEF ChatBody, Message

LEMMA ChatResults ==
    ASSUME NEW m \in SpokenSet, NEW names \in NamesSet
    PROVE  ResultsAre(ChatAdds(m, names), ResultsOf(m), names)
<1> DEFINE rest == IF Beside(m) THEN <<ChatBody(m.role, Content(m), CallsOf(m))>> ELSE <<>>
<1>1. PICK b \in MessageSet : b = ChatBody(m.role, Content(m), CallsOf(m))
  BY SpokenRole, ContentType, CallsType, ChatBodyType
<1>2. <<b>> \in Seq(MessageSet) /\ ResultsIn(<<b>>) = {}
  BY <1>1, ChatBodyNoResults, NoResults
<1>3. <<>> \in Seq(MessageSet)
  OBVIOUS
<1>4. rest \in Seq(MessageSet) /\ ResultsIn(rest) = {}
  BY <1>1, <1>2, <1>3, ResultsInNothing
<1> HIDE DEF rest
<1>5. ResultsOf(m) \in Seq(ResultSet) /\ Results(ResultsOf(m), names) \in Seq(MessageSet)
  BY ResultsType, ResultsMessages
<1>6. ResultsAre(Results(ResultsOf(m), names), ResultsOf(m), names)
  BY <1>5, ResultsInResults
<1>7. ResultsAre(Results(ResultsOf(m), names) \o rest, ResultsOf(m), names)
  BY <1>4, <1>5, <1>6, ResultsBeside
<1>8. m.role # "system" => ChatAdds(m, names) = Results(ResultsOf(m), names) \o rest
  BY Zenon DEF ChatAdds, rest
<1>9. m.role = "system" => ChatAdds(m, names) = <<>>
  BY DEF ChatAdds
<1>10. ResultsAre(<<>>, ResultsOf(m), names)
  BY ResultsInNothing, Zenon DEF ResultsAre
<1> QED
  BY <1>7, <1>8, <1>9, <1>10, Zenon

LEMMA MessagesResults ==
    ASSUME NEW m \in SpokenSet, NEW names \in NamesSet
    PROVE  ResultsAre(MessagesAdds(m, names), ResultsOf(m), names)
<1> DEFINE first == IF Speech(m) = <<>> THEN <<>> ELSE <<Message(m.role, Speech(m))>>
<1>1. PICK b \in MessageSet : b = Message(m.role, Speech(m))
  BY SpokenRole, SpeechType, MessageTypeOf
<1>2. <<b>> \in Seq(MessageSet) /\ ResultsIn(<<b>>) = {}
  <2>1. \A d \in Range(b.blocks) : d.kind # "result"
    BY <1>1, RangeOfContent DEF Message
  <2> QED
    BY <2>1, NoResults
<1>3. <<>> \in Seq(MessageSet)
  OBVIOUS
<1>4. first \in Seq(MessageSet) /\ ResultsIn(first) = {}
  BY <1>1, <1>2, <1>3, ResultsInNothing
<1> HIDE DEF first
<1>5. ResultsOf(m) \in Seq(ResultSet) /\ Results(ResultsOf(m), names) \in Seq(MessageSet)
  BY ResultsType, ResultsMessages
<1>6. ResultsAre(Results(ResultsOf(m), names), ResultsOf(m), names)
  BY <1>5, ResultsInResults
<1>7. ResultsAre(first \o Results(ResultsOf(m), names), ResultsOf(m), names)
  BY <1>4, <1>5, <1>6, ResultsBeside
<1>8. m.role # "system" => MessagesAdds(m, names) = first \o Results(ResultsOf(m), names)
  BY Zenon DEF MessagesAdds, first
<1>9. m.role = "system" => MessagesAdds(m, names) = <<>>
  BY DEF MessagesAdds
<1>10. ResultsAre(<<>>, ResultsOf(m), names)
  BY ResultsInNothing, Zenon DEF ResultsAre
<1> QED
  BY <1>7, <1>8, <1>9, <1>10, Zenon

LEMMA CallMessagesNoResults ==
    ASSUME NEW cs \in Seq(CallSet)
    PROVE  ResultsIn(CallMessages(cs)) = {}
<1> DEFINE U == { s \in Seq(CallSet) : ResultsIn(CallMessages(s)) = {} }
<1>1. <<>> \in U
  <2>1. <<>> \in Seq(CallSet)
    OBVIOUS
  <2> QED
    BY <2>1, CallMessagesNothing, ResultsInNothing, Zenon
<1>2. ASSUME NEW s \in Seq(CallSet), NEW b \in CallSet, s \in U PROVE Append(s, b) \in U
  <2>1. PICK f \in Seq(MessageSet) : f = CallMessages(s)
    BY CallMessagesType
  <2>2. PICK x \in MessageSet : x = CallMessage(b)
    BY CallMessageType
  <2>3. CallMessages(Append(s, b)) = Append(f, x)
    BY <2>1, <2>2, CallMessagesAppend
  <2>4. <<x>> \in Seq(MessageSet) /\ Append(f, x) = f \o <<x>>
    OBVIOUS
  <2>5. ResultsIn(Append(f, x)) = ResultsIn(f) \cup ResultsIn(<<x>>)
    BY <2>4, ResultsInConcat
  <2>6. ResultsIn(<<x>>) = {}
    <3>1. x.blocks = <<b>> /\ b.kind # "result"
      BY <2>2 DEF CallMessage, Message, CallSet
    <3> QED
      BY <3>1, RangeOne, NoResults
  <2>7. ResultsIn(f) = {}
    BY <1>2, <2>1
  <2>8. Append(s, b) \in Seq(CallSet)
    OBVIOUS
  <2> QED
    BY <2>3, <2>5, <2>6, <2>7, <2>8
<1> HIDE DEF U
<1>3. cs \in U
  BY <1>1, <1>2, SeqInduction
<1> QED
  BY <1>3 DEF U

LEMMA RangeOfNonEmpty ==
    ASSUME NEW s \in Seq(BlockSet)
    PROVE  NonEmpty(s) \in Seq(BlockSet) /\ Range(NonEmpty(s)) \subseteq Range(s)
<1> DEFINE S == { b \in BlockSet : b.value # <<>> }
<1>1. NonEmpty(s) = Only(s, S) /\ NonEmpty(s) \in Seq(BlockSet)
  BY NonEmptyIs, NonEmptyType
<1>2. s \in Seq(Range(s))
  <2>1. DOMAIN s = 1..Len(s) /\ Len(s) \in Nat /\ \A i \in 1..Len(s) : s[i] \in Range(s)
    BY DEF Range
  <2> QED
    BY <2>1
<1>3. Only(s, S) \in Seq(Range(s))
  BY <1>2, OnlyKeeps
<1>4. Range(Only(s, S)) \subseteq Range(s)
  BY <1>3, RangeIs
<1> QED
  BY <1>1, <1>4

LEMMA ContentMessageNoResults ==
    ASSUME NEW m \in SpokenSet
    PROVE  \A b \in Range(ContentMessage(m).blocks) : b.kind # "result"
<1>1. /\ Inside(m) \in Seq(CallSet) /\ Inside(m) \in Seq(BlockSet) /\ NonEmpty(Content(m)) \in Seq(BlockSet)
      /\ Range(NonEmpty(Content(m))) \subseteq Range(Content(m))
  BY InsideType, CallsAreBlocks, ContentType, RangeOfNonEmpty
<1>2. Range(NonEmpty(Content(m)) \o Inside(m)) = Range(NonEmpty(Content(m))) \cup Range(Inside(m))
  BY <1>1, RangeOfBlocks
<1>3. \A b \in Range(Inside(m)) : b.kind # "result"
  BY <1>1, RangeOfCalls
<1>4. \A b \in Range(NonEmpty(Content(m))) : b.kind # "result"
  BY <1>1, RangeOfContent
<1> QED
  BY <1>2, <1>3, <1>4 DEF ContentMessage, Message

LEMMA ResponsesResults ==
    ASSUME NEW m \in SpokenSet, NEW names \in NamesSet
    PROVE  ResultsAre(ResponsesAdds(m, names), ResultsOf(m), names)
<1> DEFINE between == IF Accompanied(m) THEN <<ContentMessage(m)>> ELSE <<>>
<1>1. PICK b \in MessageSet : b = ContentMessage(m)
  BY ContentMessageType
<1>2. <<b>> \in Seq(MessageSet) /\ ResultsIn(<<b>>) = {}
  BY <1>1, ContentMessageNoResults, NoResults
<1>3. <<>> \in Seq(MessageSet)
  OBVIOUS
<1>4. between \in Seq(MessageSet) /\ ResultsIn(between) = {}
  BY <1>1, <1>2, <1>3, ResultsInNothing
<1>5. ResponsesAdds(m, names) = (Results(ResultsOf(m), names) \o between) \o CallMessages(Apart(m))
  BY Zenon DEF ResponsesAdds
<1> HIDE DEF between
<1>6. ResultsOf(m) \in Seq(ResultSet) /\ Results(ResultsOf(m), names) \in Seq(MessageSet)
  BY ResultsType, ResultsMessages
<1>7. ResultsAre(Results(ResultsOf(m), names) \o between, ResultsOf(m), names)
  BY <1>4, <1>6, ResultsInResults, ResultsBeside
<1>8. CallMessages(Apart(m)) \in Seq(MessageSet) /\ ResultsIn(CallMessages(Apart(m))) = {}
  BY InsideType, CallMessagesType, CallMessagesNoResults
<1>9. Results(ResultsOf(m), names) \o between \in Seq(MessageSet)
  BY <1>4, <1>6, MessagesConcat
<1> QED
  BY <1>5, <1>7, <1>8, <1>9, ResultsBeside

-----------------------------------------------------------------------------
(* Stamps *)

SaidSet == { b \in BlockSet : (b.kind = "call" => b \in CallSet) /\ (b.kind = "result" => b \in ResultSet) }

Stamped(A) ==
    \A p \in 1..Len(A) : A[p].value = <<p>> \/ (A[p].kind = "text" /\ A[p].value = <<>>)

CallsIn(A, id) == { b \in Range(A) : b.kind = "call" /\ b.id = id }

Latest(calls) ==
    IF calls = {} THEN "unknown"
    ELSE (CHOOSE c \in calls : \A d \in calls : d.value[1] <= c.value[1]).name

LEMMA LatestIs ==
    ASSUME NEW S, NEW c \in S, \A d \in S : d.value[1] \in Nat,
           \A d \in S : d = c \/ d.value[1] < c.value[1]
    PROVE  Latest(S) = c.name
<1> DEFINE x == CHOOSE x \in S : \A d \in S : d.value[1] <= x.value[1]
<1>1. \A d \in S : d.value[1] <= c.value[1]
  OBVIOUS
<1>2. x \in S /\ \A d \in S : d.value[1] <= x.value[1]
  BY <1>1
<1>3. Latest(S) = x.name
  BY DEF Latest
<1> HIDE DEF x
<1>4. x = c
  <2>1. c.value[1] <= x.value[1] /\ x.value[1] \in Nat /\ c.value[1] \in Nat
    BY <1>2
  <2>2. ~(x.value[1] < c.value[1])
    BY <2>1
  <2> QED
    BY <1>2, <2>2
<1> QED
  BY <1>3, <1>4

LEMMA SaidAreBlocks == SaidSet \subseteq BlockSet
  BY DEF SaidSet

LEMMA SaidSeq == ASSUME NEW A \in Seq(SaidSet) PROVE A \in Seq(BlockSet)
  BY SaidAreBlocks, SeqMonotonic

LEMMA NoteOne ==
    ASSUME NEW names \in NamesSet, NEW b \in CallSet, NEW id \in Ids
    PROVE  Note(names, <<b>>)[id] = IF b.id = id THEN b.name ELSE names[id]
<1>1. <<b>> \in Seq(CallSet)
  OBVIOUS
<1>2. PICK s \in Seq(CallSet) : s = <<b>>
  BY <1>1, Zenon
<1>3. Len(s) = 1 /\ s[1] = b /\ 1..1 = {1} /\ \A j \in 1..Len(s) : j <= 1
  BY <1>2
<1>4. CASE b.id = id
  <2>1. 1 \in 1..Len(s) /\ s[1].id = id /\ (\A j \in 1..Len(s) : s[j].id = id => j <= 1)
    BY <1>3, <1>4
  <2>2. Note(names, s)[id] = s[1].name
    BY <2>1, NoteIs
  <2> QED
    BY <1>2, <1>3, <1>4, <2>2
<1>5. CASE b.id # id
  <2>1. \A j \in 1..Len(s) : s[j].id # id
    BY <1>3, <1>5
  <2>2. Note(names, s)[id] = names[id]
    BY <2>1, NoteIs
  <2> QED
    BY <1>2, <1>5, <2>2
<1> QED
  BY <1>4, <1>5

LEMMA StampedAppend ==
    ASSUME NEW A \in Seq(BlockSet), NEW b \in BlockSet, Stamped(Append(A, b))
    PROVE  /\ Stamped(A)
           /\ b.value = <<Len(A) + 1>> \/ (b.kind = "text" /\ b.value = <<>>)
<1> DEFINE n == Len(A)
           t == Append(A, b)
<1>1. n \in Nat /\ Len(t) = n + 1 /\ t[n + 1] = b /\ \A p \in 1..n : t[p] = A[p]
  OBVIOUS
<1> HIDE DEF t, n
<1>2. \A p \in 1..n + 1 : t[p].value = <<p>> \/ (t[p].kind = "text" /\ t[p].value = <<>>)
  BY <1>1 DEF Stamped, t
<1>3. n + 1 \in 1..n + 1 /\ \A p \in 1..n : p \in 1..n + 1
  BY <1>1
<1>4. b.value = <<n + 1>> \/ (b.kind = "text" /\ b.value = <<>>)
  BY <1>1, <1>2, <1>3
<1>5. \A p \in 1..n : A[p].value = <<p>> \/ (A[p].kind = "text" /\ A[p].value = <<>>)
  BY <1>1, <1>2, <1>3
<1> QED
  BY <1>4, <1>5 DEF Stamped, n

LEMMA CallStamps ==
    ASSUME NEW A \in Seq(BlockSet), Stamped(A), NEW id
    PROVE  \A d \in CallsIn(A, id) : \E p \in 1..Len(A) : A[p] = d /\ d.value = <<p>> /\ d.value[1] = p
<1>1. ASSUME NEW d \in CallsIn(A, id) PROVE \E p \in 1..Len(A) : A[p] = d /\ d.value = <<p>> /\ d.value[1] = p
  <2>1. d \in Range(A) /\ d.kind = "call"
    BY DEF CallsIn
  <2>2. PICK p \in 1..Len(A) : A[p] = d
    BY <2>1, RangeIs
  <2>3. d.value = <<p>>
    BY <2>1, <2>2 DEF Stamped
  <2>4. d.value[1] = p
    BY <2>3
  <2> QED
    BY <2>2, <2>3, <2>4
<1> QED
  BY <1>1

\* The name noted for an id is that of the latest call with it, by the stamps.
LEMMA NamesByStamp ==
    ASSUME NEW A \in Seq(SaidSet), Stamped(A), NEW id \in Ids
    PROVE  Note(NoNames, OfKind(A, "call"))[id] = Latest(CallsIn(A, id))
<1> DEFINE U == { s \in Seq(SaidSet) :
                    /\ OfKind(s, "call") \in Seq(CallSet)
                    /\ Stamped(s) => Note(NoNames, OfKind(s, "call"))[id] = Latest(CallsIn(s, id)) }
<1>1. <<>> \in U
  <2>1. <<>> \in Seq(SaidSet) /\ <<>> \in Seq(CallSet)
    OBVIOUS
  <2>2. OfKind(<<>>, "call") = <<>>
    BY OfKindsNothing DEF OfKind
  <2>3. Note(NoNames, <<>>)[id] = "unknown"
    BY NoNamesType, NoteNothing DEF NoNames
  <2>4. CallsIn(<<>>, id) = {}
    BY RangeNothing DEF CallsIn
  <2>5. Latest(CallsIn(<<>>, id)) = "unknown"
    BY <2>4, Zenon DEF Latest
  <2>6. OfKind(<<>>, "call") \in Seq(CallSet) /\ Note(NoNames, OfKind(<<>>, "call"))[id] = Latest(CallsIn(<<>>, id))
    BY <2>1, <2>2, <2>3, <2>5, Zenon
  <2> QED
    BY <2>1, <2>6
<1>2. ASSUME NEW s \in Seq(SaidSet), NEW b \in SaidSet, s \in U PROVE Append(s, b) \in U
  <2>1. s \in Seq(BlockSet) /\ b \in BlockSet /\ <<b>> \in Seq(BlockSet) /\ Append(s, b) = s \o <<b>>
    BY SaidSeq, SaidAreBlocks
  <2>2. OfKinds(s \o <<b>>, {"call"}) = OfKinds(s, {"call"}) \o OfKinds(<<b>>, {"call"})
    BY <2>1, OfKindsConcat
  <2>3. OfKinds(<<b>>, {"call"}) = IF b.kind \in {"call"} THEN <<b>> ELSE <<>>
    BY <2>1, OfKindsOne
  <2>4. Range(Append(s, b)) = Range(s) \cup {b} /\ Append(s, b) \in Seq(SaidSet)
    BY RangeAppend
  <2>5. OfKind(s, "call") \in Seq(CallSet)
    BY <1>2
  <2>6. CASE b.kind # "call"
    <3>1. OfKind(Append(s, b), "call") = OfKind(s, "call")
      BY <2>1, <2>2, <2>3, <2>5, <2>6, ConcatEmptySeq DEF OfKind
    <3>2. CallsIn(Append(s, b), id) = CallsIn(s, id)
      BY <2>4, <2>6 DEF CallsIn
    <3>3. Stamped(Append(s, b)) => Stamped(s)
      BY <2>1, StampedAppend
    <3> QED
      BY <1>2, <2>4, <2>5, <3>1, <3>2, <3>3
  <2>7. CASE b.kind = "call"
    <3>1. b \in CallSet
      BY <2>7 DEF SaidSet
    <3>2. OfKind(Append(s, b), "call") = OfKind(s, "call") \o <<b>>
      BY <2>1, <2>2, <2>3, <2>7 DEF OfKind
    <3>3. <<b>> \in Seq(CallSet)
      BY <3>1
    <3>4. OfKind(s, "call") \o <<b>> \in Seq(CallSet)
      BY <2>5, <3>3
    <3>5. Note(NoNames, OfKind(Append(s, b), "call")) = Note(Note(NoNames, OfKind(s, "call")), <<b>>)
      BY <2>5, <3>2, <3>3, NoNamesType, NoteMore
    <3>6. Note(NoNames, OfKind(s, "call")) \in NamesSet
      BY <2>5, NoNamesType, NoteType
    <3>7. Note(NoNames, OfKind(Append(s, b), "call"))[id] =
            IF b.id = id THEN b.name ELSE Note(NoNames, OfKind(s, "call"))[id]
      BY <3>1, <3>5, <3>6, NoteOne
    <3>8. ASSUME Stamped(Append(s, b))
          PROVE  Note(NoNames, OfKind(Append(s, b), "call"))[id] = Latest(CallsIn(Append(s, b), id))
      <4>1. Stamped(s) /\ b.value = <<Len(s) + 1>> /\ b.value[1] = Len(s) + 1 /\ Len(s) \in Nat
        <5>1. Stamped(s) /\ (b.value = <<Len(s) + 1>> \/ (b.kind = "text" /\ b.value = <<>>))
          BY <2>1, <3>8, StampedAppend
        <5>2. b.value = <<Len(s) + 1>> /\ Len(s) \in Nat
          BY <2>7, <5>1
        <5>3. b.value[1] = Len(s) + 1
          BY <5>2
        <5> QED
          BY <5>1, <5>2, <5>3
      <4>2. CASE b.id # id
        <5>1. CallsIn(Append(s, b), id) = CallsIn(s, id)
          BY <2>4, <4>2 DEF CallsIn
        <5> QED
          BY <1>2, <3>7, <4>1, <4>2, <5>1
      <4>3. CASE b.id = id
        <5>1. CallsIn(Append(s, b), id) = CallsIn(s, id) \cup {b}
          BY <2>4, <2>7, <4>3 DEF CallsIn
        <5>2. \A d \in CallsIn(s, id) : d.value[1] \in 1..Len(s)
          BY <2>1, <4>1, CallStamps
        <5>3. /\ \A d \in CallsIn(s, id) \cup {b} : d.value[1] \in Nat
              /\ \A d \in CallsIn(s, id) \cup {b} : d = b \/ d.value[1] < b.value[1]
          BY <4>1, <5>2
        <5>4. Latest(CallsIn(s, id) \cup {b}) = b.name
          BY <5>3, LatestIs
        <5> QED
          BY <3>7, <4>3, <5>1, <5>4
      <4> QED
        BY <4>2, <4>3
    <3> QED
      BY <2>4, <3>2, <3>4, <3>8
  <2> QED
    BY <2>6, <2>7
<1> HIDE DEF U
<1>3. A \in U
  BY <1>1, <1>2, SeqInduction
<1> QED
  BY <1>3 DEF U

LEMMA BlocksSaid == ASSUME NEW m \in SpokenSet PROVE m.blocks \in Seq(SaidSet)
<1>1. SayableSet(m.role) \subseteq SaidSet
  BY DEF SayableSet, SaidSet
<1>2. m.blocks \in Seq(SayableSet(m.role))
  BY DEF SpokenSet
<1> QED
  BY <1>1, <1>2, SeqMonotonic

LEMMA AllSaid ==
    ASSUME NEW c \in Seq(SpokenSet)
    PROVE  /\ AllBlocks(c) \in Seq(SaidSet)
           /\ \A m \in SpokenSet : AllBlocks(Append(c, m)) = AllBlocks(c) \o m.blocks
<1> DEFINE U == { d \in Seq(SpokenSet) : AllBlocks(d) \in Seq(SaidSet) }
<1>0. ASSUME NEW d \in Seq(SpokenSet), NEW m \in SpokenSet
      PROVE  AllBlocks(Append(d, m)) = AllBlocks(d) \o m.blocks
  <2>1. d \in Seq(MessageSet) /\ m \in MessageSet
    BY SpokenMessages, SpokenAreMessages
  <2> QED
    BY <2>1, AllBlocksAppend
<1>1. <<>> \in U
  <2>1. <<>> \in Seq(SpokenSet) /\ <<>> \in Seq(SaidSet)
    OBVIOUS
  <2>2. AllBlocks(<<>>) \in Seq(SaidSet)
    BY <2>1, AllBlocksNothing, Zenon
  <2> QED
    BY <2>1, <2>2
<1>2. ASSUME NEW d \in Seq(SpokenSet), NEW m \in SpokenSet, d \in U PROVE Append(d, m) \in U
  <2>1. AllBlocks(d) \in Seq(SaidSet) /\ m.blocks \in Seq(SaidSet)
    BY <1>2, BlocksSaid
  <2>2. AllBlocks(d) \o m.blocks \in Seq(SaidSet)
    BY <2>1
  <2>3. Append(d, m) \in Seq(SpokenSet)
    OBVIOUS
  <2> QED
    BY <1>0, <2>2, <2>3
<1> HIDE DEF U
<1>3. c \in U
  BY <1>1, <1>2, SeqInduction
<1> QED
  BY <1>0, <1>3 DEF U

LEMMA StampedParts ==
    ASSUME NEW A \in Seq(BlockSet), NEW B \in Seq(BlockSet), Stamped(A \o B)
    PROVE  /\ Stamped(A)
           /\ \A i \in 1..Len(B) : B[i].value = <<Len(A) + i>> \/ (B[i].kind = "text" /\ B[i].value = <<>>)
<1> DEFINE n == Len(A)
           k == Len(B)
           t == A \o B
<1>1. /\ n \in Nat /\ k \in Nat /\ Len(t) = n + k /\ \A p \in 1..n : t[p] = A[p]
      /\ \A i \in 1..k : t[n + i] = B[i]
  OBVIOUS
<1> HIDE DEF t, n, k
<1>2. \A p \in 1..n + k : t[p].value = <<p>> \/ (t[p].kind = "text" /\ t[p].value = <<>>)
  BY <1>1 DEF Stamped, t
<1>3. (\A p \in 1..n : p \in 1..n + k) /\ (\A i \in 1..k : n + i \in 1..n + k)
  BY <1>1
<1>4. \A i \in 1..k : B[i].value = <<n + i>> \/ (B[i].kind = "text" /\ B[i].value = <<>>)
  BY <1>1, <1>2, <1>3
<1>5. \A p \in 1..n : A[p].value = <<p>> \/ (A[p].kind = "text" /\ A[p].value = <<>>)
  BY <1>1, <1>2, <1>3
<1> QED
  BY <1>4, <1>5 DEF Stamped, n, k

CallsUpTo(A, id, p) == { d \in CallsIn(A, id) : d.value[1] < p }

NamedIn(A, r) ==
    \E p \in 1..Len(A) :
       /\ A[p].kind = "result" /\ r.id = A[p].id /\ r.value = <<p>>
       /\ r.name = Latest(CallsUpTo(A, r.id, p))

\* What comes later is not among the calls before a place.
LEMMA CallsOfParts ==
    ASSUME NEW A \in Seq(BlockSet), NEW B \in Seq(BlockSet), Stamped(A \o B), NEW id,
           NEW p \in Nat, p <= Len(A) + 1
    PROVE  CallsUpTo(A \o B, id, p) = CallsUpTo(A, id, p)
<1>1. /\ Stamped(A)
      /\ \A i \in 1..Len(B) : B[i].value = <<Len(A) + i>> \/ (B[i].kind = "text" /\ B[i].value = <<>>)
  BY StampedParts
<1>2. Range(A \o B) = Range(A) \cup Range(B)
  BY RangeConcat
<1>3. ASSUME NEW d \in Range(B), d.kind = "call" PROVE ~(d.value[1] < p)
  <2>1. PICK i \in 1..Len(B) : B[i] = d
    BY RangeIs
  <2>2. d.value = <<Len(A) + i>>
    BY <1>1, <1>3, <2>1
  <2>3. d.value[1] = Len(A) + i /\ Len(A) \in Nat /\ i \in Nat /\ i >= 1
    BY <2>2
  <2> QED
    BY <2>3
<1> QED
  BY <1>2, <1>3 DEF CallsUpTo, CallsIn

\* A result that is named rightly stays so.
LEMMA NamedStays ==
    ASSUME NEW A \in Seq(BlockSet), NEW B \in Seq(BlockSet), Stamped(A \o B), NEW r, NamedIn(A, r)
    PROVE  NamedIn(A \o B, r)
<1>1. PICK p \in 1..Len(A) :
         /\ A[p].kind = "result" /\ r.id = A[p].id /\ r.value = <<p>>
         /\ r.name = Latest(CallsUpTo(A, r.id, p))
  BY DEF NamedIn
<1>2. /\ Len(A) \in Nat /\ p \in Nat /\ p <= Len(A) + 1
      /\ p \in 1..Len(A \o B) /\ (A \o B)[p] = A[p]
  OBVIOUS
<1>3. CallsUpTo(A \o B, r.id, p) = CallsUpTo(A, r.id, p)
  BY <1>2, CallsOfParts
<1> QED
  BY <1>1, <1>2, <1>3 DEF NamedIn

\* The results of a message that follows others.
LEMMA NamedHere ==
    ASSUME NEW A \in Seq(SaidSet), NEW m \in SpokenSet, Stamped(A \o m.blocks),
           NEW names, names = Note(NoNames, OfKind(A, "call")), names \in NamesSet,
           NEW b \in Range(ResultsOf(m))
    PROVE  NamedIn(A \o m.blocks, Renamed(b, names))
<1>1. A \in Seq(BlockSet) /\ m.blocks \in Seq(BlockSet)
  BY SaidSeq, BlocksType
<1>2. PICK B \in Seq(BlockSet) : B = m.blocks
  BY <1>1
<1>3. /\ Stamped(A)
      /\ \A i \in 1..Len(B) : B[i].value = <<Len(A) + i>> \/ (B[i].kind = "text" /\ B[i].value = <<>>)
  BY <1>1, <1>2, StampedParts
<1>4. ResultsOf(m) \in Seq(ResultSet) /\ (m.role # "user" => ResultsOf(m) = <<>>)
  BY ResultsType
<1>5. b \in ResultSet /\ b.kind = "result" /\ b.id \in Ids
  BY <1>4, RangeIs DEF ResultSet
<1>6. m.role = "user"
  BY <1>4, RangeNothing
<1>7. b \in Range(B)
  BY <1>1, <1>2, OfKindsRange DEF ResultsOf, OfKind
<1>8. PICK i \in 1..Len(B) : B[i] = b
  BY <1>7, RangeIs
<1> DEFINE p == Len(A) + i
<1>9. b.value = <<p>>
  BY <1>3, <1>5, <1>8
<1>10. /\ p \in 1..Len(A \o B) /\ (A \o B)[p] = b /\ p \in Nat /\ Len(A) \in Nat /\ Len(A) < p
  BY <1>1, <1>8
<1> HIDE DEF p
<1>11. CallsUpTo(A \o B, b.id, p) = CallsIn(A, b.id)
  <2>1. Range(A \o B) = Range(A) \cup Range(B)
    BY <1>1, RangeConcat
  <2>2. \A d \in Range(B) : d.kind # "call"
    <3>1. CallsOf(m) = <<>>
      BY <1>6, CallsType
    <3>2. Range(CallsOf(m)) = { d \in Range(B) : d.kind \in {"call"} }
      BY <1>1, <1>2, OfKindsRange DEF CallsOf, OfKind
    <3> QED
      BY <3>1, <3>2, RangeNothing
  <2>3. \A d \in CallsIn(A, b.id) : d.value[1] < p
    <3>1. ASSUME NEW d \in CallsIn(A, b.id) PROVE d.value[1] < p
      <4>1. PICK q \in 1..Len(A) : d.value[1] = q
        BY <1>1, <1>3, CallStamps
      <4> QED
        BY <1>10, <4>1
    <3> QED
      BY <3>1
  <2> QED
    BY <2>1, <2>2, <2>3 DEF CallsUpTo, CallsIn
<1>12. names[b.id] = Latest(CallsIn(A, b.id))
  BY <1>3, <1>5, NamesByStamp
<1>13. PICK r : r = Renamed(b, names)
  OBVIOUS
<1>14. r.kind = "result" /\ r.id = b.id /\ r.value = b.value /\ r.name = names[b.id]
  BY <1>5, <1>13, RenamedType
<1>15. NamedIn(A \o B, r)
  BY <1>5, <1>9, <1>10, <1>11, <1>12, <1>14 DEF NamedIn
<1> QED
  BY <1>2, <1>13, <1>15

\* The results of a message more are named rightly if the names noted before it are used.
LEMMA NamedStep ==
    ASSUME NEW c \in Seq(SpokenSet), NEW m \in SpokenSet, Stamped(AllBlocks(Append(c, m))),
           NEW out \in Seq(MessageSet), NEW adds \in Seq(MessageSet),
           \A r \in ResultsIn(out) : NamedIn(AllBlocks(c), r),
           ResultsAre(adds, ResultsOf(m), NamesAfter(c))
    PROVE  \A r \in ResultsIn(out \o adds) : NamedIn(AllBlocks(Append(c, m)), r)
<1>1. AllBlocks(c) \in Seq(SaidSet) /\ AllBlocks(Append(c, m)) = AllBlocks(c) \o m.blocks
  BY AllSaid
<1>2. AllBlocks(c) \in Seq(BlockSet) /\ m.blocks \in Seq(BlockSet)
  BY <1>1, SaidSeq, BlocksType
<1>3. ResultsIn(out \o adds) = ResultsIn(out) \cup ResultsIn(adds)
  BY ResultsInConcat
<1>4. PICK A \in Seq(SaidSet) : A = AllBlocks(c)
  BY <1>1
<1>5. PICK B \in Seq(BlockSet) : B = m.blocks
  BY <1>2
<1>6. Stamped(A \o B) /\ A \in Seq(BlockSet)
  BY <1>1, <1>2, <1>4, <1>5
<1>7. ASSUME NEW r \in ResultsIn(out) PROVE NamedIn(A \o B, r)
  <2>1. NamedIn(A, r)
    BY <1>4
  <2> QED
    BY <1>6, <2>1, NamedStays
<1>8. ASSUME NEW r \in ResultsIn(adds) PROVE NamedIn(A \o B, r)
  <2>1. PICK b \in Range(ResultsOf(m)) : r = Renamed(b, NamesAfter(c))
    BY DEF ResultsAre
  <2>2. NamesAfter(c) \in NamesSet /\ NamesAfter(c) = Note(NoNames, OfKind(A, "call"))
    BY <1>4, NamesAfterType DEF NamesAfter, CallsSaid
  <2>3. PICK n : n = NamesAfter(c)
    OBVIOUS
  <2>4. n \in NamesSet /\ n = Note(NoNames, OfKind(A, "call")) /\ Stamped(A \o m.blocks)
    BY <1>5, <1>6, <2>2, <2>3
  <2>5. NamedIn(A \o m.blocks, Renamed(b, n))
    BY <2>4, NamedHere
  <2> QED
    BY <1>5, <2>1, <2>3, <2>5
<1> QED
  BY <1>1, <1>3, <1>4, <1>5, <1>7, <1>8

LEMMA StampedBefore ==
    ASSUME NEW c \in Seq(SpokenSet), NEW m \in SpokenSet, Stamped(AllBlocks(Append(c, m)))
    PROVE  Stamped(AllBlocks(c))
<1>1. AllBlocks(c) \in Seq(SaidSet) /\ AllBlocks(Append(c, m)) = AllBlocks(c) \o m.blocks
  BY AllSaid
<1>2. AllBlocks(c) \in Seq(BlockSet) /\ m.blocks \in Seq(BlockSet)
  BY <1>1, SaidSeq, BlocksType
<1> QED
  BY <1>1, <1>2, StampedParts

LEMMA ChatNamed ==
    ASSUME NEW c \in Seq(SpokenSet), Stamped(AllBlocks(c))
    PROVE  \A r \in ResultsIn(ChatOut(c)) : NamedIn(AllBlocks(c), r)
<1> DEFINE U == { d \in Seq(SpokenSet) :
                    Stamped(AllBlocks(d)) => \A r \in ResultsIn(ChatOut(d)) : NamedIn(AllBlocks(d), r) }
<1>1. <<>> \in U
  <2>1. <<>> \in Seq(SpokenSet)
    OBVIOUS
  <2>2. ChatOut(<<>>) = <<>>
    BY ChatNothing DEF ChatOut, Acc
  <2>3. ResultsIn(ChatOut(<<>>)) = {}
    BY <2>2, ResultsInNothing, Zenon
  <2> QED
    BY <2>1, <2>3
<1>2. ASSUME NEW d \in Seq(SpokenSet), NEW m \in SpokenSet, d \in U PROVE Append(d, m) \in U
  <2>1. SUFFICES ASSUME Stamped(AllBlocks(Append(d, m)))
                 PROVE  \A r \in ResultsIn(ChatOut(Append(d, m))) : NamedIn(AllBlocks(Append(d, m)), r)
    <3>1. Append(d, m) \in Seq(SpokenSet)
      OBVIOUS
    <3> QED
      BY <3>1
  <2>2. Stamped(AllBlocks(d))
    BY <2>1, StampedBefore
  <2>3. \A r \in ResultsIn(ChatOut(d)) : NamedIn(AllBlocks(d), r)
    BY <1>2, <2>2
  <2>4. PICK n \in NamesSet : n = NamesAfter(d)
    BY NamesAfterType
  <2>5. ChatAdds(m, n) \in Seq(MessageSet) /\ ResultsAre(ChatAdds(m, n), ResultsOf(m), n)
    BY ChatAddsType, ChatResults
  <2>6. ChatOut(d) \in Seq(MessageSet) /\ ChatOut(Append(d, m)) = ChatOut(d) \o ChatAdds(m, n)
    BY <2>4, ChatType, ChatAppend
  <2>7. PICK adds \in Seq(MessageSet) : adds = ChatAdds(m, n)
    BY <2>5
  <2>8. PICK out \in Seq(MessageSet) : out = ChatOut(d)
    BY <2>6
  <2>9. \A r \in ResultsIn(out \o adds) : NamedIn(AllBlocks(Append(d, m)), r)
    <3>1. \A r \in ResultsIn(out) : NamedIn(AllBlocks(d), r)
      BY <2>3, <2>8
    <3>2. ResultsAre(adds, ResultsOf(m), NamesAfter(d))
      BY <2>4, <2>5, <2>7
    <3> QED
      BY <2>1, <3>1, <3>2, NamedStep
  <2> QED
    BY <2>6, <2>7, <2>8, <2>9
<1> HIDE DEF U
<1>3. c \in U
  BY <1>1, <1>2, SeqInduction
<1> QED
  BY <1>3 DEF U

LEMMA KnownResults ==
    ASSUME NEW m \in SpokenSet, NEW names \in NamesSet, Known(ResultsOf(m), names), NEW adds,
           ResultsAre(adds, ResultsOf(m), names)
    PROVE  \A r \in ResultsIn(adds) : r.name # "unknown"
<1>1. ResultsOf(m) \in Seq(ResultSet)
  BY ResultsType
<1>2. ASSUME NEW r \in ResultsIn(adds) PROVE r.name # "unknown"
  <2>1. PICK b \in Range(ResultsOf(m)) : r = Renamed(b, names)
    BY DEF ResultsAre
  <2>2. b \in ResultSet /\ \E i \in DOMAIN ResultsOf(m) : ResultsOf(m)[i] = b
    BY <1>1, RangeIs DEF Range
  <2>3. names[b.id] # "unknown"
    BY <2>2 DEF Known
  <2>4. Renamed(b, names).name = names[b.id]
    BY <2>2, RenamedType
  <2> QED
    BY <2>1, <2>3, <2>4
<1> QED
  BY <1>2

LEMMA ResponsesNamed ==
    ASSUME NEW c \in Seq(SpokenSet), Stamped(AllBlocks(c)), Responses(c).ok
    PROVE  \A r \in ResultsIn(ResponsesOut(c)) : NamedIn(AllBlocks(c), r) /\ r.name # "unknown"
<1> DEFINE U == { d \in Seq(SpokenSet) :
                    Stamped(AllBlocks(d)) /\ Responses(d).ok =>
                       \A r \in ResultsIn(ResponsesOut(d)) : NamedIn(AllBlocks(d), r) /\ r.name # "unknown" }
<1>1. <<>> \in U
  <2>1. <<>> \in Seq(SpokenSet)
    OBVIOUS
  <2>2. ResponsesOut(<<>>) = <<>>
    BY ResponsesNothing DEF ResponsesOut, RAcc
  <2>3. ResultsIn(ResponsesOut(<<>>)) = {}
    BY <2>2, ResultsInNothing, Zenon
  <2> QED
    BY <2>1, <2>3
<1>2. ASSUME NEW d \in Seq(SpokenSet), NEW m \in SpokenSet, d \in U PROVE Append(d, m) \in U
  <2>1. SUFFICES ASSUME Stamped(AllBlocks(Append(d, m))), Responses(Append(d, m)).ok
                 PROVE  \A r \in ResultsIn(ResponsesOut(Append(d, m))) :
                           NamedIn(AllBlocks(Append(d, m)), r) /\ r.name # "unknown"
    <3>1. Append(d, m) \in Seq(SpokenSet)
      OBVIOUS
    <3> QED
      BY <3>1
  <2>2. Stamped(AllBlocks(d)) /\ Responses(d).ok
    BY <2>1, StampedBefore, ResponsesBefore
  <2>3. \A r \in ResultsIn(ResponsesOut(d)) : NamedIn(AllBlocks(d), r) /\ r.name # "unknown"
    BY <1>2, <2>2
  <2>4. PICK n \in NamesSet : n = NamesAfter(d)
    BY NamesAfterType
  <2>5. ResponsesAdds(m, n) \in Seq(MessageSet) /\ ResultsAre(ResponsesAdds(m, n), ResultsOf(m), n)
    BY ResponsesAddsType, ResponsesResults
  <2>6. /\ ResponsesOut(d) \in Seq(MessageSet) /\ ResponsesOut(Append(d, m)) = ResponsesOut(d) \o ResponsesAdds(m, n)
        /\ Known(ResultsOf(m), n)
    BY <2>1, <2>2, <2>4, ResponsesType, ResponsesAppend DEF Sendable
  <2>7. PICK adds \in Seq(MessageSet) : adds = ResponsesAdds(m, n)
    BY <2>5
  <2>8. PICK out \in Seq(MessageSet) : out = ResponsesOut(d)
    BY <2>6
  <2>9. \A r \in ResultsIn(out \o adds) : NamedIn(AllBlocks(Append(d, m)), r)
    <3>1. \A r \in ResultsIn(out) : NamedIn(AllBlocks(d), r)
      BY <2>3, <2>8
    <3>2. ResultsAre(adds, ResultsOf(m), NamesAfter(d))
      BY <2>4, <2>5, <2>7
    <3> QED
      BY <2>1, <3>1, <3>2, NamedStep
  <2>10. \A r \in ResultsIn(out \o adds) : r.name # "unknown"
    <3>1. ResultsIn(out \o adds) = ResultsIn(out) \cup ResultsIn(adds)
      BY ResultsInConcat
    <3>2. \A r \in ResultsIn(adds) : r.name # "unknown"
      BY <2>5, <2>6, <2>7, KnownResults
    <3> QED
      BY <2>3, <2>8, <3>1, <3>2
  <2> QED
    BY <2>6, <2>7, <2>8, <2>9, <2>10
<1> HIDE DEF U
<1>3. c \in U
  BY <1>1, <1>2, SeqInduction
<1> QED
  BY <1>3 DEF U

\* The Messages translator takes all names from one dictionary.
LEMMA MessagesNamed ==
    ASSUME NEW c \in Seq(SpokenSet), NEW names \in NamesSet
    PROVE  \A r \in ResultsIn(MessagesOut(c, names)) : r.id \in Ids /\ r.name = names[r.id]
<1> DEFINE U == { d \in Seq(SpokenSet) :
                    \A r \in ResultsIn(MessagesOut(d, names)) : r.id \in Ids /\ r.name = names[r.id] }
<1>1. <<>> \in U
  <2>1. <<>> \in Seq(SpokenSet)
    OBVIOUS
  <2>2. ResultsIn(MessagesOut(<<>>, names)) = {}
    BY MessagesNothing, ResultsInNothing, Zenon
  <2> QED
    BY <2>1, <2>2
<1>2. ASSUME NEW d \in Seq(SpokenSet), NEW m \in SpokenSet, d \in U PROVE Append(d, m) \in U
  <2>1. MessagesAdds(m, names) \in Seq(MessageSet) /\ ResultsAre(MessagesAdds(m, names), ResultsOf(m), names)
    BY MessagesAddsType, MessagesResults
  <2>2. /\ MessagesOut(d, names) \in Seq(MessageSet)
        /\ MessagesOut(Append(d, m), names) = MessagesOut(d, names) \o MessagesAdds(m, names)
    BY MessagesType, MessagesAppend
  <2>3. ResultsIn(MessagesOut(Append(d, m), names)) =
           ResultsIn(MessagesOut(d, names)) \cup ResultsIn(MessagesAdds(m, names))
    BY <2>1, <2>2, ResultsInConcat
  <2>4. ASSUME NEW r \in ResultsIn(MessagesAdds(m, names)) PROVE r.id \in Ids /\ r.name = names[r.id]
    <3>1. PICK b \in Range(ResultsOf(m)) : r = Renamed(b, names)
      BY <2>1 DEF ResultsAre
    <3>2. ResultsOf(m) \in Seq(ResultSet)
      BY ResultsType
    <3>3. b \in ResultSet
      BY <3>2, RangeIs
    <3>4. b.id \in Ids
      BY <3>3 DEF ResultSet
    <3> QED
      BY <3>1, <3>3, <3>4, RenamedType
  <2>5. \A r \in ResultsIn(MessagesOut(d, names)) : r.id \in Ids /\ r.name = names[r.id]
    BY <1>2
  <2>6. Append(d, m) \in Seq(SpokenSet)
    OBVIOUS
  <2> QED
    BY <2>3, <2>4, <2>5, <2>6
<1> HIDE DEF U
<1>3. c \in U
  BY <1>1, <1>2, SeqInduction
<1> QED
  BY <1>3 DEF U

LEMMA LatestOne ==
    ASSUME NEW A \in Seq(BlockSet), Stamped(A), NEW id, CallsIn(A, id) # {}
    PROVE  Latest(CallsIn(A, id)) \in { d.name : d \in CallsIn(A, id) }
<1> DEFINE S == CallsIn(A, id)
           P == { p \in 1..Len(A) : A[p] \in S /\ A[p].value[1] = p }
<1>1. \A d \in S : \E p \in 1..Len(A) : A[p] = d /\ d.value = <<p>> /\ d.value[1] = p
  BY CallStamps
<1> HIDE DEF S
<1>2. PICK some : some \in S
  BY DEF S
<1>3. PICK p \in 1..Len(A) : A[p] = some /\ some.value[1] = p
  BY <1>1, <1>2
<1>4. Len(A) \in Nat /\ P \in SUBSET (1..Len(A)) /\ P # {}
  BY <1>2, <1>3
<1>5. Max(P) \in P /\ \A q \in P : q <= Max(P)
  BY <1>4, GreatestIn
<1>6. A[Max(P)] \in S /\ A[Max(P)].value[1] = Max(P) /\ Max(P) \in Nat
  BY <1>5
<1>7. ASSUME NEW d \in S PROVE d.value[1] \in Nat /\ (d = A[Max(P)] \/ d.value[1] < A[Max(P)].value[1])
  <2>1. PICK q \in 1..Len(A) : A[q] = d /\ d.value[1] = q
    BY <1>1
  <2>2. q \in P
    BY <2>1
  <2>3. q <= Max(P) /\ q \in Nat
    BY <1>5, <2>2
  <2>4. q = Max(P) \/ q < Max(P)
    BY <1>6, <2>3
  <2> QED
    BY <1>6, <2>1, <2>3, <2>4
<1> HIDE DEF P
<1>8. Latest(S) = A[Max(P)].name
  BY <1>6, <1>7, LatestIs
<1> QED
  BY <1>6, <1>8 DEF S

LEMMA NamedAlways ==
    ASSUME conversation \in Seq(SpokenSet), Stamped(AllBlocks(conversation))
    PROVE  NamedAfterTheirCalls
<1>1. PICK c \in Seq(SpokenSet) : c = conversation
  OBVIOUS
<1>2. AllBlocks(c) \in Seq(SaidSet)
  BY AllSaid
<1>3. PICK A \in Seq(SaidSet) : A = AllBlocks(c)
  BY <1>2
<1>4. A \in Seq(BlockSet) /\ Stamped(A) /\ Said = Range(A)
  BY <1>1, <1>3, SaidSeq DEF Said
<1>5. ASSUME NEW r, NamedIn(A, r) PROVE r.name = NameBefore(r)
  <2>1. PICK p \in 1..Len(A) : r.value = <<p>> /\ r.name = Latest(CallsUpTo(A, r.id, p))
    BY <1>5 DEF NamedIn
  <2>2. r.value[1] = p
    BY <2>1
  <2>3. CallsBefore(r) = CallsUpTo(A, r.id, p)
    BY <1>4, <2>2 DEF CallsBefore, CallsUpTo, CallsIn
  <2> QED
    BY <2>1, <2>3 DEF NameBefore, Latest
<1>6. \A r \in ResultsIn(Chat(conversation).out) : r.name = NameBefore(r)
  <2>1. Chat(conversation).out = ChatOut(c)
    BY <1>1 DEF ChatOut
  <2>2. \A r \in ResultsIn(ChatOut(c)) : NamedIn(A, r)
    BY <1>3, <1>4, ChatNamed
  <2> QED
    BY <1>5, <2>1, <2>2
<1>7. ASSUME Responses(conversation).ok
      PROVE  \A r \in ResultsIn(Responses(conversation).out) : r.name = NameBefore(r) /\ r.name # "unknown"
  <2>1. Responses(conversation).out = ResponsesOut(c) /\ Responses(c).ok
    BY <1>1, <1>7 DEF ResponsesOut
  <2>2. \A r \in ResultsIn(ResponsesOut(c)) : NamedIn(A, r) /\ r.name # "unknown"
    BY <1>3, <1>4, <2>1, ResponsesNamed
  <2> QED
    BY <1>5, <2>1, <2>2
<1>8. ASSUME NEW r \in ResultsIn(Messages(conversation).out), CallsBefore(r) # {}
      PROVE  /\ r.name \in { d.name : d \in { e \in Calls : e.id = r.id } }
             /\ IdsUsedOnce => r.name = NameBefore(r)
  <2>1. NamesAfter(c) \in NamesSet /\ NamesAfter(c) = Note(NoNames, OfKind(A, "call"))
    BY <1>3, NamesAfterType DEF NamesAfter, CallsSaid
  <2>2. r \in ResultsIn(MessagesOut(c, NamesAfter(c)))
    BY <1>1, <1>8, MessagesIs
  <2>3. r.id \in Ids /\ r.name = NamesAfter(c)[r.id]
    BY <2>1, <2>2, MessagesNamed
  <2>4. r.name = Latest(CallsIn(A, r.id))
    BY <1>4, <2>1, <2>3, NamesByStamp
  <2>5. /\ CallsBefore(r) \subseteq CallsIn(A, r.id)
        /\ CallsIn(A, r.id) = { e \in Calls : e.id = r.id }
    BY <1>4 DEF CallsBefore, CallsIn, Calls
  <2>6. CallsIn(A, r.id) # {}
    BY <1>8, <2>5
  <2>7. r.name \in { d.name : d \in CallsIn(A, r.id) }
    BY <1>4, <2>4, <2>6, LatestOne
  <2>8. ASSUME IdsUsedOnce PROVE CallsBefore(r) = CallsIn(A, r.id)
    BY <1>8, <2>5, <2>8 DEF IdsUsedOnce
  <2>9. IdsUsedOnce => r.name = NameBefore(r)
    BY <2>4, <2>8 DEF NameBefore, Latest
  <2> QED
    BY <2>5, <2>7, <2>9
<1> QED
  BY <1>6, <1>7, <1>8, Zenon DEF NamedAfterTheirCalls

-----------------------------------------------------------------------------
(* The conversations there are *)

\* A conversation is made of what its roles say, and a block's stamp is its place.
ConversationInv == conversation \in Seq(SpokenSet) /\ Stamped(AllBlocks(conversation))

LEMMA BlockType ==
    ASSUME NEW kind \in Kinds, NEW id \in Ids \cup {Blank}, NEW name \in Names \cup {Blank, "unknown"},
           NEW value \in Seq(Stamps)
    PROVE  /\ Block(kind, id, name, value) \in BlockSet
           /\ Block(kind, id, name, value).kind = kind /\ Block(kind, id, name, value).id = id
           /\ Block(kind, id, name, value).name = name /\ Block(kind, id, name, value).value = value
  BY DEF Block, BlockSet

LEMMA PlainType ==
    ASSUME NEW kind \in Kinds, NEW value \in Seq(Stamps)
    PROVE  /\ Block(kind, Blank, Blank, value) \in BlockSet
           /\ Block(kind, Blank, Blank, value).kind = kind /\ Block(kind, Blank, Blank, value).value = value
  BY DEF Block, BlockSet

LEMMA MaySay ==
    ASSUME NEW role, NEW b \in BlockSet, b.kind \in KindsOf(role),
           b.kind = "call" => b \in CallSet, b.kind = "result" => b \in ResultSet
    PROVE  b \in SayableSet(role)
  BY DEF SayableSet

\* What a client may say next fits its role and carries the next stamp, or none.
LEMMA SayableIs ==
    ASSUME NEW role \in {"system", "user", "assistant"}, NEW stamp \in Stamps, NEW b \in Sayable(role, stamp)
    PROVE  /\ b \in SayableSet(role)
           /\ b.value = <<stamp>> \/ (b.kind = "text" /\ b.value = <<>>)
<1> <<stamp>> \in Seq(Stamps)
  OBVIOUS
<1>1. PICK v \in Seq(Stamps) : v = <<stamp>>
  OBVIOUS
<1>2. /\ <<>> \in Seq(Stamps) /\ "text" \in Kinds /\ "image" \in Kinds
      /\ "thinking" \in Kinds /\ "call" \in Kinds /\ "result" \in Kinds
  BY DEF Kinds
<1>3. /\ "text" \in KindsOf(role)
      /\ role = "user" => "image" \in KindsOf(role) /\ "result" \in KindsOf(role)
      /\ role = "assistant" => "thinking" \in KindsOf(role) /\ "call" \in KindsOf(role)
  BY DEF KindsOf
<1>4. CASE b = Block("text", Blank, Blank, v)
  <2>1. b \in BlockSet /\ b.kind = "text" /\ b.value = v
    BY <1>2, <1>4, PlainType
  <2> QED
    BY <1>1, <1>3, <2>1, MaySay
<1>5. CASE b = Block("text", Blank, Blank, <<>>)
  <2>1. b \in BlockSet /\ b.kind = "text" /\ b.value = <<>>
    BY <1>2, <1>5, PlainType
  <2> QED
    BY <1>3, <2>1, MaySay
<1>6. CASE role = "user" /\ b = Block("image", Blank, Blank, v)
  <2>1. b \in BlockSet /\ b.kind = "image" /\ b.value = v
    BY <1>2, <1>6, PlainType
  <2> QED
    BY <1>1, <1>3, <1>6, <2>1, MaySay
<1>7. CASE role = "user" /\ b \in { Block("result", id, Blank, v) : id \in Ids }
  <2>1. PICK id \in Ids : b = Block("result", id, Blank, v)
    BY <1>7
  <2>2. b \in BlockSet /\ b.kind = "result" /\ b.id = id /\ b.value = v
    BY <1>2, <2>1, BlockType
  <2> QED
    BY <1>1, <1>3, <1>7, <2>2, MaySay DEF ResultSet
<1>8. CASE role = "assistant" /\ b = Block("thinking", Blank, Blank, v)
  <2>1. b \in BlockSet /\ b.kind = "thinking" /\ b.value = v
    BY <1>2, <1>8, PlainType
  <2> QED
    BY <1>1, <1>3, <1>8, <2>1, MaySay
<1>9. CASE role = "assistant" /\ b \in { Block("call", id, name, v) : id \in Ids, name \in Names }
  <2>1. PICK id \in Ids, name \in Names : b = Block("call", id, name, v)
    BY <1>9
  <2>2. b \in BlockSet /\ b.kind = "call" /\ b.id = id /\ b.name = name /\ b.value = v
    BY <1>2, <2>1, BlockType
  <2> QED
    BY <1>1, <1>3, <1>9, <2>2, MaySay DEF CallSet
<1>10. \/ b = Block("text", Blank, Blank, v) \/ b = Block("text", Blank, Blank, <<>>)
       \/ role = "user" /\ b = Block("image", Blank, Blank, v)
       \/ role = "user" /\ b \in { Block("result", id, Blank, v) : id \in Ids }
       \/ role = "assistant" /\ b = Block("thinking", Blank, Blank, v)
       \/ role = "assistant" /\ b \in { Block("call", id, name, v) : id \in Ids, name \in Names }
  <2>1. CASE role = "system"
    BY <1>1, <2>1 DEF Sayable, Text
  <2>2. CASE role = "user"
    BY <1>1, <2>2 DEF Sayable, Text
  <2>3. CASE role = "assistant"
    BY <1>1, <2>3 DEF Sayable, Text
  <2> QED
    BY <2>1, <2>2, <2>3
<1> QED
  BY <1>4, <1>5, <1>6, <1>7, <1>8, <1>9, <1>10

LEMMA SaidMore ==
    ASSUME NEW m \in SpokenSet, NEW b \in SayableSet(m.role)
    PROVE  /\ [m EXCEPT !.blocks = Append(@, b)] \in SpokenSet
           /\ [m EXCEPT !.blocks = Append(@, b)].blocks = Append(m.blocks, b)
<1>1. /\ m \in [role : Roles, blocks : Seq(BlockSet)]
      /\ m.role \in {"system", "user", "assistant"} /\ m.blocks \in Seq(SayableSet(m.role))
  BY DEF SpokenSet, MessageSet
<1>2. Append(m.blocks, b) \in Seq(SayableSet(m.role))
  BY <1>1
<1>3. Append(m.blocks, b) \in Seq(BlockSet)
  BY <1>1 DEF SayableSet
<1>4. PICK more \in Seq(BlockSet) : more = Append(m.blocks, b)
  BY <1>3
<1>5. more \in Seq(SayableSet(m.role))
  BY <1>2, <1>4
<1>6. [m EXCEPT !.blocks = more] = [role |-> m.role, blocks |-> more]
  BY <1>1
<1>7. [m EXCEPT !.blocks = Append(@, b)] = [m EXCEPT !.blocks = more]
  BY <1>4, Zenon
<1>8. [role |-> m.role, blocks |-> more] \in SpokenSet
  BY <1>1, <1>5 DEF SpokenSet, MessageSet
<1> QED
  BY <1>4, <1>6, <1>7, <1>8

LEMMA LastReplaced ==
    ASSUME NEW T, NEW c \in Seq(T), Len(c) > 0
    PROVE  \E front \in Seq(T) :
              /\ c = Append(front, c[Len(c)])
              /\ \A x \in T : [c EXCEPT ![Len(c)] = x] = Append(front, x)
<1>1. PICK n \in Nat : n + 1 = Len(c)
  <2>1. Len(c) \in Nat /\ Len(c) - 1 \in Nat /\ (Len(c) - 1) + 1 = Len(c)
    OBVIOUS
  <2> QED
    BY <2>1
<1>2. DOMAIN c = 1..n + 1 /\ \A i \in 1..n + 1 : c[i] \in T
  BY <1>1
<1>3. PICK front \in Seq(T) : Len(front) = n /\ \A i \in 1..n : front[i] = c[i]
  <2>1. [i \in 1..n |-> c[i]] \in Seq(T) /\ Len([i \in 1..n |-> c[i]]) = n
    BY <1>2
  <2>2. \A i \in 1..n : [j \in 1..n |-> c[j]][i] = c[i]
    OBVIOUS
  <2> QED
    BY <2>1, <2>2
<1>4. ASSUME NEW x \in T PROVE [c EXCEPT ![n + 1] = x] = Append(front, x)
  <2> DEFINE d == [c EXCEPT ![n + 1] = x]
             e == Append(front, x)
  <2>1. d \in Seq(T) /\ Len(d) = n + 1 /\ d[n + 1] = x /\ \A i \in 1..n : d[i] = c[i]
    BY <1>1, <1>2
  <2>2. e \in Seq(T) /\ Len(e) = n + 1 /\ e[n + 1] = x /\ \A i \in 1..n : e[i] = c[i]
    BY <1>3
  <2> HIDE DEF d, e
  <2>3. \A i \in 1..n + 1 : d[i] = e[i]
    BY <2>1, <2>2
  <2>4. d = e
    BY <2>1, <2>2, <2>3
  <2> QED
    BY <2>4 DEF d, e
<1>5. [c EXCEPT ![n + 1] = c[n + 1]] = c /\ c[n + 1] \in T
  BY <1>2
<1>6. c = Append(front, c[n + 1])
  BY <1>4, <1>5
<1> QED
  BY <1>1, <1>4, <1>6

LEMMA StampedMore ==
    ASSUME NEW A \in Seq(BlockSet), Stamped(A), NEW b \in BlockSet,
           b.value = <<Len(A) + 1>> \/ (b.kind = "text" /\ b.value = <<>>)
    PROVE  Stamped(Append(A, b))
  BY DEF Stamped

LEMMA AppendBlock ==
    ASSUME NEW s \in Seq(BlockSet), NEW t \in Seq(BlockSet), NEW b \in BlockSet
    PROVE  s \o Append(t, b) = Append(s \o t, b)
  OBVIOUS

LEMMA InitConversation == Init => ConversationInv
<1>1. <<>> \in Seq(SpokenSet) /\ Len(<<>>) = 0
  OBVIOUS
<1> QED
  BY <1>1, AllBlocksNothing DEF Init, ConversationInv, Stamped

LEMMA OpenConversation ==
    ASSUME ConversationInv, NEW role \in {"system", "user", "assistant"}, Open(role)
    PROVE  ConversationInv'
<1> DEFINE m == [role |-> role, blocks |-> <<>>]
<1>1. m \in SpokenSet /\ m.blocks = <<>>
  <2>1. <<>> \in Seq(SayableSet(role)) /\ <<>> \in Seq(BlockSet)
    OBVIOUS
  <2> QED
    BY <2>1 DEF SpokenSet, MessageSet, Roles
<1>2. conversation \in Seq(SpokenSet) /\ conversation' = Append(conversation, m)
  BY DEF Open, ConversationInv
<1> HIDE DEF m
<1>3. conversation' \in Seq(SpokenSet)
  BY <1>1, <1>2
<1>4. AllBlocks(conversation) \in Seq(SaidSet)
  BY <1>2, AllSaid
<1>5. AllBlocks(Append(conversation, m)) = AllBlocks(conversation) \o m.blocks
  BY <1>1, <1>2, AllSaid
<1>6. AllBlocks(Append(conversation, m)) = AllBlocks(conversation)
  BY <1>1, <1>4, <1>5
<1> QED
  BY <1>2, <1>3, <1>6 DEF ConversationInv

LEMMA SayConversation ==
    ASSUME ConversationInv, Say
    PROVE  ConversationInv'
<1> DEFINE n == Len(conversation)
           c == conversation
           m == c[n]
           A == AllBlocks(c)
<1>1. PICK b \in Sayable(m.role, Len(A) + 1) : c' = [c EXCEPT ![n].blocks = Append(@, b)]
  BY DEF Say
<1>2. c \in Seq(SpokenSet) /\ n \in Nat /\ n > 0 /\ Len(A) < MaxBlocks /\ m \in SpokenSet
  BY DEF Say, ConversationInv
<1>3. A \in Seq(SaidSet) /\ A \in Seq(BlockSet)
  BY <1>2, AllSaid, SaidSeq
<1>4. Len(A) + 1 \in Stamps /\ m.role \in {"system", "user", "assistant"}
  BY <1>2, <1>3, ConversationAssumption, SpokenRole DEF Stamps
<1>5. b \in SayableSet(m.role) /\ (b.value = <<Len(A) + 1>> \/ (b.kind = "text" /\ b.value = <<>>))
  BY <1>1, <1>4, SayableIs
<1>6. PICK said \in SpokenSet : said = [m EXCEPT !.blocks = Append(@, b)] /\ said.blocks = Append(m.blocks, b)
  BY <1>2, <1>5, SaidMore
<1>7. c' = [c EXCEPT ![n] = said]
  BY <1>1, <1>2, <1>6
<1>8. PICK front \in Seq(SpokenSet) : c = Append(front, m) /\ c' = Append(front, said)
  BY <1>2, <1>7, LastReplaced
<1>9. c' \in Seq(SpokenSet)
  BY <1>8
<1>10. AllBlocks(c) = AllBlocks(front) \o m.blocks
  BY <1>2, <1>8, AllSaid
<1>11. AllBlocks(c') = AllBlocks(front) \o said.blocks
  BY <1>8, AllSaid
<1>12. b \in BlockSet /\ m.blocks \in Seq(BlockSet)
  BY <1>2, <1>5, BlocksType DEF SayableSet
<1>13. AllBlocks(front) \in Seq(BlockSet)
  BY AllSaid, SaidSeq
<1>14. AllBlocks(c') = Append(A, b)
  BY <1>6, <1>10, <1>11, <1>12, <1>13, AppendBlock
<1>15. Stamped(Append(A, b))
  BY <1>3, <1>5, <1>12, StampedMore DEF ConversationInv
<1> QED
  BY <1>9, <1>14, <1>15 DEF ConversationInv

LEMMA StepConversation == ConversationInv /\ [Next]_vars => ConversationInv'
<1> SUFFICES ASSUME ConversationInv, [Next]_vars PROVE ConversationInv'
  OBVIOUS
<1>1. CASE UNCHANGED conversation
  BY <1>1 DEF ConversationInv
<1>2. ASSUME NEW role \in {"system", "user", "assistant"}, Open(role) PROVE ConversationInv'
  BY <1>2, OpenConversation
<1>3. CASE Say
  BY <1>3, SayConversation
<1> QED
  BY <1>1, <1>2, <1>3 DEF Next, vars

-----------------------------------------------------------------------------
(* What a role says *)

SaidIn(out, role, kind) == Joined(OfKind(AllBlocks(OfRoles(out, {role})), kind))

LEMMA TextConcat ==
    ASSUME NEW s \in Seq(BlockSet), NEW t \in Seq(BlockSet), NEW kind
    PROVE  /\ OfKind(s, kind) \in Seq(BlockSet) /\ Joined(OfKind(s, kind)) \in Seq(Stamps)
           /\ Joined(OfKind(s \o t, kind)) = Joined(OfKind(s, kind)) \o Joined(OfKind(t, kind))
<1>1. OfKind(s, kind) \in Seq(BlockSet) /\ OfKind(t, kind) \in Seq(BlockSet)
  BY OfKindsType DEF OfKind
<1>2. OfKind(s \o t, kind) = OfKind(s, kind) \o OfKind(t, kind)
  BY OfKindsConcat DEF OfKind
<1> QED
  BY <1>1, <1>2, JoinedConcat, JoinedType

LEMMA SaidInNothing == ASSUME NEW role, NEW kind PROVE SaidIn(<<>>, role, kind) = <<>>
<1>1. OfRoles(<<>>, {role}) = <<>>
  BY OfRolesNothing
<1>2. OfKind(<<>>, kind) = <<>>
  BY OfKindsNothing DEF OfKind
<1> QED
  BY <1>1, <1>2, AllBlocksNothing, JoinedNothing DEF SaidIn

LEMMA SaidInConcat ==
    ASSUME NEW s \in Seq(MessageSet), NEW t \in Seq(MessageSet), NEW role, NEW kind
    PROVE  /\ SaidIn(s, role, kind) \in Seq(Stamps)
           /\ SaidIn(s \o t, role, kind) = SaidIn(s, role, kind) \o SaidIn(t, role, kind)
<1>1. PICK a \in Seq(MessageSet) : a = OfRoles(s, {role})
  BY OfRolesType
<1>2. PICK b \in Seq(MessageSet) : b = OfRoles(t, {role})
  BY OfRolesType
<1>3. OfRoles(s \o t, {role}) = a \o b
  <2> DEFINE R == {role}
  <2> HIDE DEF R
  <2>1. OfRoles(s \o t, R) = OfRoles(s, R) \o OfRoles(t, R)
    BY OfRolesConcat
  <2> QED
    BY <1>1, <1>2, <2>1, Zenon DEF R
<1>4. PICK p \in Seq(BlockSet) : p = AllBlocks(a)
  BY AllBlocksType
<1>5. PICK q \in Seq(BlockSet) : q = AllBlocks(b)
  BY AllBlocksType
<1>6. AllBlocks(a \o b) = p \o q
  BY <1>4, <1>5, AllBlocksConcat
<1>7. Joined(OfKind(p \o q, kind)) = Joined(OfKind(p, kind)) \o Joined(OfKind(q, kind))
      /\ Joined(OfKind(p, kind)) \in Seq(Stamps)
  BY TextConcat
<1> QED
  BY <1>1, <1>2, <1>3, <1>4, <1>5, <1>6, <1>7 DEF SaidIn

LEMMA SaidInOne ==
    ASSUME NEW m \in MessageSet, NEW role, NEW kind
    PROVE  SaidIn(<<m>>, role, kind) = IF m.role = role THEN Joined(OfKind(m.blocks, kind)) ELSE <<>>
<1>1. OfRoles(<<m>>, {role}) = IF m.role \in {role} THEN <<m>> ELSE <<>>
  BY OfRolesOne
<1>2. CASE m.role = role
  <2>1. OfRoles(<<m>>, {role}) = <<m>>
    BY <1>1, <1>2
  <2>2. AllBlocks(<<m>>) = m.blocks
    BY AllBlocksOne
  <2> QED
    BY <1>2, <2>1, <2>2 DEF SaidIn
<1>3. CASE m.role # role
  <2>1. OfRoles(<<m>>, {role}) = <<>>
    BY <1>1, <1>3
  <2>2. OfKind(<<>>, kind) = <<>>
    BY OfKindsNothing DEF OfKind
  <2> QED
    BY <1>3, <2>1, <2>2, AllBlocksNothing, JoinedNothing DEF SaidIn
<1> QED
  BY <1>2, <1>3

\* Blocks of one kind, among themselves.
LEMMA KindOfOthers ==
    ASSUME NEW kinds, NEW s \in Seq(Of(kinds)), NEW kind
    PROVE  /\ s \in Seq(BlockSet)
           /\ kind \notin kinds => OfKind(s, kind) = <<>>
           /\ kinds = {kind} => OfKind(s, kind) = s
<1>1. Of(kinds) \subseteq BlockSet
  BY DEF Of
<1>2. s \in Seq(BlockSet)
  BY <1>1
<1>3. ASSUME kind \notin kinds PROVE OfKind(s, kind) = <<>>
  <2>1. {kind} \cap kinds = {}
    BY <1>3
  <2> QED
    BY <2>1, OfKindsNone DEF OfKind
<1>4. ASSUME kinds = {kind} PROVE OfKind(s, kind) = s
  BY <1>4, OfKindsAll DEF OfKind
<1> QED
  BY <1>2, <1>3, <1>4

LEMMA CallsKind ==
    ASSUME NEW cs \in Seq(CallSet), NEW kind
    PROVE  Joined(OfKind(cs, kind)) = IF kind = "call" THEN Joined(cs) ELSE <<>>
<1>1. CallSet \subseteq Of({"call"})
  BY DEF CallSet, Of
<1>2. cs \in Seq(Of({"call"}))
  BY <1>1
<1>3. kind # "call" => OfKind(cs, kind) = <<>>
  BY <1>2, KindOfOthers
<1>4. kind = "call" => OfKind(cs, kind) = cs
  BY <1>2, KindOfOthers
<1> QED
  BY <1>3, <1>4, JoinedNothing

\* Only the texts of a sequence count: blank blocks may go.
LEMMA JoinedNonEmpty ==
    ASSUME NEW s \in Seq(BlockSet)
    PROVE  Joined(Only(s, { b \in BlockSet : b.value # <<>> })) = Joined(s)
<1> DEFINE NE == { b \in BlockSet : b.value # <<>> }
           U == { t \in Seq(BlockSet) : Joined(Only(t, NE)) = Joined(t) }
<1>1. <<>> \in U
  <2>1. <<>> \in Seq(BlockSet)
    OBVIOUS
  <2> QED
    BY <2>1, OnlyNothing
<1>2. ASSUME NEW t \in Seq(BlockSet), NEW b \in BlockSet, t \in U PROVE Append(t, b) \in U
  <2>1. PICK o \in Seq(BlockSet) : o = Only(t, NE)
    BY OnlyKeeps
  <2>2. Only(Append(t, b), NE) = o \o (IF b \in NE THEN <<b>> ELSE <<>>)
    BY <2>1, OnlyAppend
  <2>3. Joined(Append(t, b)) = Joined(t) \o b.value /\ Joined(t) \in Seq(Stamps)
    BY JoinedAppend, JoinedType
  <2>4. Joined(o) = Joined(t)
    BY <1>2, <2>1
  <2>7. Append(t, b) \in Seq(BlockSet)
    OBVIOUS
  <2>5. CASE b \in NE
    <3>1. Only(Append(t, b), NE) = Append(o, b)
      <4>1. Append(o, b) = o \o <<b>>
        OBVIOUS
      <4>2. Only(Append(t, b), NE) = o \o <<b>>
        BY <2>2, <2>5, Zenon
      <4> QED
        BY <4>1, <4>2, Zenon
    <3>2. Joined(Append(o, b)) = Joined(o) \o b.value
      BY JoinedAppend
    <3>3. Joined(Only(Append(t, b), NE)) = Joined(Append(t, b))
      BY <2>3, <2>4, <3>1, <3>2, Zenon
    <3> QED
      BY <2>7, <3>3
  <2>6. CASE b \notin NE
    <3>1. b.value = <<>>
      BY <2>6
    <3>2. Only(Append(t, b), NE) = o
      BY <2>1, <2>2, <2>6
    <3>3. Joined(Append(t, b)) = Joined(t)
      BY <2>3, <3>1
    <3>4. Joined(Only(Append(t, b), NE)) = Joined(Append(t, b))
      BY <2>4, <3>2, <3>3, Zenon
    <3> QED
      BY <2>7, <3>4
  <2> QED
    BY <2>5, <2>6
<1> HIDE DEF U
<1>3. s \in U
  BY <1>1, <1>2, SeqInduction
<1> QED
  BY <1>3 DEF U

LEMMA NonEmptyKind ==
    ASSUME NEW s \in Seq(BlockSet), NEW kind
    PROVE  Joined(OfKind(NonEmpty(s), kind)) = Joined(OfKind(s, kind))
<1> DEFINE NE == { b \in BlockSet : b.value # <<>> }
           K == Of({kind})
<1>1. NonEmpty(s) = Only(s, NE) /\ NonEmpty(s) \in Seq(BlockSet)
  BY NonEmptyIs, NonEmptyType
<1>2. OfKind(NonEmpty(s), kind) = Only(NonEmpty(s), K) /\ OfKind(s, kind) = Only(s, K)
  BY <1>1, OfKindsIs DEF OfKind
<1> HIDE DEF NE, K
<1>3. Only(Only(s, NE), K) = Only(s, NE \cap K) /\ Only(Only(s, K), NE) = Only(s, K \cap NE)
  BY OnlyOnly
<1>4. NE \cap K = K \cap NE
  OBVIOUS
<1>5. Only(s, K) \in Seq(BlockSet)
  BY OnlyKeeps
<1>6. Joined(Only(Only(s, K), NE)) = Joined(Only(s, K))
  BY <1>5, JoinedNonEmpty DEF NE
<1> QED
  BY <1>1, <1>2, <1>3, <1>4, <1>6

\* What a message makes a role say upstream.
Says(m, role, kind) ==
    IF role = "tool" THEN (IF kind = "result" THEN Joined(ResultsOf(m)) ELSE <<>>)
    ELSE IF role = m.role /\ kind \in {"text", "image", "call"} THEN Joined(OfKind(m.blocks, kind))
    ELSE <<>>

LEMMA ResultsSay ==
    ASSUME NEW rs \in Seq(ResultSet), NEW names \in NamesSet, NEW role, NEW kind
    PROVE  SaidIn(Results(rs, names), role, kind) =
              IF role = "tool" /\ kind = "result" THEN Joined(rs) ELSE <<>>
<1> DEFINE U == { s \in Seq(ResultSet) :
                    SaidIn(Results(s, names), role, kind) =
                       IF role = "tool" /\ kind = "result" THEN Joined(s) ELSE <<>> }
<1>1. <<>> \in U
  <2>1. <<>> \in Seq(ResultSet)
    OBVIOUS
  <2>2. SaidIn(Results(<<>>, names), role, kind) = <<>>
    BY ResultsNothing, SaidInNothing, Zenon
  <2> QED
    BY <2>1, <2>2, JoinedNothing
<1>2. ASSUME NEW s \in Seq(ResultSet), NEW b \in ResultSet, s \in U PROVE Append(s, b) \in U
  <2>1. PICK f \in Seq(MessageSet) : f = Results(s, names)
    BY ResultsMessages
  <2>2. PICK x \in MessageSet : x = Result(b, names)
    BY ResultType
  <2>3. Results(Append(s, b), names) = Append(f, x)
    BY <2>1, <2>2, ResultsAppend
  <2>4. <<x>> \in Seq(MessageSet) /\ Append(f, x) = f \o <<x>>
    OBVIOUS
  <2>5. PICK r \in BlockSet : r = Renamed(b, names)
    BY RenamedType
  <2>6. r.kind = "result" /\ r.value = b.value
    BY <2>5, RenamedType
  <2>7. x.role = "tool" /\ x.blocks = <<r>>
    BY <2>2, <2>5, ResultIs DEF Message
  <2>8. OfKind(<<r>>, kind) = IF kind = "result" THEN <<r>> ELSE <<>>
    BY <2>6, OfKindsOne DEF OfKind
  <2>9. SaidIn(<<x>>, role, kind) = IF role = "tool" /\ kind = "result" THEN b.value ELSE <<>>
    BY <2>6, <2>7, <2>8, SaidInOne, JoinedOne, JoinedNothing
  <2>10. /\ SaidIn(f, role, kind) \in Seq(Stamps)
         /\ SaidIn(f \o <<x>>, role, kind) = SaidIn(f, role, kind) \o SaidIn(<<x>>, role, kind)
    <3>1. PICK y \in Seq(MessageSet) : y = <<x>>
      BY <2>4
    <3>2. SaidIn(f, role, kind) \in Seq(Stamps) /\ SaidIn(f \o y, role, kind) = SaidIn(f, role, kind) \o SaidIn(y, role, kind)
      BY SaidInConcat
    <3> QED
      BY <3>1, <3>2
  <2>11. b \in BlockSet /\ s \in Seq(BlockSet) /\ Append(s, b) \in Seq(ResultSet)
    BY CallSetType
  <2>12. Joined(Append(s, b)) = Joined(s) \o b.value
    BY <2>11, JoinedAppend
  <2>13. SaidIn(f, role, kind) = IF role = "tool" /\ kind = "result" THEN Joined(s) ELSE <<>>
    BY <1>2, <2>1
  <2>14. CASE role = "tool" /\ kind = "result"
    BY <2>3, <2>4, <2>9, <2>10, <2>11, <2>12, <2>13, <2>14
  <2>15. CASE ~(role = "tool" /\ kind = "result")
    <3>1. SaidIn(f, role, kind) = <<>> /\ SaidIn(<<x>>, role, kind) = <<>>
      BY <2>9, <2>13, <2>15
    <3>2. <<>> \o <<>> = <<>>
      OBVIOUS
    <3>3. SaidIn(Results(Append(s, b), names), role, kind) = <<>>
      BY <2>3, <2>4, <2>10, <3>1, <3>2
    <3> QED
      BY <2>11, <2>15, <3>3
  <2> QED
    BY <2>14, <2>15
<1> HIDE DEF U
<1>3. rs \in U
  BY <1>1, <1>2, SeqInduction
<1> QED
  BY <1>3 DEF U

LEMMA CallMessagesSay ==
    ASSUME NEW cs \in Seq(CallSet), NEW role, NEW kind
    PROVE  SaidIn(CallMessages(cs), role, kind) =
              IF role = "assistant" /\ kind = "call" THEN Joined(cs) ELSE <<>>
<1> DEFINE U == { s \in Seq(CallSet) :
                    SaidIn(CallMessages(s), role, kind) =
                       IF role = "assistant" /\ kind = "call" THEN Joined(s) ELSE <<>> }
<1>1. <<>> \in U
  <2>1. <<>> \in Seq(CallSet)
    OBVIOUS
  <2>2. SaidIn(CallMessages(<<>>), role, kind) = <<>>
    BY CallMessagesNothing, SaidInNothing, Zenon
  <2> QED
    BY <2>1, <2>2, JoinedNothing
<1>2. ASSUME NEW s \in Seq(CallSet), NEW b \in CallSet, s \in U PROVE Append(s, b) \in U
  <2>1. PICK f \in Seq(MessageSet) : f = CallMessages(s)
    BY CallMessagesType
  <2>2. PICK x \in MessageSet : x = CallMessage(b)
    BY CallMessageType
  <2>3. CallMessages(Append(s, b)) = Append(f, x)
    BY <2>1, <2>2, CallMessagesAppend
  <2>4. <<x>> \in Seq(MessageSet) /\ Append(f, x) = f \o <<x>>
    OBVIOUS
  <2>5. b \in BlockSet /\ b.kind = "call"
    BY DEF CallSet
  <2>7. x.role = "assistant" /\ x.blocks = <<b>>
    BY <2>2 DEF CallMessage, Message
  <2>8. OfKind(<<b>>, kind) = IF kind = "call" THEN <<b>> ELSE <<>>
    BY <2>5, OfKindsOne DEF OfKind
  <2>9. SaidIn(<<x>>, role, kind) = IF role = "assistant" /\ kind = "call" THEN b.value ELSE <<>>
    BY <2>5, <2>7, <2>8, SaidInOne, JoinedOne, JoinedNothing
  <2>10. /\ SaidIn(f, role, kind) \in Seq(Stamps)
         /\ SaidIn(f \o <<x>>, role, kind) = SaidIn(f, role, kind) \o SaidIn(<<x>>, role, kind)
    <3>1. PICK y \in Seq(MessageSet) : y = <<x>>
      BY <2>4
    <3>2. SaidIn(f, role, kind) \in Seq(Stamps) /\ SaidIn(f \o y, role, kind) = SaidIn(f, role, kind) \o SaidIn(y, role, kind)
      BY SaidInConcat
    <3> QED
      BY <3>1, <3>2
  <2>11. s \in Seq(BlockSet) /\ Append(s, b) \in Seq(CallSet)
    BY CallSetType
  <2>12. Joined(Append(s, b)) = Joined(s) \o b.value
    BY <2>5, <2>11, JoinedAppend
  <2>13. SaidIn(f, role, kind) = IF role = "assistant" /\ kind = "call" THEN Joined(s) ELSE <<>>
    BY <1>2, <2>1
  <2>14. CASE role = "assistant" /\ kind = "call"
    BY <2>3, <2>4, <2>9, <2>10, <2>11, <2>12, <2>13, <2>14
  <2>15. CASE ~(role = "assistant" /\ kind = "call")
    <3>1. SaidIn(f, role, kind) = <<>> /\ SaidIn(<<x>>, role, kind) = <<>>
      BY <2>9, <2>13, <2>15
    <3>2. <<>> \o <<>> = <<>>
      OBVIOUS
    <3>3. SaidIn(CallMessages(Append(s, b)), role, kind) = <<>>
      BY <2>3, <2>4, <2>10, <3>1, <3>2
    <3> QED
      BY <2>11, <2>15, <3>3
  <2> QED
    BY <2>14, <2>15
<1> HIDE DEF U
<1>3. cs \in U
  BY <1>1, <1>2, SeqInduction
<1> QED
  BY <1>3 DEF U

\* The kinds of what a message says beside its results.
LEMMA KindWithin ==
    ASSUME NEW s \in Seq(BlockSet), NEW kinds, NEW kind
    PROVE  OfKind(OfKinds(s, kinds), kind) = IF kind \in kinds THEN OfKind(s, kind) ELSE <<>>
<1> DEFINE K == {kind}
<1>1. /\ kind \in kinds => kinds \cap K = K
      /\ kind \notin kinds => K \cap kinds = {}
  OBVIOUS
<1> HIDE DEF K
<1>2. OfKinds(OfKinds(s, kinds), K) = OfKinds(s, kinds \cap K)
  BY OfKindsTwice
<1>3. OfKinds(s, kinds) \in Seq(Of(kinds))
  BY OfKindsType
<1>4. K \cap kinds = {} => OfKinds(OfKinds(s, kinds), K) = <<>>
  BY <1>3, OfKindsNone
<1> QED
  BY <1>1, <1>2, <1>4 DEF OfKind, K

LEMMA ContentSays ==
    ASSUME NEW m \in SpokenSet, NEW kind
    PROVE  /\ Joined(OfKind(Content(m), kind)) =
                 IF kind \in {"text", "image"} THEN Joined(OfKind(m.blocks, kind)) ELSE <<>>
           /\ Joined(OfKind(Speech(m), kind)) =
                 IF kind \in {"text", "image", "call"} THEN Joined(OfKind(m.blocks, kind)) ELSE <<>>
<1>1. m.blocks \in Seq(BlockSet)
  BY BlocksType
<1> QED
  BY <1>1, KindWithin, JoinedNothing DEF Content, Speech

Body(m, kind) == IF kind \in {"text", "image", "call"} THEN Joined(OfKind(m.blocks, kind)) ELSE <<>>

LEMMA BodyType == ASSUME NEW m \in SpokenSet, NEW kind PROVE Body(m, kind) \in Seq(Stamps)
<1>1. <<>> \in Seq(Stamps)
  OBVIOUS
<1>2. m.blocks \in Seq(BlockSet)
  BY BlocksType
<1>3. Joined(OfKind(m.blocks, kind)) \in Seq(Stamps)
  BY <1>2, TextConcat
<1> QED
  BY <1>1, <1>3 DEF Body

LEMMA SaysIs ==
    ASSUME NEW m \in SpokenSet, NEW role, NEW kind
    PROVE  /\ role = "tool" => Says(m, role, kind) = IF kind = "result" THEN Joined(ResultsOf(m)) ELSE <<>>
           /\ role # "tool" => Says(m, role, kind) = IF role = m.role THEN Body(m, kind) ELSE <<>>
           /\ m.role # "user" => ResultsOf(m) = <<>> /\ Joined(ResultsOf(m)) = <<>>
           /\ m.role # "tool"
<1>1. m.role # "tool"
  BY SpokenRole
<1>2. m.role # "user" => ResultsOf(m) = <<>>
  BY ResultsType
<1> QED
  BY <1>1, <1>2, JoinedNothing DEF Says, Body

LEMMA BodyOfParts ==
    ASSUME NEW m \in SpokenSet, NEW kind
    PROVE  /\ Body(m, kind) = Joined(OfKind(Content(m), kind)) \o Joined(OfKind(CallsOf(m), kind))
           /\ Body(m, kind) = Joined(OfKind(Speech(m), kind))
           /\ Joined(OfKind(Content(m), kind)) \in Seq(Stamps) /\ Joined(OfKind(CallsOf(m), kind)) \in Seq(Stamps)
<1>1. CallsOf(m) \in Seq(CallSet)
  BY CallsType
<1>2. CallsOf(m) \in Seq(BlockSet) /\ Content(m) \in Seq(BlockSet) /\ m.blocks \in Seq(BlockSet)
  BY <1>1, CallsAreBlocks, ContentType, BlocksType
<1>3. Joined(OfKind(CallsOf(m), kind)) = IF kind = "call" THEN Joined(OfKind(m.blocks, kind)) ELSE <<>>
  BY <1>1, CallsKind DEF CallsOf
<1>4. Joined(OfKind(Content(m), kind)) \in Seq(Stamps) /\ Joined(OfKind(CallsOf(m), kind)) \in Seq(Stamps)
  BY <1>2, TextConcat
<1>5. PICK x \in Seq(Stamps) : x = Joined(OfKind(m.blocks, kind))
  BY <1>2, TextConcat
<1>6. <<>> \o x = x /\ x \o <<>> = x /\ <<>> \o <<>> = <<>>
  OBVIOUS
<1>7. Joined(OfKind(Content(m), kind)) = IF kind \in {"text", "image"} THEN x ELSE <<>>
  BY <1>5, ContentSays
<1>8. Joined(OfKind(Speech(m), kind)) = IF kind \in {"text", "image", "call"} THEN x ELSE <<>>
  BY <1>5, ContentSays
<1>9. Body(m, kind) = IF kind \in {"text", "image", "call"} THEN x ELSE <<>>
  BY <1>5 DEF Body
<1>10. Joined(OfKind(CallsOf(m), kind)) = IF kind = "call" THEN x ELSE <<>>
  BY <1>3, <1>5
<1>11. CASE kind \in {"text", "image"}
  BY <1>4, <1>6, <1>7, <1>8, <1>9, <1>10, <1>11
<1>12. CASE kind = "call"
  BY <1>4, <1>6, <1>7, <1>8, <1>9, <1>10, <1>12
<1>13. CASE kind \notin {"text", "image", "call"}
  BY <1>4, <1>6, <1>7, <1>8, <1>9, <1>10, <1>13
<1> QED
  BY <1>11, <1>12, <1>13

LEMMA NothingSaid ==
    ASSUME NEW m \in SpokenSet, NEW kind
    PROVE  /\ Content(m) = <<>> /\ CallsOf(m) = <<>> => Body(m, kind) = <<>>
           /\ Speech(m) = <<>> => Body(m, kind) = <<>>
           /\ ResultsOf(m) # <<>> => m.role = "user" /\ CallsOf(m) = <<>>
<1>1. Joined(OfKind(<<>>, kind)) = <<>> /\ <<>> \o <<>> = <<>>
  <2>1. OfKind(<<>>, kind) = <<>>
    BY OfKindsNothing DEF OfKind
  <2> QED
    BY <2>1, JoinedNothing
<1>2. ResultsOf(m) # <<>> => m.role = "user" /\ CallsOf(m) = <<>>
  BY ResultsType, CallsType
<1> QED
  BY <1>1, <1>2, BodyOfParts

-----------------------------------------------------------------------------
(* Chat Completions *)

LEMMA CoercedSays ==
    ASSUME NEW m \in SpokenSet, NEW kind
    PROVE  Joined(OfKind(Coerced(Content(m)), kind)) = Joined(OfKind(Content(m), kind))
<1>1. PICK s \in Seq(BlockSet) : s = Content(m)
  BY ContentType
<1>2. CASE s = <<>> \/ OfKind(s, "image") # <<>>
  BY <1>1, <1>2 DEF Coerced
<1>3. CASE ~(s = <<>> \/ OfKind(s, "image") # <<>>)
  <2>1. PICK v \in Seq(Stamps) : v = Joined(s)
    BY JoinedType
  <2>2. Coerced(s) = <<Text(v)>>
    BY <1>3, <2>1 DEF Coerced
  <2>3. PICK t \in BlockSet : t = Text(v)
    BY TextType
  <2>4. t.kind = "text" /\ t.value = v
    BY <2>3 DEF Text, Block
  <2>5. OfKind(<<t>>, kind) = IF kind = "text" THEN <<t>> ELSE <<>>
    BY <2>4, OfKindsOne DEF OfKind
  <2>6. Joined(OfKind(Coerced(s), kind)) = IF kind = "text" THEN v ELSE <<>>
    BY <2>2, <2>3, <2>4, <2>5, JoinedOne, JoinedNothing
  <2>7. OfKind(s, "text") = s
    <3>1. s = OfKinds(m.blocks, {"text", "image"}) /\ m.blocks \in Seq(BlockSet)
      BY <1>1, BlocksType DEF Content
    <3>2. \A b \in Range(s) : b.kind \in {"text", "image"}
      BY <1>1, RangeOfContent
    <3>3. Range(OfKind(s, "image")) = { b \in Range(s) : b.kind \in {"image"} }
      BY OfKindsRange DEF OfKind
    <3>4. \A b \in Range(s) : b.kind # "image"
      BY <1>3, <3>3, RangeNothing
    <3>5. DOMAIN s = 1..Len(s) /\ Len(s) \in Nat /\ \A i \in 1..Len(s) : s[i] \in BlockSet /\ s[i] \in Range(s)
      BY RangeIs
    <3>6. \A i \in 1..Len(s) : s[i] \in Of({"text"})
      BY <3>2, <3>4, <3>5 DEF Of
    <3>7. s \in Seq(Of({"text"}))
      BY <3>5, <3>6
    <3> QED
      BY <3>7, OfKindsAll DEF OfKind
  <2>8. Joined(OfKind(s, kind)) = IF kind = "text" THEN v ELSE <<>>
    <3>1. CASE kind = "text"
      BY <2>1, <2>7, <3>1
    <3>2. CASE kind # "text"
      <4>1. OfKind(OfKinds(s, {"text"}), kind) = IF kind \in {"text"} THEN OfKind(s, kind) ELSE <<>>
        BY KindWithin
      <4>2. OfKind(s, kind) = <<>>
        BY <2>7, <3>2, <4>1 DEF OfKind
      <4> QED
        BY <3>2, <4>2, JoinedNothing
    <3> QED
      BY <3>1, <3>2
  <2> QED
    BY <1>1, <2>6, <2>8
<1> QED
  BY <1>2, <1>3

LEMMA ChatBodySays ==
    ASSUME NEW m \in SpokenSet, NEW kind
    PROVE  Joined(OfKind(ChatBody(m.role, Content(m), CallsOf(m)).blocks, kind)) = Body(m, kind)
<1>1. PICK s \in Seq(BlockSet) : s = Coerced(Content(m))
  BY ContentType, CoercedType
<1>2. CallsOf(m) \in Seq(CallSet)
  BY CallsType
<1>3. PICK t \in Seq(BlockSet) : t = CallsOf(m)
  BY <1>2, CallsAreBlocks
<1>4. Joined(OfKind(s \o t, kind)) = Joined(OfKind(s, kind)) \o Joined(OfKind(t, kind))
  BY TextConcat
<1>5. Joined(OfKind(s \o t, kind)) = Body(m, kind)
  BY <1>1, <1>3, <1>4, CoercedSays, BodyOfParts
<1>6. ChatBody(m.role, Content(m), CallsOf(m)).blocks = IF s \o t = <<>> THEN <<Text(<<>>)>> ELSE s \o t
  BY <1>1, <1>3 DEF ChatBody, Message
<1>7. CASE s \o t = <<>>
  <2>1. PICK x \in BlockSet : x = Text(<<>>)
    BY NoTextType
  <2>2. x.kind = "text" /\ x.value = <<>>
    BY <2>1 DEF Text, Block
  <2>3. OfKind(<<x>>, kind) = IF kind = "text" THEN <<x>> ELSE <<>>
    BY <2>2, OfKindsOne DEF OfKind
  <2>4. Joined(OfKind(<<x>>, kind)) = <<>>
    BY <2>2, <2>3, JoinedOne, JoinedNothing
  <2>5. Joined(OfKind(<<>>, kind)) = <<>>
    <3>1. OfKind(<<>>, kind) = <<>>
      BY OfKindsNothing DEF OfKind
    <3> QED
      BY <3>1, JoinedNothing
  <2> QED
    BY <1>5, <1>6, <1>7, <2>1, <2>4, <2>5
<1>8. CASE s \o t # <<>>
  BY <1>5, <1>6, <1>8
<1> QED
  BY <1>7, <1>8

\* What is said beside the results, in the role of the message.
Part(m, role, kind) == IF role = m.role THEN Body(m, kind) ELSE <<>>

LEMMA SaysInParts ==
    ASSUME NEW m \in SpokenSet, NEW names \in NamesSet, NEW role, NEW kind
    PROVE  /\ Says(m, role, kind) = SaidIn(Results(ResultsOf(m), names), role, kind) \o Part(m, role, kind)
           /\ Says(m, role, kind) = Part(m, role, kind) \o SaidIn(Results(ResultsOf(m), names), role, kind)
<1>1. ResultsOf(m) \in Seq(ResultSet)
  BY ResultsType
<1>2. ResultsOf(m) \in Seq(BlockSet)
  BY <1>1, CallSetType
<1>3. PICK x \in Seq(Stamps) : x = Joined(ResultsOf(m))
  BY <1>2, JoinedType
<1>4. PICK y \in Seq(Stamps) : y = Body(m, kind)
  BY BodyType
<1>5. x \o <<>> = x /\ <<>> \o x = x /\ y \o <<>> = y /\ <<>> \o y = y /\ <<>> \o <<>> = <<>>
  OBVIOUS
<1>6. SaidIn(Results(ResultsOf(m), names), role, kind) = IF role = "tool" /\ kind = "result" THEN x ELSE <<>>
  BY <1>1, <1>3, ResultsSay
<1>7. Part(m, role, kind) = IF role = m.role THEN y ELSE <<>>
  BY <1>4 DEF Part
<1>8. /\ role = "tool" => Says(m, role, kind) = IF kind = "result" THEN x ELSE <<>>
      /\ role # "tool" => Says(m, role, kind) = IF role = m.role THEN y ELSE <<>>
      /\ m.role # "tool"
  BY <1>3, <1>4, SaysIs
<1> QED
  BY <1>5, <1>6, <1>7, <1>8

LEMMA SaidByTwo ==
    ASSUME NEW s \in Seq(MessageSet), NEW t \in Seq(MessageSet), NEW role, NEW kind
    PROVE  SaidIn(s \o t, role, kind) = SaidIn(s, role, kind) \o SaidIn(t, role, kind)
  BY SaidInConcat

\* A message upstream, if there is one, that says the rest.
LEMMA PartSaid ==
    ASSUME NEW m \in SpokenSet, NEW role, NEW kind, NEW x \in MessageSet, x.role = m.role,
           NEW sent \in BOOLEAN,
           sent => Joined(OfKind(x.blocks, kind)) = Body(m, kind), ~sent => Body(m, kind) = <<>>
    PROVE  SaidIn(IF sent THEN <<x>> ELSE <<>>, role, kind) = Part(m, role, kind)
<1>1. CASE sent
  BY <1>1, SaidInOne DEF Part
<1>2. CASE ~sent
  BY <1>2, SaidInNothing DEF Part
<1> QED
  BY <1>1, <1>2

LEMMA SentType ==
    ASSUME NEW x \in MessageSet, NEW sent \in BOOLEAN
    PROVE  (IF sent THEN <<x>> ELSE <<>>) \in Seq(MessageSet)
<1>1. <<x>> \in Seq(MessageSet) /\ <<>> \in Seq(MessageSet)
  OBVIOUS
<1> QED
  BY <1>1

\* A message makes each role say what it says, through Chat ...
LEMMA ChatSays ==
    ASSUME NEW m \in SpokenSet, NEW names \in NamesSet, NEW role, role # "system", NEW kind
    PROVE  SaidIn(ChatAdds(m, names), role, kind) = Says(m, role, kind)
<1>1. CASE m.role = "system"
  <2>1. ChatAdds(m, names) = <<>>
    BY <1>1 DEF ChatAdds
  <2> QED
    BY <1>1, <2>1, SaysIs, SaidInNothing
<1>2. CASE m.role # "system"
  <2>1. CallsOf(m) \in Seq(CallSet) /\ Content(m) \in Seq(BlockSet) /\ m.role \in Roles /\ ResultsOf(m) \in Seq(ResultSet)
    BY CallsType, ContentType, SpokenRole, ResultsType
  <2>2. PICK x \in MessageSet : x = ChatBody(m.role, Content(m), CallsOf(m))
    BY <2>1, ChatBodyType
  <2>3. x.role = m.role
    BY <2>2 DEF ChatBody, Message
  <2>4. Joined(OfKind(x.blocks, kind)) = Body(m, kind)
    BY <2>2, ChatBodySays
  <2>5. Beside(m) \in BOOLEAN /\ (~Beside(m) => Body(m, kind) = <<>>)
    BY NothingSaid DEF Beside
  <2>6. PICK t \in Seq(MessageSet) : t = IF Beside(m) THEN <<x>> ELSE <<>>
    <3>1. (IF Beside(m) THEN <<x>> ELSE <<>>) \in Seq(MessageSet)
      BY <2>5, SentType
    <3> QED
      BY <3>1
  <2>7. SaidIn(t, role, kind) = Part(m, role, kind)
    BY <2>3, <2>4, <2>5, <2>6, PartSaid
  <2>8. PICK s \in Seq(MessageSet) : s = Results(ResultsOf(m), names)
    BY <2>1, ResultsMessages
  <2>9. ChatAdds(m, names) = s \o t
    BY <1>2, <2>2, <2>6, <2>8 DEF ChatAdds
  <2>10. SaidIn(s \o t, role, kind) = SaidIn(s, role, kind) \o SaidIn(t, role, kind)
    BY SaidByTwo
  <2>11. Says(m, role, kind) = SaidIn(s, role, kind) \o SaidIn(t, role, kind)
    <3>1. Says(m, role, kind) = SaidIn(Results(ResultsOf(m), names), role, kind) \o Part(m, role, kind)
      BY SaysInParts
    <3> QED
      BY <2>7, <2>8, <3>1, Zenon
  <2> QED
    BY <2>9, <2>10, <2>11
<1> QED
  BY <1>1, <1>2

\* ... through Messages ...
LEMMA MessagesSays ==
    ASSUME NEW m \in SpokenSet, NEW names \in NamesSet, NEW role, role # "system", NEW kind
    PROVE  SaidIn(MessagesAdds(m, names), role, kind) = Says(m, role, kind)
<1>1. CASE m.role = "system"
  <2>1. MessagesAdds(m, names) = <<>>
    BY <1>1 DEF MessagesAdds
  <2> QED
    BY <1>1, <2>1, SaysIs, SaidInNothing
<1>2. CASE m.role # "system"
  <2>1. Speech(m) \in Seq(BlockSet) /\ m.role \in Roles /\ ResultsOf(m) \in Seq(ResultSet)
    BY SpeechType, SpokenRole, ResultsType
  <2>2. PICK x \in MessageSet : x = Message(m.role, Speech(m))
    BY <2>1, MessageTypeOf
  <2>3. x.role = m.role /\ x.blocks = Speech(m)
    BY <2>2 DEF Message
  <2>4. Joined(OfKind(x.blocks, kind)) = Body(m, kind)
    BY <2>3, BodyOfParts
  <2>5. (Speech(m) # <<>>) \in BOOLEAN /\ (~(Speech(m) # <<>>) => Body(m, kind) = <<>>)
    BY NothingSaid
  <2>6. PICK t \in Seq(MessageSet) : t = IF Speech(m) # <<>> THEN <<x>> ELSE <<>>
    <3>1. (IF Speech(m) # <<>> THEN <<x>> ELSE <<>>) \in Seq(MessageSet)
      BY <2>5, SentType
    <3> QED
      BY <3>1
  <2>7. SaidIn(t, role, kind) = Part(m, role, kind)
    BY <2>3, <2>4, <2>5, <2>6, PartSaid
  <2>8. PICK s \in Seq(MessageSet) : s = Results(ResultsOf(m), names)
    BY <2>1, ResultsMessages
  <2>9. MessagesAdds(m, names) = t \o s
    BY <1>2, <2>2, <2>6, <2>8 DEF MessagesAdds
  <2>10. SaidIn(t \o s, role, kind) = SaidIn(t, role, kind) \o SaidIn(s, role, kind)
    BY SaidByTwo
  <2>11. Says(m, role, kind) = SaidIn(t, role, kind) \o SaidIn(s, role, kind)
    BY <2>7, <2>8, SaysInParts
  <2> QED
    BY <2>9, <2>10, <2>11
<1> QED
  BY <1>1, <1>2

\* Responses sends the calls inside the message or after it.
LEMMA PartInParts ==
    ASSUME NEW m \in SpokenSet, NEW role, NEW kind
    PROVE  Part(m, role, kind) =
             (IF role = m.role THEN Joined(OfKind(Content(m), kind)) \o Joined(OfKind(Inside(m), kind)) ELSE <<>>)
             \o SaidIn(CallMessages(Apart(m)), role, kind)
<1>1. CallsOf(m) \in Seq(CallSet)
  BY CallsType
<1>2. CallsOf(m) \in Seq(BlockSet)
  BY <1>1, CallsAreBlocks
<1>3. PICK x \in Seq(Stamps) : x = Joined(CallsOf(m))
  BY <1>2, JoinedType
<1>4. PICK y \in Seq(Stamps) : y = Joined(OfKind(Content(m), kind))
  BY BodyOfParts
<1>5. /\ x \o <<>> = x /\ <<>> \o x = x /\ y \o <<>> = y /\ <<>> \o <<>> = <<>>
      /\ (y \o x) \o <<>> = y \o x /\ (y \o <<>>) \o x = y \o x /\ (y \o <<>>) \o <<>> = y
  OBVIOUS
<1>6. Joined(OfKind(CallsOf(m), kind)) = IF kind = "call" THEN x ELSE <<>>
  BY <1>1, <1>3, CallsKind
<1>7. Body(m, kind) = y \o (IF kind = "call" THEN x ELSE <<>>)
  BY <1>4, <1>6, BodyOfParts
<1>8. m.role # "assistant" => x = <<>>
  BY <1>3, CallsType, JoinedNothing
<1>9. Joined(OfKind(<<>>, kind)) = <<>>
  <2>1. OfKind(<<>>, kind) = <<>>
    BY OfKindsNothing DEF OfKind
  <2> QED
    BY <2>1, JoinedNothing
<1>10. CASE embedded
  <2>1. Inside(m) = CallsOf(m) /\ Apart(m) = <<>>
    BY <1>10 DEF Inside, Apart
  <2>2. SaidIn(CallMessages(Apart(m)), role, kind) = <<>>
    BY <2>1, CallMessagesNothing, SaidInNothing
  <2> QED
    BY <1>4, <1>5, <1>6, <1>7, <2>1, <2>2 DEF Part
<1>11. CASE ~embedded
  <2>1. Inside(m) = <<>> /\ Apart(m) = CallsOf(m)
    BY <1>11 DEF Inside, Apart
  <2>2. SaidIn(CallMessages(Apart(m)), role, kind) = IF role = "assistant" /\ kind = "call" THEN x ELSE <<>>
    BY <1>1, <1>3, <2>1, CallMessagesSay
  <2>3. Joined(OfKind(Inside(m), kind)) = <<>>
    BY <1>9, <2>1
  <2> QED
    BY <1>4, <1>5, <1>7, <1>8, <2>2, <2>3 DEF Part
<1> QED
  BY <1>10, <1>11

LEMMA ContentMessageSays ==
    ASSUME NEW m \in SpokenSet, NEW role, NEW kind, NEW x \in MessageSet, x = ContentMessage(m)
    PROVE  SaidIn(IF Accompanied(m) THEN <<x>> ELSE <<>>, role, kind) =
             IF role = m.role THEN Joined(OfKind(Content(m), kind)) \o Joined(OfKind(Inside(m), kind)) ELSE <<>>
<1>1. PICK c \in Seq(BlockSet) : c = Content(m)
  BY ContentType
<1>2. PICK n \in Seq(BlockSet) : n = NonEmpty(c)
  BY NonEmptyType
<1>3. Inside(m) \in Seq(CallSet)
  BY InsideType
<1>4. PICK i \in Seq(BlockSet) : i = Inside(m)
  BY <1>3, CallsAreBlocks
<1>5. x.role = m.role /\ x.blocks = n \o i
  BY <1>1, <1>2, <1>4 DEF ContentMessage, Message
<1>6. Joined(OfKind(n \o i, kind)) = Joined(OfKind(n, kind)) \o Joined(OfKind(i, kind))
  BY TextConcat
<1>7. Joined(OfKind(n, kind)) = Joined(OfKind(c, kind))
  BY <1>2, NonEmptyKind
<1>8. CASE Accompanied(m)
  <2>1. SaidIn(<<x>>, role, kind) = IF x.role = role THEN Joined(OfKind(x.blocks, kind)) ELSE <<>>
    BY SaidInOne
  <2> QED
    BY <1>1, <1>4, <1>5, <1>6, <1>7, <1>8, <2>1
<1>9. CASE ~Accompanied(m)
  <2>1. Content(m) = <<>> /\ Inside(m) = <<>>
    <3>1. Content(m) = <<>> /\ (ResultsOf(m) # <<>> \/ ~embedded)
      BY <1>9 DEF Accompanied
    <3> QED
      BY <3>1, NothingSaid DEF Inside
  <2>2. Joined(OfKind(<<>>, kind)) = <<>> /\ <<>> \o <<>> = <<>>
    <3>1. OfKind(<<>>, kind) = <<>>
      BY OfKindsNothing DEF OfKind
    <3> QED
      BY <3>1, JoinedNothing
  <2>3. SaidIn(<<>>, role, kind) = <<>>
    BY SaidInNothing
  <2> QED
    BY <1>9, <2>1, <2>2, <2>3
<1> QED
  BY <1>8, <1>9

\* ... and through Responses.
LEMMA ResponsesSays ==
    ASSUME NEW m \in SpokenSet, NEW names \in NamesSet, NEW role, NEW kind
    PROVE  SaidIn(ResponsesAdds(m, names), role, kind) = Says(m, role, kind)
<1>1. PICK x \in MessageSet : x = ContentMessage(m)
  BY ContentMessageType
<1>2. ResultsOf(m) \in Seq(ResultSet) /\ Apart(m) \in Seq(CallSet) /\ Accompanied(m) \in BOOLEAN
  BY ResultsType, InsideType DEF Accompanied
<1>3. PICK r \in Seq(MessageSet) : r = Results(ResultsOf(m), names)
  BY <1>2, ResultsMessages
<1>4. PICK t \in Seq(MessageSet) : t = IF Accompanied(m) THEN <<x>> ELSE <<>>
  <2>1. (IF Accompanied(m) THEN <<x>> ELSE <<>>) \in Seq(MessageSet)
    BY <1>2, SentType
  <2> QED
    BY <2>1
<1>5. PICK u \in Seq(MessageSet) : u = CallMessages(Apart(m))
  BY <1>2, CallMessagesType
<1>6. ResponsesAdds(m, names) = (r \o t) \o u
  BY <1>1, <1>3, <1>4, <1>5, Zenon DEF ResponsesAdds
<1>7. PICK rt \in Seq(MessageSet) : rt = r \o t
  <2>1. r \o t \in Seq(MessageSet)
    OBVIOUS
  <2> QED
    BY <2>1
<1>8. /\ SaidIn(rt, role, kind) = SaidIn(r, role, kind) \o SaidIn(t, role, kind)
      /\ SaidIn(rt \o u, role, kind) = SaidIn(rt, role, kind) \o SaidIn(u, role, kind)
  <2>1. SaidIn(r \o t, role, kind) = SaidIn(r, role, kind) \o SaidIn(t, role, kind)
    BY SaidByTwo
  <2>2. SaidIn(rt \o u, role, kind) = SaidIn(rt, role, kind) \o SaidIn(u, role, kind)
    BY SaidByTwo
  <2> QED
    BY <1>7, <2>1, <2>2, Zenon
<1>9. PICK a \in Seq(Stamps) : a = SaidIn(r, role, kind)
  BY SaidInConcat
<1>10. PICK b \in Seq(Stamps) : b = SaidIn(t, role, kind)
  BY SaidInConcat
<1>11. PICK d \in Seq(Stamps) : d = SaidIn(u, role, kind)
  BY SaidInConcat
<1>12. (a \o b) \o d = a \o (b \o d)
  OBVIOUS
<1>13. Part(m, role, kind) = b \o d
  <2>1. b = IF role = m.role THEN Joined(OfKind(Content(m), kind)) \o Joined(OfKind(Inside(m), kind)) ELSE <<>>
    BY <1>1, <1>4, <1>10, ContentMessageSays
  <2>2. Part(m, role, kind) =
             (IF role = m.role THEN Joined(OfKind(Content(m), kind)) \o Joined(OfKind(Inside(m), kind)) ELSE <<>>)
             \o SaidIn(CallMessages(Apart(m)), role, kind)
    BY PartInParts
  <2> QED
    BY <1>5, <1>11, <2>1, <2>2, Zenon
<1>14. Says(m, role, kind) = a \o Part(m, role, kind)
  <2>1. Says(m, role, kind) = SaidIn(Results(ResultsOf(m), names), role, kind) \o Part(m, role, kind)
    BY SaysInParts
  <2> QED
    BY <1>3, <1>9, <2>1, Zenon
<1> QED
  BY <1>6, <1>7, <1>8, <1>9, <1>10, <1>11, <1>12, <1>13, <1>14

-----------------------------------------------------------------------------
(* The whole conversation *)

LEMMA AllSayTheSame ==
    ASSUME NEW c \in Seq(SpokenSet), NEW names \in NamesSet, NEW role, NEW kind
    PROVE  /\ role # "system" => SaidIn(ChatOut(c), role, kind) = SaidIn(MessagesOut(c, names), role, kind)
           /\ role # "system" /\ Responses(c).ok =>
                 SaidIn(ChatOut(c), role, kind) = SaidIn(ResponsesOut(c), role, kind)
<1> DEFINE U == { d \in Seq(SpokenSet) :
              /\ role # "system" => SaidIn(ChatOut(d), role, kind) = SaidIn(MessagesOut(d, names), role, kind)
              /\ role # "system" /\ Responses(d).ok =>
                    SaidIn(ChatOut(d), role, kind) = SaidIn(ResponsesOut(d), role, kind) }
<1>1. <<>> \in U
  <2>1. <<>> \in Seq(SpokenSet)
    OBVIOUS
  <2>2. ChatOut(<<>>) = <<>> /\ ResponsesOut(<<>>) = <<>> /\ MessagesOut(<<>>, names) = <<>>
    BY ChatNothing, ResponsesNothing, MessagesNothing DEF ChatOut, Acc, ResponsesOut, RAcc
  <2> QED
    BY <2>1, <2>2
<1>2. ASSUME NEW d \in Seq(SpokenSet), NEW m \in SpokenSet, d \in U PROVE Append(d, m) \in U
  <2>1. PICK n \in NamesSet : n = NamesAfter(d)
    BY NamesAfterType
  <2>2. PICK a \in Seq(MessageSet) : a = ChatOut(d)
    BY ChatType
  <2>3. PICK more \in Seq(MessageSet) : more = ChatAdds(m, n)
    BY ChatAddsType
  <2>4. ChatOut(Append(d, m)) = a \o more
    BY <2>1, <2>2, <2>3, ChatAppend
  <2>5. ASSUME role # "system"
        PROVE  SaidIn(ChatOut(Append(d, m)), role, kind) = SaidIn(ChatOut(d), role, kind) \o Says(m, role, kind)
    <3>1. SaidIn(a \o more, role, kind) = SaidIn(a, role, kind) \o SaidIn(more, role, kind)
      BY SaidByTwo
    <3>2. SaidIn(more, role, kind) = Says(m, role, kind)
      BY <2>3, <2>5, ChatSays
    <3> QED
      BY <2>2, <2>4, <3>1, <3>2, Zenon
  <2>6. ASSUME role # "system"
        PROVE  SaidIn(MessagesOut(Append(d, m), names), role, kind) =
                  SaidIn(MessagesOut(d, names), role, kind) \o Says(m, role, kind)
    <3>1. PICK b \in Seq(MessageSet) : b = MessagesOut(d, names)
      BY MessagesType
    <3>2. PICK x \in Seq(MessageSet) : x = MessagesAdds(m, names)
      BY MessagesAddsType
    <3>3. MessagesOut(Append(d, m), names) = b \o x
      BY <3>1, <3>2, MessagesAppend
    <3>4. SaidIn(b \o x, role, kind) = SaidIn(b, role, kind) \o SaidIn(x, role, kind)
      BY SaidByTwo
    <3>5. SaidIn(x, role, kind) = Says(m, role, kind)
      BY <2>6, <3>2, MessagesSays
    <3> QED
      BY <3>1, <3>3, <3>4, <3>5, Zenon
  <2>7. ASSUME role # "system", Responses(Append(d, m)).ok
        PROVE  /\ Responses(d).ok
               /\ SaidIn(ResponsesOut(Append(d, m)), role, kind) =
                    SaidIn(ResponsesOut(d), role, kind) \o Says(m, role, kind)
    <3>1. Responses(d).ok /\ ResponsesOut(Append(d, m)) = ResponsesOut(d) \o ResponsesAdds(m, n)
      BY <2>1, <2>7, ResponsesAppend
    <3>2. PICK b \in Seq(MessageSet) : b = ResponsesOut(d)
      BY <3>1, ResponsesType
    <3>3. PICK x \in Seq(MessageSet) : x = ResponsesAdds(m, n)
      BY ResponsesAddsType
    <3>4. SaidIn(b \o x, role, kind) = SaidIn(b, role, kind) \o SaidIn(x, role, kind)
      BY SaidByTwo
    <3>5. SaidIn(x, role, kind) = Says(m, role, kind)
      BY <3>3, ResponsesSays
    <3>6. SaidIn(ResponsesOut(Append(d, m)), role, kind) = SaidIn(ResponsesOut(d), role, kind) \o Says(m, role, kind)
      BY <3>1, <3>2, <3>3, <3>4, <3>5, Zenon
    <3> QED
      BY <3>1, <3>6
  <2>8. Append(d, m) \in Seq(SpokenSet)
    OBVIOUS
  <2> QED
    BY <1>2, <2>5, <2>6, <2>7, <2>8
<1> HIDE DEF U
<1>3. c \in U
  BY <1>1, <1>2, SeqInduction
<1> QED
  BY <1>3 DEF U

LEMMA RolesAgree ==
    ASSUME NEW c \in Seq(SpokenSet), NEW role, role # "system"
    PROVE  /\ SaidBy(Messages(c).out, role) = SaidBy(Chat(c).out, role)
           /\ Responses(c).ok => SaidBy(Responses(c).out, role) = SaidBy(Chat(c).out, role)
<1>1. PICK n \in NamesSet : n = NamesAfter(c)
  BY NamesAfterType
<1>2. Messages(c).out = MessagesOut(c, n)
  BY <1>1, MessagesIs
<1>3. \A kind \in Kinds : SaidIn(Messages(c).out, role, kind) = SaidIn(Chat(c).out, role, kind)
  BY <1>2, AllSayTheSame DEF ChatOut
<1>4. Responses(c).ok => \A kind \in Kinds : SaidIn(Responses(c).out, role, kind) = SaidIn(Chat(c).out, role, kind)
  BY AllSayTheSame, <1>1 DEF ChatOut, ResponsesOut
<1>5. \A out : SaidBy(out, role) = [kind \in Kinds |-> SaidIn(out, role, kind)]
  BY DEF SaidBy, SaidIn
<1> QED
  BY <1>3, <1>4, <1>5

LEMMA SystemBlocks ==
    ASSUME NEW m \in SpokenSet, m.role = "system"
    PROVE  OfKind(m.blocks, "text") = m.blocks /\ Content(m) = m.blocks
<1>1. SayableSet("system") \subseteq Of({"text"}) /\ SayableSet("system") \subseteq Of({"text", "image"})
  BY DEF SayableSet, KindsOf, Of
<1>2. m.blocks \in Seq(SayableSet("system"))
  BY DEF SpokenSet
<1>3. m.blocks \in Seq(Of({"text"})) /\ m.blocks \in Seq(Of({"text", "image"}))
  BY <1>1, <1>2
<1> QED
  BY <1>3, OfKindsAll DEF OfKind, Content

LEMMA SystemNothing == SystemText(<<>>) = <<>> /\ ChatSys(<<>>) = <<>>
<1>1. OfRoles(<<>>, {"system"}) = <<>>
  BY OfRolesNothing
<1> QED
  BY <1>1, AllBlocksNothing, JoinedNothing, ChatNothing DEF SystemText, ChatSys, Acc

LEMMA SystemSaid ==
    ASSUME NEW c \in Seq(SpokenSet), Responses(c).ok
    PROVE  SaidIn(ResponsesOut(c), "system", "text") = SystemText(c)
<1> DEFINE U == { d \in Seq(SpokenSet) :
                    Responses(d).ok => SaidIn(ResponsesOut(d), "system", "text") = SystemText(d) }
<1>1. <<>> \in U
  <2>1. <<>> \in Seq(SpokenSet)
    OBVIOUS
  <2>2. ResponsesOut(<<>>) = <<>>
    BY ResponsesNothing DEF ResponsesOut, RAcc
  <2> QED
    BY <2>1, <2>2, SystemNothing, SaidInNothing
<1>2. ASSUME NEW d \in Seq(SpokenSet), NEW m \in SpokenSet, d \in U PROVE Append(d, m) \in U
  <2>1. PICK n \in NamesSet : n = NamesAfter(d)
    BY NamesAfterType
  <2>2. ASSUME Responses(Append(d, m)).ok
        PROVE  SaidIn(ResponsesOut(Append(d, m)), "system", "text") = SystemText(Append(d, m))
    <3>1. Responses(d).ok /\ ResponsesOut(Append(d, m)) = ResponsesOut(d) \o ResponsesAdds(m, n)
      BY <2>1, <2>2, ResponsesAppend
    <3>2. PICK b \in Seq(MessageSet) : b = ResponsesOut(d)
      BY <3>1, ResponsesType
    <3>3. PICK x \in Seq(MessageSet) : x = ResponsesAdds(m, n)
      BY ResponsesAddsType
    <3>4. SaidIn(b \o x, "system", "text") = SaidIn(b, "system", "text") \o SaidIn(x, "system", "text")
      BY SaidByTwo
    <3>5. SaidIn(x, "system", "text") = Says(m, "system", "text")
      BY <3>3, ResponsesSays
    <3>6. SaidIn(b, "system", "text") = SystemText(d)
      BY <1>2, <3>1, <3>2
    <3>7. PICK s \in Seq(Stamps) : s = SystemText(d)
      BY SystemTextAppend
    <3>8. SaidIn(ResponsesOut(Append(d, m)), "system", "text") = s \o Says(m, "system", "text")
      BY <3>1, <3>2, <3>3, <3>4, <3>5, <3>6, <3>7, Zenon
    <3>9. CASE m.role = "system"
      <4>1. Says(m, "system", "text") = Joined(m.blocks)
        BY <3>9, SystemBlocks DEF Says
      <4>2. SystemText(Append(d, m)) = s \o Joined(m.blocks)
        BY <3>7, <3>9, SystemTextAppend
      <4> QED
        BY <3>8, <4>1, <4>2
    <3>10. CASE m.role # "system"
      <4>1. Says(m, "system", "text") = <<>>
        BY <3>10 DEF Says
      <4>2. SystemText(Append(d, m)) = s
        BY <3>7, <3>10, SystemTextAppend
      <4>3. s \o <<>> = s
        OBVIOUS
      <4> QED
        BY <3>8, <4>1, <4>2, <4>3
    <3> QED
      BY <3>9, <3>10
  <2>3. Append(d, m) \in Seq(SpokenSet)
    OBVIOUS
  <2> QED
    BY <2>2, <2>3
<1> HIDE DEF U
<1>3. c \in U
  BY <1>1, <1>2, SeqInduction
<1> QED
  BY <1>3 DEF U

Unprompted(c) == \A i \in 1..Len(c) : c[i].role # "system"

PromptedOnce(c) == \A i, j \in 1..Len(c) : c[i].role = "system" /\ c[j].role = "system" => i = j

LEMMA PromptsBefore ==
    ASSUME NEW c \in Seq(SpokenSet), NEW m \in SpokenSet
    PROVE  /\ Unprompted(Append(c, m)) => Unprompted(c) /\ m.role # "system"
           /\ PromptedOnce(Append(c, m)) => PromptedOnce(c) /\ (m.role = "system" => Unprompted(c))
<1> DEFINE d == Append(c, m)
<1>1. Len(c) \in Nat /\ Len(d) = Len(c) + 1 /\ d[Len(c) + 1] = m /\ \A i \in 1..Len(c) : d[i] = c[i]
  OBVIOUS
<1> HIDE DEF d
<1>2. ASSUME Unprompted(d) PROVE Unprompted(c) /\ m.role # "system"
  BY <1>1, <1>2 DEF Unprompted
<1>3. ASSUME PromptedOnce(d) PROVE PromptedOnce(c)
  BY <1>1, <1>3 DEF PromptedOnce
<1>4. ASSUME PromptedOnce(d), m.role = "system", NEW i \in 1..Len(c) PROVE c[i].role # "system"
  <2>1. i \in 1..Len(d) /\ Len(c) + 1 \in 1..Len(d) /\ i # Len(c) + 1
    BY <1>1
  <2> QED
    BY <1>1, <1>4, <2>1 DEF PromptedOnce
<1> QED
  BY <1>2, <1>3, <1>4 DEF d, Unprompted

\* With one system message, the last is all there is.
LEMMA OnePrompt ==
    ASSUME NEW c \in Seq(SpokenSet)
    PROVE  /\ Unprompted(c) => ChatSys(c) = <<>> /\ SystemText(c) = <<>>
           /\ PromptedOnce(c) => ChatSys(c) = SystemText(c)
<1> DEFINE U == { d \in Seq(SpokenSet) :
                    /\ Unprompted(d) => ChatSys(d) = <<>> /\ SystemText(d) = <<>>
                    /\ PromptedOnce(d) => ChatSys(d) = SystemText(d) }
<1>1. <<>> \in U
  <2>1. <<>> \in Seq(SpokenSet)
    OBVIOUS
  <2> QED
    BY <2>1, SystemNothing
<1>2. ASSUME NEW d \in Seq(SpokenSet), NEW m \in SpokenSet, d \in U PROVE Append(d, m) \in U
  <2>1. ChatSys(Append(d, m)) = IF m.role = "system" THEN Joined(Content(m)) ELSE ChatSys(d)
    BY ChatAppend DEF ChatSystem
  <2>2. /\ m.role # "system" => SystemText(Append(d, m)) = SystemText(d)
        /\ m.role = "system" => SystemText(Append(d, m)) = SystemText(d) \o Joined(m.blocks)
    BY SystemTextAppend
  <2>3. /\ Unprompted(d) => ChatSys(d) = <<>> /\ SystemText(d) = <<>>
        /\ PromptedOnce(d) => ChatSys(d) = SystemText(d)
    BY <1>2
  <2>4. Joined(m.blocks) \in Seq(Stamps) /\ <<>> \o Joined(m.blocks) = Joined(m.blocks)
    <3>1. m.blocks \in Seq(BlockSet)
      BY BlocksType
    <3>2. PICK x \in Seq(Stamps) : x = Joined(m.blocks)
      BY <3>1, JoinedType
    <3>3. <<>> \o x = x
      OBVIOUS
    <3> QED
      BY <3>2, <3>3
  <2>5. m.role = "system" => Content(m) = m.blocks
    BY SystemBlocks
  <2>6. Unprompted(Append(d, m)) => ChatSys(Append(d, m)) = <<>> /\ SystemText(Append(d, m)) = <<>>
    BY <2>1, <2>2, <2>3, PromptsBefore
  <2>7. PromptedOnce(Append(d, m)) => ChatSys(Append(d, m)) = SystemText(Append(d, m))
    BY <2>1, <2>2, <2>3, <2>4, <2>5, PromptsBefore
  <2>8. Append(d, m) \in Seq(SpokenSet)
    OBVIOUS
  <2> QED
    BY <2>6, <2>7, <2>8
<1> HIDE DEF U
<1>3. c \in U
  BY <1>1, <1>2, SeqInduction
<1> QED
  BY <1>3 DEF U

LEMMA AtMostOne ==
    ASSUME NEW n \in Nat, NEW S \in SUBSET (1..n), Cardinality(S) <= 1, NEW i \in S, NEW j \in S
    PROVE  i = j
<1>1. IsFiniteSet(1..n)
  BY FS_Interval
<1>2. IsFiniteSet(S) /\ Cardinality(S) \in Nat
  BY <1>1, FS_Subset, FS_CardinalityType
<1>3. CASE Cardinality(S) = 0
  BY <1>2, <1>3, FS_EmptySet
<1>4. CASE Cardinality(S) = 1
  <2>1. PICK x : S = {x}
    BY <1>2, <1>4, FS_Singleton
  <2> QED
    BY <2>1
<1> QED
  BY <1>2, <1>3, <1>4

LEMMA AgreeAlways == ASSUME conversation \in Seq(SpokenSet) PROVE ProtocolsAgree
<1> DEFINE c == conversation
<1>1. \A role \in {"user", "assistant", "tool"} :
          /\ SaidBy(Messages(c).out, role) = SaidBy(Chat(c).out, role)
          /\ Responses(c).ok => SaidBy(Responses(c).out, role) = SaidBy(Chat(c).out, role)
  BY RolesAgree
<1>2. ASSUME Cardinality(SystemMessages) <= 1
      PROVE  /\ Chat(c).system = Messages(c).system
             /\ Responses(c).ok => SaidBy(Responses(c).out, "system")["text"] = Chat(c).system
  <2>1. DOMAIN c = 1..Len(c) /\ Len(c) \in Nat
    OBVIOUS
  <2>2. SystemMessages \in SUBSET (1..Len(c))
    BY <2>1 DEF SystemMessages
  <2>3. PromptedOnce(c)
    <3>1. \A i, j \in SystemMessages : i = j
      BY <1>2, <2>1, <2>2, AtMostOne
    <3> QED
      BY <2>1, <3>1 DEF PromptedOnce, SystemMessages
  <2>4. ChatSys(c) = SystemText(c)
    BY <2>3, OnePrompt
  <2>5. Messages(c).system = SystemText(c)
    BY MessagesIs
  <2>6. "text" \in Kinds
    BY DEF Kinds
  <2>7. SaidBy(Responses(c).out, "system")["text"] = SaidIn(ResponsesOut(c), "system", "text")
    BY <2>6 DEF SaidBy, SaidIn, ResponsesOut
  <2> QED
    BY <2>4, <2>5, <2>7, SystemSaid DEF ChatSys
<1> QED
  BY <1>1, <1>2 DEF ProtocolsAgree

-----------------------------------------------------------------------------
(* Stamps sent once *)

\* A text is made of certain stamps, each once.
Exactly(v, S) ==
    /\ v \in Seq(Stamps) /\ Range(v) = S
    /\ \A i, j \in 1..Len(v) : v[i] = v[j] => i = j

LEMMA ExactlyNothing == Exactly(<<>>, {})
<1>1. <<>> \in Seq(Stamps) /\ Len(<<>>) = 0
  OBVIOUS
<1> QED
  BY <1>1, RangeNothing DEF Exactly

LEMMA ExactlyOne == ASSUME NEW s \in Stamps PROVE Exactly(<<s>>, {s})
<1>1. <<s>> \in Seq(Stamps) /\ Len(<<s>>) = 1
  OBVIOUS
<1>2. \A i, j \in 1..1 : i = j
  OBVIOUS
<1> QED
  BY <1>1, <1>2, RangeOne DEF Exactly

\* Texts without a common stamp, put together.
LEMMA ExactlyBoth ==
    ASSUME NEW u, NEW v, NEW S, NEW T, Exactly(u, S), Exactly(v, T), S \cap T = {}
    PROVE  Exactly(u \o v, S \cup T)
<1>1. u \in Seq(Stamps) /\ v \in Seq(Stamps) /\ Range(u) = S /\ Range(v) = T
  BY DEF Exactly
<1>2. Range(u \o v) = S \cup T
  BY <1>1, RangeConcat
<1>3. u \o v \in Seq(Stamps)
  BY <1>1
<1>4. /\ Len(u) \in Nat /\ Len(v) \in Nat /\ Len(u \o v) = Len(u) + Len(v)
      /\ \A i \in 1..Len(u) : (u \o v)[i] = u[i]
      /\ \A i \in 1..Len(v) : (u \o v)[Len(u) + i] = v[i]
  BY <1>1
<1>5. /\ \A i \in 1..Len(u) : u[i] \in S
      /\ \A i \in 1..Len(v) : v[i] \in T
  BY <1>1, RangeIs
<1>6. ASSUME NEW i \in 1..Len(u) + Len(v), NEW j \in 1..Len(u) + Len(v), (u \o v)[i] = (u \o v)[j]
      PROVE  i = j
  <2>1. CASE i <= Len(u) /\ j <= Len(u)
    <3>1. i \in 1..Len(u) /\ j \in 1..Len(u)
      BY <1>4, <2>1
    <3>2. u[i] = u[j]
      BY <1>4, <1>6, <3>1
    <3> QED
      BY <3>1, <3>2 DEF Exactly
  <2>2. CASE i <= Len(u) /\ ~(j <= Len(u))
    <3>1. i \in 1..Len(u) /\ j - Len(u) \in 1..Len(v) /\ Len(u) + (j - Len(u)) = j
      BY <1>4, <2>2
    <3>2. u[i] = v[j - Len(u)]
      BY <1>4, <1>6, <3>1
    <3> QED
      BY <1>5, <3>1, <3>2
  <2>3. CASE ~(i <= Len(u)) /\ j <= Len(u)
    <3>1. j \in 1..Len(u) /\ i - Len(u) \in 1..Len(v) /\ Len(u) + (i - Len(u)) = i
      BY <1>4, <2>3
    <3>2. u[j] = v[i - Len(u)]
      BY <1>4, <1>6, <3>1
    <3> QED
      BY <1>5, <3>1, <3>2
  <2>4. CASE ~(i <= Len(u)) /\ ~(j <= Len(u))
    <3>1. /\ j - Len(u) \in 1..Len(v) /\ Len(u) + (j - Len(u)) = j
          /\ i - Len(u) \in 1..Len(v) /\ Len(u) + (i - Len(u)) = i
      BY <1>4, <2>4
    <3>2. v[i - Len(u)] = v[j - Len(u)]
      BY <1>4, <1>6, <3>1
    <3>3. i - Len(u) = j - Len(u)
      BY <3>1, <3>2 DEF Exactly
    <3> QED
      BY <1>4, <3>3
  <2> QED
    BY <2>1, <2>2, <2>3, <2>4
<1> QED
  BY <1>2, <1>3, <1>4, <1>6 DEF Exactly

LEMMA ExactlyCounts ==
    ASSUME NEW v, NEW S, Exactly(v, S)
    PROVE  Range(v) = S /\ Len(v) = Cardinality(S)
<1>1. /\ v \in Seq(Stamps) /\ Range(v) = S /\ Len(v) \in Nat /\ DOMAIN v = 1..Len(v)
      /\ \A i, j \in 1..Len(v) : v[i] = v[j] => i = j
  BY DEF Exactly
<1>2. v \in [1..Len(v) -> S] /\ \A s \in S : \E i \in 1..Len(v) : v[i] = s
  BY <1>1, RangeIs
<1>3. v \in Bijection(1..Len(v), S)
  BY <1>1, <1>2 DEF Bijection, Injection, Surjection, IsInjective
<1>4. ExistsBijection(1..Len(v), S)
  BY <1>3 DEF ExistsBijection
<1> QED
  BY <1>1, <1>4, FS_CountingElements

-----------------------------------------------------------------------------
(* The stamps of a message *)

\* Blocks that follow others, of the given number.
Follows(B, base) ==
    \A i \in 1..Len(B) : B[i].value = <<base + i>> \/ (B[i].kind = "text" /\ B[i].value = <<>>)

\* Their stamps, by the kind.
Here(B, base, kinds) ==
    { p \in base + 1..base + Len(B) : B[p - base].kind \in kinds /\ B[p - base].value # <<>> }

LEMMA FollowsBefore ==
    ASSUME NEW B \in Seq(BlockSet), NEW b \in BlockSet, NEW base \in Nat, Follows(Append(B, b), base)
    PROVE  /\ Follows(B, base)
           /\ b.value = <<base + Len(B) + 1>> \/ (b.kind = "text" /\ b.value = <<>>)
<1>1. /\ Len(B) \in Nat /\ Len(Append(B, b)) = Len(B) + 1 /\ Append(B, b)[Len(B) + 1] = b
      /\ \A i \in 1..Len(B) : Append(B, b)[i] = B[i]
  OBVIOUS
<1>2. base + (Len(B) + 1) = base + Len(B) + 1 /\ Len(B) + 1 \in 1..Len(B) + 1
  BY <1>1
<1>3. b.value = <<base + Len(B) + 1>> \/ (b.kind = "text" /\ b.value = <<>>)
  BY <1>1, <1>2 DEF Follows
<1>4. \A i \in 1..Len(B) : i \in 1..Len(B) + 1
  BY <1>1
<1>5. Follows(B, base)
  BY <1>1, <1>4 DEF Follows
<1> QED
  BY <1>3, <1>5

LEMMA HereAppend ==
    ASSUME NEW B \in Seq(BlockSet), NEW b \in BlockSet, NEW base \in Nat, NEW kinds
    PROVE  /\ Here(Append(B, b), base, kinds) =
                 Here(B, base, kinds) \cup
                 (IF b.kind \in kinds /\ b.value # <<>> THEN {base + Len(B) + 1} ELSE {})
           /\ base + Len(B) + 1 \notin Here(B, base, kinds)
<1> DEFINE n == Len(B)
           C == Append(B, b)
<1>1. n \in Nat /\ Len(C) = n + 1 /\ C[n + 1] = b /\ \A i \in 1..n : C[i] = B[i]
  OBVIOUS
<1> HIDE DEF C
<1>2. base + n + 1 \notin Here(B, base, kinds)
  BY <1>1 DEF Here
<1>3. ASSUME NEW p \in base + 1..base + n
      PROVE  p \in base + 1..base + (n + 1) /\ C[p - base] = B[p - base] /\ p # base + n + 1
  <2>1. p - base \in 1..n
    BY <1>1
  <2> QED
    BY <1>1, <2>1
<1>4. (base + n + 1) - base = n + 1 /\ base + n + 1 \in base + 1..base + (n + 1)
  BY <1>1
<1>5. \A p \in base + 1..base + (n + 1) : p = base + n + 1 \/ p \in base + 1..base + n
  BY <1>1
<1>6. ASSUME NEW p PROVE p \in Here(C, base, kinds) <=>
          p \in Here(B, base, kinds) \/ (p = base + n + 1 /\ b.kind \in kinds /\ b.value # <<>>)
  <2>1. p \in Here(C, base, kinds) <=>
          p \in base + 1..base + (n + 1) /\ C[p - base].kind \in kinds /\ C[p - base].value # <<>>
    BY <1>1 DEF Here
  <2>2. p \in Here(B, base, kinds) <=>
          p \in base + 1..base + n /\ B[p - base].kind \in kinds /\ B[p - base].value # <<>>
    BY DEF Here
  <2>3. CASE p = base + n + 1
    BY <1>1, <1>2, <1>4, <2>1, <2>3
  <2>4. CASE p # base + n + 1
    BY <1>3, <1>5, <2>1, <2>2, <2>4
  <2> QED
    BY <2>3, <2>4
<1> QED
  BY <1>2, <1>6 DEF C

\* The blocks of certain kinds carry their stamps, each once.
LEMMA BlocksOnce ==
    ASSUME NEW B \in Seq(BlockSet), NEW base \in Nat, Follows(B, base), NEW kinds
    PROVE  Exactly(Joined(OfKinds(B, kinds)), Here(B, base, kinds))
<1> DEFINE U == { t \in Seq(BlockSet) :
                    Follows(t, base) => Exactly(Joined(OfKinds(t, kinds)), Here(t, base, kinds)) }
<1>1. <<>> \in U
  <2>1. <<>> \in Seq(BlockSet)
    OBVIOUS
  <2>2. Here(<<>>, base, kinds) = {}
    BY DEF Here
  <2>3. Joined(OfKinds(<<>>, kinds)) = <<>>
    BY OfKindsNothing, JoinedNothing
  <2> QED
    BY <2>1, <2>2, <2>3, ExactlyNothing
<1>2. ASSUME NEW t \in Seq(BlockSet), NEW b \in BlockSet, t \in U PROVE Append(t, b) \in U
  <2>1. Append(t, b) \in Seq(BlockSet) /\ <<b>> \in Seq(BlockSet) /\ Append(t, b) = t \o <<b>>
    OBVIOUS
  <2>2. SUFFICES ASSUME Follows(Append(t, b), base)
                 PROVE  Exactly(Joined(OfKinds(Append(t, b), kinds)), Here(Append(t, b), base, kinds))
    BY <2>1
  <2>3. /\ Follows(t, base)
        /\ b.value = <<base + Len(t) + 1>> \/ (b.kind = "text" /\ b.value = <<>>)
    BY <2>2, FollowsBefore
  <2>4. Exactly(Joined(OfKinds(t, kinds)), Here(t, base, kinds))
    BY <1>2, <2>3
  <2>5. OfKinds(t \o <<b>>, kinds) = OfKinds(t, kinds) \o OfKinds(<<b>>, kinds)
    BY <2>1, OfKindsConcat
  <2>6. OfKinds(<<b>>, kinds) = IF b.kind \in kinds THEN <<b>> ELSE <<>>
    BY OfKindsOne
  <2>7. PICK s \in Seq(BlockSet) : s = OfKinds(t, kinds)
    BY OfKindsType
  <2>8. /\ Here(Append(t, b), base, kinds) = Here(t, base, kinds) \cup
                 (IF b.kind \in kinds /\ b.value # <<>> THEN {base + Len(t) + 1} ELSE {})
        /\ base + Len(t) + 1 \notin Here(t, base, kinds)
    BY HereAppend
  <2>9. CASE b.kind \in kinds
    <3>1. OfKinds(Append(t, b), kinds) = Append(s, b)
      <4>1. Append(s, b) = s \o <<b>>
        OBVIOUS
      <4> QED
        BY <2>1, <2>5, <2>6, <2>7, <2>9, <4>1
    <3>2. Joined(Append(s, b)) = Joined(s) \o b.value /\ Joined(s) \in Seq(Stamps)
      BY JoinedAppend, JoinedType
    <3>3. CASE b.value = <<>>
      <4>1. Joined(Append(s, b)) = Joined(s)
        BY <3>2, <3>3
      <4>2. Here(Append(t, b), base, kinds) = Here(t, base, kinds)
        BY <2>8, <3>3
      <4> QED
        BY <2>4, <2>7, <3>1, <4>1, <4>2
    <3>4. CASE b.value # <<>>
      <4>1. b.value = <<base + Len(t) + 1>> /\ b.value \in Seq(Stamps)
        BY <2>3, <3>4 DEF BlockSet
      <4>2. PICK p : p = base + Len(t) + 1
        OBVIOUS
      <4>3. b.value = <<p>> /\ p \in Stamps
        <5>1. b.value = <<p>> /\ <<p>> \in Seq(Stamps)
          BY <4>1, <4>2
        <5>2. Len(<<p>>) = 1 /\ <<p>>[1] = p
          OBVIOUS
        <5>3. <<p>>[1] \in Stamps
          BY <5>1, <5>2
        <5> QED
          BY <5>1, <5>2, <5>3
      <4>4. Exactly(<<p>>, {p})
        BY <4>3, ExactlyOne
      <4>5. Here(Append(t, b), base, kinds) = Here(t, base, kinds) \cup {p} /\ Here(t, base, kinds) \cap {p} = {}
        BY <2>8, <2>9, <3>4, <4>2
      <4>6. Exactly(Joined(OfKinds(t, kinds)) \o <<p>>, Here(t, base, kinds) \cup {p})
        BY <2>4, <4>4, <4>5, ExactlyBoth
      <4>7. Joined(OfKinds(Append(t, b), kinds)) = Joined(OfKinds(t, kinds)) \o <<p>>
        BY <2>7, <3>1, <3>2, <4>3
      <4> QED
        BY <4>5, <4>6, <4>7
    <3> QED
      BY <3>3, <3>4
  <2>10. CASE b.kind \notin kinds
    <3>1. s \o <<>> = s
      OBVIOUS
    <3>2. OfKinds(Append(t, b), kinds) = s
      BY <2>1, <2>5, <2>6, <2>7, <2>10, <3>1
    <3>3. Here(Append(t, b), base, kinds) = Here(t, base, kinds)
      BY <2>8, <2>10
    <3> QED
      BY <2>4, <2>7, <3>2, <3>3
  <2> QED
    BY <2>9, <2>10
<1> HIDE DEF U
<1>3. B \in U
  BY <1>1, <1>2, SeqInduction
<1> QED
  BY <1>3 DEF U

-----------------------------------------------------------------------------
(* The stamps of what is sent *)

LEMMA StampsNothing == StampsOf(<<>>) = <<>>
  BY AllBlocksNothing, JoinedNothing DEF StampsOf

LEMMA StampsConcat ==
    ASSUME NEW s \in Seq(MessageSet), NEW t \in Seq(MessageSet)
    PROVE  StampsOf(s) \in Seq(Stamps) /\ StampsOf(s \o t) = StampsOf(s) \o StampsOf(t)
<1>1. AllBlocks(s \o t) = AllBlocks(s) \o AllBlocks(t)
  BY AllBlocksConcat
<1>2. PICK p \in Seq(BlockSet) : p = AllBlocks(s)
  BY AllBlocksType
<1>3. PICK q \in Seq(BlockSet) : q = AllBlocks(t)
  BY AllBlocksType
<1>4. Joined(p \o q) = Joined(p) \o Joined(q) /\ Joined(p) \in Seq(Stamps)
  BY JoinedConcat, JoinedType
<1> QED
  BY <1>1, <1>2, <1>3, <1>4 DEF StampsOf

LEMMA StampsOne == ASSUME NEW m \in MessageSet PROVE StampsOf(<<m>>) = Joined(m.blocks)
<1>1. AllBlocks(<<m>>) = m.blocks
  BY AllBlocksOne
<1> QED
  BY <1>1 DEF StampsOf

\* Nothing empty is sent.
Full(out) == \A x \in Range(out) : x.blocks # <<>>

LEMMA FullConcat ==
    ASSUME NEW s \in Seq(MessageSet), NEW t \in Seq(MessageSet), Full(s), Full(t)
    PROVE  Full(s \o t)
  BY RangeConcat DEF Full

LEMMA FullOne == ASSUME NEW m, m.blocks # <<>> PROVE Full(<<m>>)
  BY RangeOne DEF Full

LEMMA FullNothing == Full(<<>>)
  BY RangeNothing DEF Full

LEMMA ResultsOnce ==
    ASSUME NEW rs \in Seq(ResultSet), NEW names \in NamesSet
    PROVE  StampsOf(Results(rs, names)) = Joined(rs) /\ Full(Results(rs, names))
<1> DEFINE U == { s \in Seq(ResultSet) : StampsOf(Results(s, names)) = Joined(s) /\ Full(Results(s, names)) }
<1>1. <<>> \in U
  <2>1. <<>> \in Seq(ResultSet)
    OBVIOUS
  <2>2. StampsOf(Results(<<>>, names)) = <<>> /\ Full(Results(<<>>, names))
    BY ResultsNothing, StampsNothing, FullNothing, Zenon
  <2> QED
    BY <2>1, <2>2, JoinedNothing
<1>2. ASSUME NEW s \in Seq(ResultSet), NEW b \in ResultSet, s \in U PROVE Append(s, b) \in U
  <2>1. PICK f \in Seq(MessageSet) : f = Results(s, names)
    BY ResultsMessages
  <2>2. PICK x \in MessageSet : x = Result(b, names)
    BY ResultType
  <2>3. Results(Append(s, b), names) = Append(f, x)
    BY <2>1, <2>2, ResultsAppend
  <2>4. PICK y \in Seq(MessageSet) : y = <<x>>
    <3>1. <<x>> \in Seq(MessageSet)
      OBVIOUS
    <3> QED
      BY <3>1
  <2>5. Append(f, x) = f \o y
    BY <2>4
  <2>6. PICK r \in BlockSet : r = Renamed(b, names)
    BY RenamedType
  <2>7. r.value = b.value
    BY <2>6, RenamedType
  <2>8. x.blocks = <<r>> /\ x.blocks # <<>>
    BY <2>2, <2>6, ResultIs DEF Message
  <2>9. StampsOf(y) = b.value
    BY <2>4, <2>7, <2>8, StampsOne, JoinedOne
  <2>10. StampsOf(f \o y) = StampsOf(f) \o StampsOf(y)
    BY StampsConcat
  <2>11. b \in BlockSet /\ s \in Seq(BlockSet) /\ Append(s, b) \in Seq(ResultSet)
    BY CallSetType
  <2>12. Joined(Append(s, b)) = Joined(s) \o b.value
    BY <2>11, JoinedAppend
  <2>13. StampsOf(f) = Joined(s) /\ Full(f)
    BY <1>2, <2>1
  <2>14. StampsOf(Results(Append(s, b), names)) = Joined(Append(s, b))
    BY <2>3, <2>5, <2>9, <2>10, <2>12, <2>13, Zenon
  <2>15. Full(y)
    BY <2>4, <2>8, FullOne
  <2>16. Full(f \o y)
    BY <2>13, <2>15, FullConcat
  <2> QED
    BY <2>3, <2>5, <2>11, <2>14, <2>16
<1> HIDE DEF U
<1>3. rs \in U
  BY <1>1, <1>2, SeqInduction
<1> QED
  BY <1>3 DEF U

LEMMA CallMessagesOnce ==
    ASSUME NEW cs \in Seq(CallSet)
    PROVE  StampsOf(CallMessages(cs)) = Joined(cs) /\ Full(CallMessages(cs))
<1> DEFINE U == { s \in Seq(CallSet) : StampsOf(CallMessages(s)) = Joined(s) /\ Full(CallMessages(s)) }
<1>1. <<>> \in U
  <2>1. <<>> \in Seq(CallSet)
    OBVIOUS
  <2>2. StampsOf(CallMessages(<<>>)) = <<>> /\ Full(CallMessages(<<>>))
    BY CallMessagesNothing, StampsNothing, FullNothing, Zenon
  <2> QED
    BY <2>1, <2>2, JoinedNothing
<1>2. ASSUME NEW s \in Seq(CallSet), NEW b \in CallSet, s \in U PROVE Append(s, b) \in U
  <2>1. PICK f \in Seq(MessageSet) : f = CallMessages(s)
    BY CallMessagesType
  <2>2. PICK x \in MessageSet : x = CallMessage(b)
    BY CallMessageType
  <2>3. CallMessages(Append(s, b)) = Append(f, x)
    BY <2>1, <2>2, CallMessagesAppend
  <2>4. PICK y \in Seq(MessageSet) : y = <<x>>
    <3>1. <<x>> \in Seq(MessageSet)
      OBVIOUS
    <3> QED
      BY <3>1
  <2>5. Append(f, x) = f \o y
    BY <2>4
  <2>8. x.blocks = <<b>> /\ x.blocks # <<>>
    BY <2>2 DEF CallMessage, Message
  <2>11. b \in BlockSet /\ s \in Seq(BlockSet) /\ Append(s, b) \in Seq(CallSet)
    BY CallSetType
  <2>9. StampsOf(y) = b.value
    BY <2>4, <2>8, <2>11, StampsOne, JoinedOne
  <2>10. StampsOf(f \o y) = StampsOf(f) \o StampsOf(y)
    BY StampsConcat
  <2>12. Joined(Append(s, b)) = Joined(s) \o b.value
    BY <2>11, JoinedAppend
  <2>13. StampsOf(f) = Joined(s) /\ Full(f)
    BY <1>2, <2>1
  <2>14. StampsOf(CallMessages(Append(s, b))) = Joined(Append(s, b))
    BY <2>3, <2>5, <2>9, <2>10, <2>12, <2>13, Zenon
  <2>15. Full(y)
    BY <2>4, <2>8, FullOne
  <2>16. Full(f \o y)
    BY <2>13, <2>15, FullConcat
  <2> QED
    BY <2>3, <2>5, <2>11, <2>14, <2>16
<1> HIDE DEF U
<1>3. cs \in U
  BY <1>1, <1>2, SeqInduction
<1> QED
  BY <1>3 DEF U

LEMMA JoinedCoerced == ASSUME NEW s \in Seq(BlockSet) PROVE Joined(Coerced(s)) = Joined(s)
<1>1. CASE s = <<>> \/ OfKind(s, "image") # <<>>
  BY <1>1 DEF Coerced
<1>2. CASE ~(s = <<>> \/ OfKind(s, "image") # <<>>)
  <2>1. PICK v \in Seq(Stamps) : v = Joined(s)
    BY JoinedType
  <2>2. PICK t \in BlockSet : t = Text(v)
    BY TextType
  <2>3. Coerced(s) = <<t>> /\ t.value = v
    BY <1>2, <2>1, <2>2 DEF Coerced, Text, Block
  <2> QED
    BY <2>1, <2>3, JoinedOne
<1> QED
  BY <1>1, <1>2

LEMMA ChatBodyStamps ==
    ASSUME NEW m \in SpokenSet
    PROVE  /\ Joined(ChatBody(m.role, Content(m), CallsOf(m)).blocks) = Joined(Content(m)) \o Joined(CallsOf(m))
           /\ ChatBody(m.role, Content(m), CallsOf(m)).blocks # <<>>
<1>1. PICK c \in Seq(BlockSet) : c = Content(m)
  BY ContentType
<1>2. PICK s \in Seq(BlockSet) : s = Coerced(c)
  BY CoercedType
<1>3. CallsOf(m) \in Seq(CallSet)
  BY CallsType
<1>4. PICK t \in Seq(BlockSet) : t = CallsOf(m)
  BY <1>3, CallsAreBlocks
<1>5. Joined(s \o t) = Joined(s) \o Joined(t)
  BY JoinedConcat
<1>6. Joined(s \o t) = Joined(Content(m)) \o Joined(CallsOf(m))
  BY <1>1, <1>2, <1>4, <1>5, JoinedCoerced
<1>7. ChatBody(m.role, Content(m), CallsOf(m)).blocks = IF s \o t = <<>> THEN <<Text(<<>>)>> ELSE s \o t
  BY <1>1, <1>2, <1>4 DEF ChatBody, Message
<1>8. CASE s \o t = <<>>
  <2>1. PICK x \in BlockSet : x = Text(<<>>)
    BY NoTextType
  <2>2. x.value = <<>> /\ <<x>> # <<>>
    BY <2>1 DEF Text, Block
  <2>3. Joined(<<x>>) = <<>> /\ Joined(<<>>) = <<>>
    BY <2>2, JoinedOne, JoinedNothing
  <2> QED
    BY <1>6, <1>7, <1>8, <2>1, <2>2, <2>3
<1>9. CASE s \o t # <<>>
  BY <1>6, <1>7, <1>9
<1> QED
  BY <1>8, <1>9

\* A message that is sent, if there is something in it.
LEMMA SentOnce ==
    ASSUME NEW x \in MessageSet, NEW sent \in BOOLEAN, NEW v,
           sent => Joined(x.blocks) = v /\ x.blocks # <<>>, ~sent => v = <<>>
    PROVE  /\ StampsOf(IF sent THEN <<x>> ELSE <<>>) = v
           /\ Full(IF sent THEN <<x>> ELSE <<>>)
<1>1. CASE sent
  BY <1>1, StampsOne, FullOne
<1>2. CASE ~sent
  BY <1>2, StampsNothing, FullNothing
<1> QED
  BY <1>1, <1>2

LEMMA NothingJoined == Joined(<<>>) \o Joined(<<>>) = <<>>
<1>1. <<>> \o <<>> = <<>>
  OBVIOUS
<1> QED
  BY <1>1, JoinedNothing

LEMMA ChatStamps ==
    ASSUME NEW m \in SpokenSet, m.role # "system", NEW names \in NamesSet
    PROVE  /\ StampsOf(ChatAdds(m, names)) = Joined(ResultsOf(m)) \o (Joined(Content(m)) \o Joined(CallsOf(m)))
           /\ Full(ChatAdds(m, names))
<1>1. CallsOf(m) \in Seq(CallSet) /\ Content(m) \in Seq(BlockSet) /\ m.role \in Roles /\ ResultsOf(m) \in Seq(ResultSet)
  BY CallsType, ContentType, SpokenRole, ResultsType
<1>2. PICK x \in MessageSet : x = ChatBody(m.role, Content(m), CallsOf(m))
  BY <1>1, ChatBodyType
<1>3. PICK v : v = Joined(Content(m)) \o Joined(CallsOf(m))
  OBVIOUS
<1>4. Joined(x.blocks) = v /\ x.blocks # <<>>
  BY <1>2, <1>3, ChatBodyStamps
<1>5. ~Beside(m) => Content(m) = <<>> /\ CallsOf(m) = <<>>
  BY NothingSaid DEF Beside
<1>6. Beside(m) \in BOOLEAN /\ (~Beside(m) => v = <<>>)
  BY <1>3, <1>5, NothingJoined DEF Beside
<1>7. PICK t \in Seq(MessageSet) : t = IF Beside(m) THEN <<x>> ELSE <<>>
  <2>1. (IF Beside(m) THEN <<x>> ELSE <<>>) \in Seq(MessageSet)
    BY <1>6, SentType
  <2> QED
    BY <2>1
<1>8. StampsOf(t) = v /\ Full(t)
  BY <1>4, <1>6, <1>7, SentOnce
<1>9. PICK s \in Seq(MessageSet) : s = Results(ResultsOf(m), names)
  BY <1>1, ResultsMessages
<1>10. ChatAdds(m, names) = s \o t
  BY <1>2, <1>7, <1>9 DEF ChatAdds
<1>11. StampsOf(s) = Joined(ResultsOf(m)) /\ Full(s)
  BY <1>1, <1>9, ResultsOnce
<1>12. StampsOf(s \o t) = StampsOf(s) \o StampsOf(t)
  BY StampsConcat
<1>13. Full(s \o t)
  BY <1>8, <1>11, FullConcat
<1> QED
  BY <1>3, <1>8, <1>10, <1>11, <1>12, <1>13

LEMMA MessagesStamps ==
    ASSUME NEW m \in SpokenSet, m.role # "system", NEW names \in NamesSet
    PROVE  /\ StampsOf(MessagesAdds(m, names)) = Joined(Speech(m)) \o Joined(ResultsOf(m))
           /\ Full(MessagesAdds(m, names))
<1>1. Speech(m) \in Seq(BlockSet) /\ m.role \in Roles /\ ResultsOf(m) \in Seq(ResultSet)
  BY SpeechType, SpokenRole, ResultsType
<1>2. PICK x \in MessageSet : x = Message(m.role, Speech(m))
  BY <1>1, MessageTypeOf
<1>3. PICK v : v = Joined(Speech(m))
  OBVIOUS
<1>4. x.blocks = Speech(m)
  BY <1>2 DEF Message
<1>5. PICK sent \in BOOLEAN : sent <=> Speech(m) # <<>>
  <2>1. (Speech(m) # <<>>) \in BOOLEAN
    OBVIOUS
  <2> QED
    BY <2>1
<1>6. /\ sent => Joined(x.blocks) = v /\ x.blocks # <<>>
      /\ ~sent => v = <<>>
  BY <1>3, <1>4, <1>5, JoinedNothing
<1>7. PICK t \in Seq(MessageSet) : t = IF sent THEN <<x>> ELSE <<>>
  <2>1. (IF sent THEN <<x>> ELSE <<>>) \in Seq(MessageSet)
    BY SentType
  <2> QED
    BY <2>1
<1>8. StampsOf(t) = v /\ Full(t)
  BY <1>6, <1>7, SentOnce
<1>9. PICK s \in Seq(MessageSet) : s = Results(ResultsOf(m), names)
  BY <1>1, ResultsMessages
<1>10. MessagesAdds(m, names) = t \o s
  BY <1>2, <1>5, <1>7, <1>9 DEF MessagesAdds
<1>11. StampsOf(s) = Joined(ResultsOf(m)) /\ Full(s)
  BY <1>1, <1>9, ResultsOnce
<1>12. StampsOf(t \o s) = StampsOf(t) \o StampsOf(s)
  BY StampsConcat
<1>13. Full(t \o s)
  BY <1>8, <1>11, FullConcat
<1> QED
  BY <1>3, <1>8, <1>10, <1>11, <1>12, <1>13

LEMMA ContentMessageStamps ==
    ASSUME NEW m \in SpokenSet, ~Unsupported(ContentItem(m))
    PROVE  /\ Joined(ContentMessage(m).blocks) = Joined(Content(m)) \o Joined(Inside(m))
           /\ ContentMessage(m).blocks # <<>>
<1>1. PICK c \in Seq(BlockSet) : c = Content(m)
  BY ContentType
<1>2. PICK n \in Seq(BlockSet) : n = NonEmpty(c)
  BY NonEmptyType
<1>3. Inside(m) \in Seq(CallSet)
  BY InsideType
<1>4. PICK i \in Seq(BlockSet) : i = Inside(m)
  BY <1>3, CallsAreBlocks
<1>5. ContentMessage(m).blocks = n \o i
  BY <1>1, <1>2, <1>4 DEF ContentMessage, Message
<1>6. Joined(n \o i) = Joined(n) \o Joined(i)
  BY JoinedConcat
<1>7. Joined(n) = Joined(c)
  BY <1>2, NonEmptyIs, JoinedNonEmpty
<1>8. Joined(c) # <<>> \/ i # <<>>
  <2>1. ContentItem(m).blocks = c /\ ContentItem(m).calls = i
    BY <1>1, <1>4 DEF ContentItem, Item
  <2> QED
    BY <2>1 DEF Unsupported
<1>9. n # <<>> \/ i # <<>>
  BY <1>7, <1>8, JoinedNothing
<1>10. n \o i # <<>>
  <2>1. Len(n \o i) = Len(n) + Len(i) /\ Len(n) \in Nat /\ Len(i) \in Nat
    OBVIOUS
  <2>2. Len(n) # 0 \/ Len(i) # 0
    BY <1>9
  <2>3. Len(n \o i) # 0
    BY <2>1, <2>2
  <2> QED
    BY <2>3
<1> QED
  BY <1>1, <1>4, <1>5, <1>6, <1>7, <1>10

LEMMA ResponsesStamps ==
    ASSUME NEW m \in SpokenSet, NEW names \in NamesSet, Sendable(m, names)
    PROVE  /\ StampsOf(ResponsesAdds(m, names)) =
                 (Joined(ResultsOf(m)) \o (Joined(Content(m)) \o Joined(Inside(m)))) \o Joined(Apart(m))
           /\ Full(ResponsesAdds(m, names))
<1>1. PICK x \in MessageSet : x = ContentMessage(m)
  BY ContentMessageType
<1>2. ResultsOf(m) \in Seq(ResultSet) /\ Apart(m) \in Seq(CallSet) /\ Accompanied(m) \in BOOLEAN
  BY ResultsType, InsideType DEF Accompanied
<1>3. PICK v : v = Joined(Content(m)) \o Joined(Inside(m))
  OBVIOUS
<1>4. Accompanied(m) => Joined(x.blocks) = v /\ x.blocks # <<>>
  BY <1>1, <1>3, ContentMessageStamps DEF Sendable
<1>5. ~Accompanied(m) => v = <<>>
  <2>1. ~Accompanied(m) => Content(m) = <<>> /\ Inside(m) = <<>>
    BY NothingSaid DEF Accompanied, Inside
  <2> QED
    BY <1>3, <2>1, NothingJoined
<1>6. PICK r \in Seq(MessageSet) : r = Results(ResultsOf(m), names)
  BY <1>2, ResultsMessages
<1>7. PICK t \in Seq(MessageSet) : t = IF Accompanied(m) THEN <<x>> ELSE <<>>
  <2>1. (IF Accompanied(m) THEN <<x>> ELSE <<>>) \in Seq(MessageSet)
    BY <1>2, SentType
  <2> QED
    BY <2>1
<1>8. PICK u \in Seq(MessageSet) : u = CallMessages(Apart(m))
  BY <1>2, CallMessagesType
<1>9. ResponsesAdds(m, names) = (r \o t) \o u
  BY <1>1, <1>6, <1>7, <1>8, Zenon DEF ResponsesAdds
<1>10. PICK rt \in Seq(MessageSet) : rt = r \o t
  <2>1. r \o t \in Seq(MessageSet)
    OBVIOUS
  <2> QED
    BY <2>1
<1>11. StampsOf(r) = Joined(ResultsOf(m)) /\ Full(r)
  BY <1>2, <1>6, ResultsOnce
<1>12. StampsOf(t) = v /\ Full(t)
  BY <1>2, <1>4, <1>5, <1>7, SentOnce
<1>13. StampsOf(u) = Joined(Apart(m)) /\ Full(u)
  BY <1>2, <1>8, CallMessagesOnce
<1>14. StampsOf(r \o t) = StampsOf(r) \o StampsOf(t) /\ StampsOf(rt \o u) = StampsOf(rt) \o StampsOf(u)
  BY StampsConcat
<1>15. Full(r \o t)
  BY <1>11, <1>12, FullConcat
<1>16. Full(rt \o u)
  BY <1>10, <1>13, <1>15, FullConcat
<1> QED
  BY <1>3, <1>9, <1>10, <1>11, <1>12, <1>13, <1>14, <1>16, Zenon

\* The kinds of blocks that go upstream.
Carried == {"text", "image", "call", "result"}

LEMMA PartsOnce ==
    ASSUME NEW m \in SpokenSet, NEW base \in Nat, Follows(m.blocks, base)
    PROVE  /\ Exactly(Joined(ResultsOf(m)), Here(m.blocks, base, {"result"}))
           /\ Exactly(Joined(Content(m)), Here(m.blocks, base, {"text", "image"}))
           /\ Exactly(Joined(CallsOf(m)), Here(m.blocks, base, {"call"}))
           /\ Exactly(Joined(Speech(m)), Here(m.blocks, base, {"text", "image", "call"}))
  BY BlocksType, BlocksOnce DEF ResultsOf, Content, CallsOf, Speech, OfKind

LEMMA PartsOfHere ==
    ASSUME NEW B, NEW base
    PROVE  LET H(kinds) == Here(B, base, kinds)
           IN  /\ H({"text", "image"}) \cup H({"call"}) = H({"text", "image", "call"})
               /\ H({"text", "image"}) \cap H({"call"}) = {}
               /\ H({"result"}) \cup H({"text", "image", "call"}) = H(Carried)
               /\ H({"result"}) \cap H({"text", "image", "call"}) = {}
  BY DEF Here, Carried

LEMMA SpokenOnce ==
    ASSUME NEW m \in SpokenSet, NEW base \in Nat, Follows(m.blocks, base)
    PROVE  Exactly(Joined(Content(m)) \o Joined(CallsOf(m)), Here(m.blocks, base, {"text", "image", "call"}))
<1>1. PICK c : c = Here(m.blocks, base, {"text", "image"})
  OBVIOUS
<1>2. PICK d : d = Here(m.blocks, base, {"call"})
  OBVIOUS
<1>3. c \cup d = Here(m.blocks, base, {"text", "image", "call"}) /\ c \cap d = {}
  BY <1>1, <1>2, PartsOfHere
<1>4. Exactly(Joined(Content(m)), c) /\ Exactly(Joined(CallsOf(m)), d)
  BY <1>1, <1>2, PartsOnce
<1>5. Exactly(Joined(Content(m)) \o Joined(CallsOf(m)), c \cup d)
  BY <1>3, <1>4, ExactlyBoth
<1> QED
  BY <1>3, <1>5

\* A message adds its own stamps, each once, and nothing empty, through Chat ...
LEMMA ChatOnce ==
    ASSUME NEW m \in SpokenSet, m.role # "system", NEW names \in NamesSet,
           NEW base \in Nat, Follows(m.blocks, base)
    PROVE  Exactly(StampsOf(ChatAdds(m, names)), Here(m.blocks, base, Carried)) /\ Full(ChatAdds(m, names))
<1>1. PICK r : r = Here(m.blocks, base, {"result"})
  OBVIOUS
<1>2. PICK s : s = Here(m.blocks, base, {"text", "image", "call"})
  OBVIOUS
<1>3. r \cup s = Here(m.blocks, base, Carried) /\ r \cap s = {}
  BY <1>1, <1>2, PartsOfHere
<1>4. Exactly(Joined(ResultsOf(m)), r) /\ Exactly(Joined(Content(m)) \o Joined(CallsOf(m)), s)
  BY <1>1, <1>2, PartsOnce, SpokenOnce
<1>5. Exactly(Joined(ResultsOf(m)) \o (Joined(Content(m)) \o Joined(CallsOf(m))), r \cup s)
  BY <1>3, <1>4, ExactlyBoth
<1> QED
  BY <1>3, <1>5, ChatStamps

\* ... through Messages ...
LEMMA MessagesOnce ==
    ASSUME NEW m \in SpokenSet, m.role # "system", NEW names \in NamesSet,
           NEW base \in Nat, Follows(m.blocks, base)
    PROVE  Exactly(StampsOf(MessagesAdds(m, names)), Here(m.blocks, base, Carried)) /\ Full(MessagesAdds(m, names))
<1>1. PICK r : r = Here(m.blocks, base, {"result"})
  OBVIOUS
<1>2. PICK s : s = Here(m.blocks, base, {"text", "image", "call"})
  OBVIOUS
<1>3. s \cup r = Here(m.blocks, base, Carried) /\ s \cap r = {}
  BY <1>1, <1>2, PartsOfHere
<1>4. Exactly(Joined(ResultsOf(m)), r) /\ Exactly(Joined(Speech(m)), s)
  BY <1>1, <1>2, PartsOnce
<1>5. Exactly(Joined(Speech(m)) \o Joined(ResultsOf(m)), s \cup r)
  BY <1>3, <1>4, ExactlyBoth
<1> QED
  BY <1>3, <1>5, MessagesStamps

\* ... and, if it is not refused, through Responses.
LEMMA ResponsesOnce ==
    ASSUME NEW m \in SpokenSet, NEW names \in NamesSet, Sendable(m, names),
           NEW base \in Nat, Follows(m.blocks, base)
    PROVE  Exactly(StampsOf(ResponsesAdds(m, names)), Here(m.blocks, base, Carried)) /\ Full(ResponsesAdds(m, names))
<1>1. PICK r : r = Here(m.blocks, base, {"result"})
  OBVIOUS
<1>2. PICK s : s = Here(m.blocks, base, {"text", "image", "call"})
  OBVIOUS
<1>3. r \cup s = Here(m.blocks, base, Carried) /\ r \cap s = {}
  BY <1>1, <1>2, PartsOfHere
<1>4. Exactly(Joined(ResultsOf(m)), r) /\ Exactly(Joined(Content(m)) \o Joined(CallsOf(m)), s)
  BY <1>1, <1>2, PartsOnce, SpokenOnce
<1>5. Exactly(Joined(ResultsOf(m)) \o (Joined(Content(m)) \o Joined(CallsOf(m))), r \cup s)
  BY <1>3, <1>4, ExactlyBoth
<1>6. /\ Joined(ResultsOf(m)) \in Seq(Stamps) /\ Joined(Content(m)) \in Seq(Stamps)
      /\ Joined(CallsOf(m)) \in Seq(Stamps)
  BY PartsOnce DEF Exactly
<1>7. (Joined(ResultsOf(m)) \o (Joined(Content(m)) \o Joined(Inside(m)))) \o Joined(Apart(m))
      = Joined(ResultsOf(m)) \o (Joined(Content(m)) \o Joined(CallsOf(m)))
  <2>1. PICK x \in Seq(Stamps) : x = Joined(ResultsOf(m))
    BY <1>6
  <2>2. PICK y \in Seq(Stamps) : y = Joined(Content(m))
    BY <1>6
  <2>3. PICK z \in Seq(Stamps) : z = Joined(CallsOf(m))
    BY <1>6
  <2>4. CASE embedded
    <3>1. Joined(Inside(m)) = z /\ Joined(Apart(m)) = <<>>
      BY <2>3, <2>4, JoinedNothing DEF Inside, Apart
    <3>2. (x \o (y \o z)) \o <<>> = x \o (y \o z)
      OBVIOUS
    <3> QED
      BY <2>1, <2>2, <2>3, <3>1, <3>2, Zenon
  <2>5. CASE ~embedded
    <3>1. Joined(Inside(m)) = <<>> /\ Joined(Apart(m)) = z
      BY <2>3, <2>5, JoinedNothing DEF Inside, Apart
    <3>2. (x \o (y \o <<>>)) \o z = x \o (y \o z)
      OBVIOUS
    <3> QED
      BY <2>1, <2>2, <2>3, <3>1, <3>2, Zenon
  <2> QED
    BY <2>4, <2>5
<1>8. /\ StampsOf(ResponsesAdds(m, names)) = Joined(ResultsOf(m)) \o (Joined(Content(m)) \o Joined(CallsOf(m)))
      /\ Full(ResponsesAdds(m, names))
  BY <1>7, ResponsesStamps
<1> QED
  BY <1>3, <1>5, <1>8

LEMMA SystemOnce ==
    ASSUME NEW m \in SpokenSet, m.role = "system", NEW base \in Nat, Follows(m.blocks, base)
    PROVE  Exactly(Joined(m.blocks), Here(m.blocks, base, Carried))
<1>1. Content(m) = m.blocks /\ ResultsOf(m) = <<>> /\ CallsOf(m) = <<>>
  BY SystemBlocks, ResultsType, CallsType
<1>2. Here(m.blocks, base, {"result"}) = {} /\ Here(m.blocks, base, {"call"}) = {}
  BY <1>1, PartsOnce, JoinedNothing, RangeNothing DEF Exactly
<1>3. Here(m.blocks, base, Carried) = Here(m.blocks, base, {"text", "image"})
  BY <1>2, PartsOfHere
<1> QED
  BY <1>1, <1>3, PartsOnce

-----------------------------------------------------------------------------
(* The stamps of the conversation *)

\* The stamps of a message are others than those before it.
LEMMA HereConcat ==
    ASSUME NEW A \in Seq(BlockSet), NEW B \in Seq(BlockSet), NEW kinds
    PROVE  /\ Here(A \o B, 0, kinds) = Here(A, 0, kinds) \cup Here(B, Len(A), kinds)
           /\ Here(A, 0, kinds) \cap Here(B, Len(A), kinds) = {}
<1>1. PICK a \in Nat : a = Len(A)
  OBVIOUS
<1>2. PICK b \in Nat : b = Len(B)
  OBVIOUS
<1>3. PICK C : C = A \o B
  OBVIOUS
<1>4. /\ Len(C) = a + b /\ \A i \in 1..a : C[i] = A[i]
      /\ \A i \in 1..b : C[a + i] = B[i]
  BY <1>1, <1>2, <1>3
<1>5. ASSUME NEW p
      PROVE  /\ p \in 1..a + b => (p \in 1..a \/ p \in a + 1..a + b)
             /\ p \in 1..a => p \in 1..a + b /\ p \notin a + 1..a + b /\ p - 0 = p /\ C[p] = A[p]
             /\ p \in a + 1..a + b => p \in 1..a + b /\ p - 0 = p /\ p - a \in 1..b /\ C[p] = B[p - a]
  <2>1. p \in 1..a + b => (p \in 1..a \/ p \in a + 1..a + b)
    OBVIOUS
  <2>2. p \in 1..a => p \in 1..a + b /\ p \notin a + 1..a + b /\ p - 0 = p /\ C[p] = A[p]
    BY <1>4
  <2>3. p \in a + 1..a + b => p \in 1..a + b /\ p - 0 = p /\ p - a \in 1..b /\ a + (p - a) = p
    OBVIOUS
  <2>4. p \in a + 1..a + b => C[p] = B[p - a]
    BY <1>4, <2>3
  <2> QED
    BY <2>1, <2>2, <2>3, <2>4
<1>6. /\ \A p : p \in Here(C, 0, kinds) <=> p \in 1..a + b /\ C[p - 0].kind \in kinds /\ C[p - 0].value # <<>>
      /\ \A p : p \in Here(A, 0, kinds) <=> p \in 1..a /\ A[p - 0].kind \in kinds /\ A[p - 0].value # <<>>
      /\ \A p : p \in Here(B, a, kinds) <=> p \in a + 1..a + b /\ B[p - a].kind \in kinds /\ B[p - a].value # <<>>
  <2>1. 0 + 1 = 1 /\ 0 + (a + b) = a + b /\ 0 + a = a
    OBVIOUS
  <2> QED
    BY <1>1, <1>2, <1>4, <2>1 DEF Here
<1>7. ASSUME NEW p
      PROVE  /\ p \in Here(C, 0, kinds) <=> p \in Here(A, 0, kinds) \/ p \in Here(B, a, kinds)
             /\ ~(p \in Here(A, 0, kinds) /\ p \in Here(B, a, kinds))
  <2>1. CASE p \in 1..a
    BY <1>5, <1>6, <2>1
  <2>2. CASE p \in a + 1..a + b
    <3>1. p \notin 1..a
      BY <1>5, <2>2
    <3> QED
      BY <1>5, <1>6, <2>2, <3>1
  <2>3. CASE p \notin 1..a /\ p \notin a + 1..a + b
    BY <1>5, <1>6, <2>3
  <2> QED
    BY <2>1, <2>2, <2>3
<1>8. Here(C, 0, kinds) = Here(A, 0, kinds) \cup Here(B, a, kinds) /\ Here(A, 0, kinds) \cap Here(B, a, kinds) = {}
  BY <1>7
<1> QED
  BY <1>1, <1>3, <1>8

LEMMA OnceMore ==
    ASSUME NEW out \in Seq(MessageSet), NEW adds \in Seq(MessageSet), NEW S, NEW T,
           Exactly(StampsOf(out), S), Full(out), Exactly(StampsOf(adds), T), Full(adds), S \cap T = {}
    PROVE  Exactly(StampsOf(out \o adds), S \cup T) /\ Full(out \o adds)
<1>1. Exactly(StampsOf(out) \o StampsOf(adds), S \cup T)
  BY ExactlyBoth
<1> QED
  BY <1>1, StampsConcat, FullConcat

LEMMA FollowsTheOthers ==
    ASSUME NEW c \in Seq(SpokenSet), NEW m \in SpokenSet, Stamped(AllBlocks(Append(c, m)))
    PROVE  /\ Stamped(AllBlocks(c)) /\ Len(AllBlocks(c)) \in Nat
           /\ Follows(m.blocks, Len(AllBlocks(c)))
           /\ Here(AllBlocks(Append(c, m)), 0, Carried) =
                Here(AllBlocks(c), 0, Carried) \cup Here(m.blocks, Len(AllBlocks(c)), Carried)
           /\ Here(AllBlocks(c), 0, Carried) \cap Here(m.blocks, Len(AllBlocks(c)), Carried) = {}
<1>1. c \in Seq(MessageSet) /\ m \in MessageSet
  BY SpokenMessages, SpokenAreMessages
<1>2. PICK A \in Seq(BlockSet) : A = AllBlocks(c)
  BY <1>1, AllBlocksType
<1>3. PICK B \in Seq(BlockSet) : B = m.blocks
  BY BlocksType
<1>4. AllBlocks(Append(c, m)) = A \o B
  BY <1>1, <1>2, <1>3, AllBlocksAppend
<1>5. Stamped(A) /\ Follows(B, Len(A))
  BY <1>4, StampedParts DEF Follows
<1>6. Len(A) \in Nat
  OBVIOUS
<1> QED
  BY <1>2, <1>3, <1>4, <1>5, <1>6, HereConcat

AllStamps(c) == Here(AllBlocks(c), 0, Carried)
SystemsOf(c) == Range(SystemText(c))

LEMMA SystemsAre ==
    ASSUME NEW c \in Seq(SpokenSet), NEW m \in SpokenSet, Stamped(AllBlocks(Append(c, m)))
    PROVE  SystemsOf(Append(c, m)) =
             SystemsOf(c) \cup (IF m.role = "system" THEN Here(m.blocks, Len(AllBlocks(c)), Carried) ELSE {})
<1>1. CASE m.role = "system"
  <2>1. Exactly(Joined(m.blocks), Here(m.blocks, Len(AllBlocks(c)), Carried))
    BY <1>1, FollowsTheOthers, SystemOnce
  <2>2. SystemText(Append(c, m)) = SystemText(c) \o Joined(m.blocks) /\ SystemText(c) \in Seq(Stamps)
    BY <1>1, SystemTextAppend
  <2>3. Range(SystemText(c) \o Joined(m.blocks)) = Range(SystemText(c)) \cup Range(Joined(m.blocks))
    BY <2>1, <2>2, RangeConcat DEF Exactly
  <2> QED
    BY <1>1, <2>1, <2>2, <2>3 DEF Exactly, SystemsOf
<1>2. CASE m.role # "system"
  BY <1>2, SystemTextAppend DEF SystemsOf
<1> QED
  BY <1>1, <1>2

\* What is sent is full and carries certain stamps, each once.
SentOf(out, stamps) == Exactly(StampsOf(out), stamps) /\ Full(out)

LEMMA SentMore ==
    ASSUME NEW out \in Seq(MessageSet), NEW adds \in Seq(MessageSet), NEW A, NEW H, NEW S,
           SentOf(out, A \ S), S \subseteq A, A \cap H = {}, NEW system \in BOOLEAN,
           system => adds = <<>>, ~system => SentOf(adds, H)
    PROVE  SentOf(out \o adds, (A \cup H) \ (S \cup (IF system THEN H ELSE {})))
<1>1. CASE system
  <2>1. (A \cup H) \ (S \cup H) = A \ S /\ out \o <<>> = out
    OBVIOUS
  <2> QED
    BY <1>1, <2>1
<1>2. CASE ~system
  <2>1. (A \cup H) \ (S \cup {}) = (A \ S) \cup H /\ (A \ S) \cap H = {}
    OBVIOUS
  <2>2. SentOf(out \o adds, (A \ S) \cup H)
    BY <1>2, <2>1, OnceMore DEF SentOf
  <2> QED
    BY <1>2, <2>1, <2>2
<1> QED
  BY <1>1, <1>2

\* Each of the stamps goes upstream once, the system's apart.
CarriedOnce(c, names) ==
    /\ SystemsOf(c) \subseteq AllStamps(c)
    /\ SentOf(ChatOut(c), AllStamps(c) \ SystemsOf(c))
    /\ SentOf(MessagesOut(c, names), AllStamps(c) \ SystemsOf(c))
    /\ Responses(c).ok => SentOf(ResponsesOut(c), AllStamps(c))

LEMMA CarriedNothing == ASSUME NEW names PROVE CarriedOnce(<<>>, names)
<1>1. ChatOut(<<>>) = <<>> /\ ResponsesOut(<<>>) = <<>> /\ MessagesOut(<<>>, names) = <<>>
  BY ChatNothing, ResponsesNothing, MessagesNothing DEF ChatOut, Acc, ResponsesOut, RAcc
<1>2. AllStamps(<<>>) = {} /\ SystemsOf(<<>>) = {}
  BY AllBlocksNothing, SystemNothing, RangeNothing DEF AllStamps, SystemsOf, Here
<1>3. Exactly(StampsOf(<<>>), {}) /\ Full(<<>>)
  BY StampsNothing, ExactlyNothing, FullNothing
<1>4. {} \ {} = {}
  OBVIOUS
<1> QED
  BY <1>1, <1>2, <1>3, <1>4, Zenon DEF CarriedOnce, SentOf

\* A message more keeps the account.
LEMMA CarriedMore ==
    ASSUME NEW c \in Seq(SpokenSet), NEW m \in SpokenSet, NEW names \in NamesSet,
           Stamped(AllBlocks(Append(c, m))), CarriedOnce(c, names)
    PROVE  CarriedOnce(Append(c, m), names)
<1>1. PICK d : d = Append(c, m)
  OBVIOUS
<1>2. PICK A : A = AllStamps(c)
  OBVIOUS
<1>3. PICK H : H = Here(m.blocks, Len(AllBlocks(c)), Carried)
  OBVIOUS
<1>4. PICK S : S = SystemsOf(c)
  OBVIOUS
<1>5. PICK base \in Nat : base = Len(AllBlocks(c))
  BY FollowsTheOthers
<1>6. PICK system \in BOOLEAN : system <=> m.role = "system"
  <2>1. (m.role = "system") \in BOOLEAN
    OBVIOUS
  <2> QED
    BY <2>1
<1>7. PICK n \in NamesSet : n = NamesAfter(c)
  BY NamesAfterType
<1>8. Follows(m.blocks, base) /\ A \cap H = {} /\ AllStamps(d) = A \cup H
  BY <1>1, <1>2, <1>3, <1>5, FollowsTheOthers DEF AllStamps
<1>9. SystemsOf(d) = S \cup (IF system THEN H ELSE {})
  BY <1>1, <1>3, <1>4, <1>6, SystemsAre
<1>10. S \subseteq A /\ SystemsOf(d) \subseteq AllStamps(d)
  <2>1. S \subseteq A
    BY <1>2, <1>4 DEF CarriedOnce
  <2> QED
    BY <1>8, <1>9, <2>1
<1>11. SentOf(ChatOut(d), AllStamps(d) \ SystemsOf(d))
  <2>1. PICK out \in Seq(MessageSet) : out = ChatOut(c)
    BY ChatType
  <2>2. PICK adds \in Seq(MessageSet) : adds = ChatAdds(m, n)
    BY ChatAddsType
  <2>3. ChatOut(d) = out \o adds
    BY <1>1, <1>7, <2>1, <2>2, ChatAppend
  <2>4. SentOf(out, A \ S)
    BY <1>2, <1>4, <2>1 DEF CarriedOnce
  <2>5. system => adds = <<>>
    BY <1>6, <2>2 DEF ChatAdds
  <2>6. ~system => SentOf(adds, H)
    BY <1>3, <1>5, <1>6, <1>8, <2>2, ChatOnce DEF SentOf
  <2>7. SentOf(out \o adds, (A \cup H) \ (S \cup (IF system THEN H ELSE {})))
    BY <1>8, <1>10, <2>4, <2>5, <2>6, SentMore
  <2> QED
    BY <1>8, <1>9, <2>3, <2>7
<1>12. SentOf(MessagesOut(d, names), AllStamps(d) \ SystemsOf(d))
  <2>1. PICK out \in Seq(MessageSet) : out = MessagesOut(c, names)
    BY MessagesType
  <2>2. PICK adds \in Seq(MessageSet) : adds = MessagesAdds(m, names)
    BY MessagesAddsType
  <2>3. MessagesOut(d, names) = out \o adds
    BY <1>1, <2>1, <2>2, MessagesAppend
  <2>4. SentOf(out, A \ S)
    BY <1>2, <1>4, <2>1 DEF CarriedOnce
  <2>5. system => adds = <<>>
    BY <1>6, <2>2 DEF MessagesAdds
  <2>6. ~system => SentOf(adds, H)
    BY <1>3, <1>5, <1>6, <1>8, <2>2, MessagesOnce DEF SentOf
  <2>7. SentOf(out \o adds, (A \cup H) \ (S \cup (IF system THEN H ELSE {})))
    BY <1>8, <1>10, <2>4, <2>5, <2>6, SentMore
  <2> QED
    BY <1>8, <1>9, <2>3, <2>7
<1>13. ASSUME Responses(d).ok PROVE SentOf(ResponsesOut(d), AllStamps(d))
  <2>1. /\ Responses(c).ok /\ ResponsesOut(d) = ResponsesOut(c) \o ResponsesAdds(m, n)
        /\ Sendable(m, n)
    BY <1>1, <1>7, <1>13, ResponsesAppend
  <2>2. PICK out \in Seq(MessageSet) : out = ResponsesOut(c)
    BY <2>1, ResponsesType
  <2>3. PICK adds \in Seq(MessageSet) : adds = ResponsesAdds(m, n)
    BY ResponsesAddsType
  <2>4. SentOf(out, A)
    BY <1>2, <2>1, <2>2 DEF CarriedOnce
  <2>5. SentOf(adds, H)
    BY <1>3, <1>5, <1>8, <2>1, <2>3, ResponsesOnce DEF SentOf
  <2>6. SentOf(out \o adds, A \cup H)
    BY <1>8, <2>4, <2>5, OnceMore DEF SentOf
  <2> QED
    BY <1>8, <2>1, <2>2, <2>3, <2>6
<1> QED
  BY <1>1, <1>10, <1>11, <1>12, <1>13 DEF CarriedOnce

LEMMA CarriedAlways ==
    ASSUME NEW c \in Seq(SpokenSet), Stamped(AllBlocks(c)), NEW names \in NamesSet
    PROVE  CarriedOnce(c, names)
<1> DEFINE U == { d \in Seq(SpokenSet) : Stamped(AllBlocks(d)) => CarriedOnce(d, names) }
<1>1. <<>> \in U
  <2>1. <<>> \in Seq(SpokenSet)
    OBVIOUS
  <2> QED
    BY <2>1, CarriedNothing
<1>2. ASSUME NEW d \in Seq(SpokenSet), NEW m \in SpokenSet, d \in U PROVE Append(d, m) \in U
  <2>1. Append(d, m) \in Seq(SpokenSet)
    OBVIOUS
  <2>2. ASSUME Stamped(AllBlocks(Append(d, m))) PROVE CarriedOnce(Append(d, m), names)
    <3>1. CarriedOnce(d, names)
      BY <1>2, <2>2, StampedBefore
    <3> QED
      BY <2>2, <3>1, CarriedMore
  <2> QED
    BY <2>1, <2>2
<1> HIDE DEF U
<1>3. c \in U
  BY <1>1, <1>2, SeqInduction
<1> QED
  BY <1>3 DEF U

\* The stamps of a conversation, as the property counts them.
LEMMA StampsAre ==
    ASSUME NEW A \in Seq(BlockSet), Stamped(A), NEW kinds
    PROVE  { b.value[1] : b \in { c \in Range(A) : c.kind \in kinds /\ c.value # <<>> } } = Here(A, 0, kinds)
<1>1. Len(A) \in Nat /\ \A b : b \in Range(A) <=> \E i \in 1..Len(A) : A[i] = b
  BY RangeIs
<1>2. \A p : p \in Here(A, 0, kinds) <=> p \in 1..Len(A) /\ A[p].kind \in kinds /\ A[p].value # <<>>
  <2>1. 0 + 1 = 1 /\ 0 + Len(A) = Len(A) /\ \A p \in 1..Len(A) : p - 0 = p
    BY <1>1
  <2> QED
    BY <2>1 DEF Here
<1>3. \A p \in 1..Len(A) : A[p].value # <<>> => A[p].value = <<p>> /\ A[p].value[1] = p
  BY DEF Stamped
<1>4. ASSUME NEW b \in Range(A), b.kind \in kinds, b.value # <<>> PROVE b.value[1] \in Here(A, 0, kinds)
  <2>1. PICK p \in 1..Len(A) : A[p] = b
    BY <1>1
  <2> QED
    BY <1>2, <1>3, <1>4, <2>1
<1>5. ASSUME NEW p \in Here(A, 0, kinds)
      PROVE  \E b \in Range(A) : b.kind \in kinds /\ b.value # <<>> /\ p = b.value[1]
  <2>1. p \in 1..Len(A) /\ A[p].kind \in kinds /\ A[p].value # <<>>
    BY <1>2
  <2>2. A[p] \in Range(A) /\ A[p].value[1] = p
    BY <1>1, <1>3, <2>1
  <2> QED
    BY <2>1, <2>2
<1> QED
  BY <1>4, <1>5

LEMMA SentCounts ==
    ASSUME NEW out \in Seq(MessageSet), NEW S, SentOf(out, S)
    PROVE  /\ Range(StampsOf(out)) = S
           /\ Len(StampsOf(out)) = Cardinality(S)
           /\ \A i \in DOMAIN out : out[i].blocks # <<>>
<1>1. \A i \in DOMAIN out : out[i] \in Range(out)
  BY DEF Range
<1> QED
  BY <1>1, ExactlyCounts DEF SentOf, Full

LEMMA OnceAlways ==
    ASSUME conversation \in Seq(SpokenSet), Stamped(AllBlocks(conversation))
    PROVE  NothingLostOrDoubled
<1>1. PICK c \in Seq(SpokenSet) : c = conversation
  OBVIOUS
<1>2. PICK n \in NamesSet : n = NamesAfter(c)
  BY NamesAfterType
<1>3. CarriedOnce(c, n)
  BY <1>1, CarriedAlways
<1>4. AllBlocks(c) \in Seq(BlockSet)
  BY SpokenMessages, AllBlocksType
<1>5. Sent(Carried) = AllStamps(c) /\ SystemStamps = SystemsOf(c)
  BY <1>1, <1>4, StampsAre DEF Sent, Said, AllStamps, SystemStamps, SystemsOf
<1>6. SentOf(Chat(c).out, Sent(Carried) \ SystemStamps) /\ Chat(c).out \in Seq(MessageSet)
  BY <1>3, <1>5, ChatType DEF CarriedOnce, ChatOut
<1>7. SentOf(Messages(c).out, Sent(Carried) \ SystemStamps) /\ Messages(c).out \in Seq(MessageSet)
  <2>1. Messages(c).out = MessagesOut(c, n)
    BY <1>2, MessagesIs
  <2> QED
    BY <1>3, <1>5, <2>1, MessagesType DEF CarriedOnce
<1>8. Responses(c).ok => SentOf(Responses(c).out, Sent(Carried)) /\ Responses(c).out \in Seq(MessageSet)
  BY <1>3, <1>5, ResponsesType DEF CarriedOnce, ResponsesOut
<1>9. /\ Range(StampsOf(Chat(c).out)) = Sent(Carried) \ SystemStamps
      /\ Len(StampsOf(Chat(c).out)) = Cardinality(Sent(Carried) \ SystemStamps)
      /\ \A i \in DOMAIN Chat(c).out : Chat(c).out[i].blocks # <<>>
  BY <1>6, SentCounts
<1>10. /\ Range(StampsOf(Messages(c).out)) = Sent(Carried) \ SystemStamps
       /\ Len(StampsOf(Messages(c).out)) = Cardinality(Sent(Carried) \ SystemStamps)
       /\ \A i \in DOMAIN Messages(c).out : Messages(c).out[i].blocks # <<>>
  BY <1>7, SentCounts
<1>11. Responses(c).ok =>
         /\ Range(StampsOf(Responses(c).out)) = Sent(Carried)
         /\ Len(StampsOf(Responses(c).out)) = Cardinality(Sent(Carried))
         /\ \A i \in DOMAIN Responses(c).out : Responses(c).out[i].blocks # <<>>
  BY <1>8, SentCounts
<1> QED
  BY <1>1, <1>9, <1>10, <1>11, Zenon DEF NothingLostOrDoubled, Carried

-----------------------------------------------------------------------------
USE MappingAssumption

-----------------------------------------------------------------------------
(* Lists of efforts *)

LEMMA ListType ==
    ASSUME NEW list \in Lists
    PROVE  /\ list \in Seq(Efforts) /\ Len(list) \in Nat \ {0}
           /\ Range(list) \subseteq Efforts /\ list[Len(list)] \in Range(list)
           /\ \A i, j \in 1..Len(list) : i < j => list[i] < list[j]
<1>1. list \in Seq(Efforts) /\ list # <<>> /\ Ascending(list)
  OBVIOUS
<1>2. DOMAIN list = 1..Len(list) /\ Len(list) \in Nat \ {0}
  BY <1>1
<1> QED
  BY <1>1, <1>2 DEF Ascending, Range

\* What a list has at or above an effort.
Higher(list, effort) == { e \in Range(list) : effort # Unknown /\ e >= effort }

\* clamp_reasoning_effort: "off" stays; otherwise the least effort of the list that is
\* not below the one asked for, or the last where there is none.
LEMMA ClampToNearest ==
    ASSUME NEW list \in Lists, NEW effort \in Efforts \cup {Unknown}
    PROVE  /\ effort = 0 => ClampTo(list, effort) = 0
           /\ effort # 0 =>
                 /\ ClampTo(list, effort) \in Range(list)
                 /\ Higher(list, effort) = {} => ClampTo(list, effort) = list[Len(list)]
                 /\ Higher(list, effort) # {} =>
                       /\ ClampTo(list, effort) \in Higher(list, effort)
                       /\ \A e \in Higher(list, effort) : ClampTo(list, effort) <= e
<1> DEFINE indices == { i \in DOMAIN list : effort # Unknown /\ list[i] >= effort }
           first == CHOOSE i \in indices : \A j \in indices : i <= j
<1>0. /\ list \in Seq(Efforts) /\ DOMAIN list = 1..Len(list) /\ Len(list) \in Nat \ {0}
      /\ Range(list) \subseteq Efforts /\ list[Len(list)] \in Range(list)
      /\ \A i, j \in 1..Len(list) : i < j => list[i] < list[j]
  BY ListType
<1>1. Higher(list, effort) = { list[i] : i \in indices }
  BY DEF Higher, Range
<1>2. CASE effort = 0
  BY <1>2 DEF ClampTo
<1>3. CASE effort # 0 /\ effort \in Range(list)
  <2>1. ClampTo(list, effort) = effort
    BY <1>3 DEF ClampTo
  <2>2. effort # Unknown /\ effort \in Nat
    BY <1>0, <1>3 DEF Efforts, Unknown
  <2>3. effort \in Higher(list, effort) /\ \A e \in Higher(list, effort) : effort <= e
    BY <1>3, <2>2 DEF Higher
  <2> QED
    BY <1>3, <2>1, <2>3
<1>4. CASE effort # 0 /\ effort \notin Range(list) /\ indices = {}
  <2>1. ClampTo(list, effort) = list[Len(list)]
    BY <1>4 DEF ClampTo
  <2> QED
    BY <1>0, <1>1, <1>4, <2>1
<1>5. CASE effort # 0 /\ effort \notin Range(list) /\ indices # {}
  <2>1. ClampTo(list, effort) = list[first]
    BY <1>5 DEF ClampTo
  <2>2. indices \in SUBSET Nat
    BY <1>0
  <2> HIDE DEF indices
  <2>3. first \in indices /\ \A j \in indices : first <= j
    BY <1>5, <2>2, LeastExists
  <2> HIDE DEF first
  <2>4. \A j \in indices : j \in 1..Len(list)
    BY <1>0 DEF indices
  <2>5. \A j \in indices : list[first] <= list[j]
    <3> SUFFICES ASSUME NEW j \in indices PROVE list[first] <= list[j]
      OBVIOUS
    <3>1. first \in 1..Len(list) /\ j \in 1..Len(list) /\ first <= j
      BY <2>3, <2>4
    <3>2. list[first] \in Nat /\ list[j] \in Nat
      BY <1>0, <3>1 DEF Efforts
    <3> QED
      BY <1>0, <3>1, <3>2
  <2>6. list[first] \in Range(list)
    BY <1>0, <2>3, <2>4 DEF Range
  <2> QED
    BY <1>1, <1>5, <2>1, <2>3, <2>5, <2>6
<1> QED
  BY <1>2, <1>3, <1>4, <1>5

-----------------------------------------------------------------------------
(* The maps of a release *)

Entry == [id : Found, efforts : Lists \cup {None}]

\* What overwrites the entries before it is one of them.
LEMMA LastOf ==
    ASSUME NEW es \in Seq(Entry), NEW S \in SUBSET DOMAIN es, S # {}
    PROVE  \E i \in S : \A j \in S : j <= i
<1>1. Len(es) \in Nat /\ DOMAIN es = 1..Len(es)
  OBVIOUS
<1> QED
  BY <1>1, GreatestExists

LEMMA RangeType ==
    ASSUME NEW es \in Seq(Entry)
    PROVE  \A e \in Range(es) : /\ e.id \in Found
                                /\ e.efforts \in Lists \cup {None}
                                /\ \E i \in DOMAIN es : e = es[i]
<1>1. \A i \in DOMAIN es : es[i] \in Entry
  OBVIOUS
<1> QED
  BY <1>1 DEF Range, Entry

\* The id a name leads to: that of the last entry of this name, or the built-in one.
LEMMA NameLeads ==
    ASSUME NEW es \in Seq(Entry), NEW s \in DOMAIN NamesOf(es)
    PROVE  \/ \E e \in Range(es) : e.id.short = s /\ NamesOf(es)[s] = Canonical(e.id)
           \/ /\ \A e \in Range(es) : e.id.short # s
              /\ s \in DOMAIN StaticMap /\ NamesOf(es)[s] = StaticMap[s]
<1> DEFINE shorts == { e.id.short : e \in Range(es) }
           those == { i \in DOMAIN es : es[i].id.short = s }
           last == CHOOSE i \in DOMAIN es :
                     es[i].id.short = s /\ \A j \in DOMAIN es : es[j].id.short = s => j <= i
<1>0. s \in shorts \cup DOMAIN StaticMap
  BY DEF NamesOf
<1>1. CASE s \in shorts
  <2>1. PICK i \in DOMAIN es : es[i].id.short = s
    BY <1>1, RangeType
  <2>2. \E k \in those : \A j \in those : j <= k
    BY <2>1, LastOf
  <2>3. last \in DOMAIN es /\ es[last].id.short = s
    BY <2>2
  <2>4. NamesOf(es)[s] = Canonical(es[last].id)
    BY <1>1 DEF NamesOf, LastEntry
  <2> HIDE DEF last
  <2> QED
    BY <2>3, <2>4 DEF Range
<1>2. CASE s \notin shorts
  BY <1>0, <1>2 DEF NamesOf
<1> QED
  BY <1>1, <1>2

\* An id of the map that has no provider is mapped to itself, if it is mapped at all.
LEMMA NamesAreFixed ==
    ASSUME NEW es \in Seq(Entry), NEW s \in DOMAIN NamesOf(es),
           NamesOf(es)[s].provider = None, NamesOf(es)[s].short \in DOMAIN NamesOf(es)
    PROVE  NamesOf(es)[NamesOf(es)[s].short] = NamesOf(es)[s]
<1> DEFINE names == NamesOf(es)
<1>1. \A e \in Range(es) : e.id \in Found
  BY RangeType
<1>2. \A b \in BuiltIn : b.provider = None /\ b.short \in DOMAIN names => names[b.short] = b
  <2> SUFFICES ASSUME NEW b \in BuiltIn, b.provider = None, b.short \in DOMAIN names
               PROVE  names[b.short] = b
    OBVIOUS
  <2>1. b.short \notin DOMAIN StaticMap
    OBVIOUS
  <2>2. PICK e \in Range(es) : e.id.short = b.short /\ names[b.short] = Canonical(e.id)
    BY <2>1, NameLeads
  <2>3. e.id.provider = None
    BY <1>1, <2>2
  <2>4. Canonical(e.id) = e.id
    BY <2>3 DEF Canonical
  <2>5. e.id = Id(e.id.provider, e.id.short) /\ b = Id(b.provider, b.short)
    BY <1>1
  <2> QED
    BY <2>2, <2>3, <2>4, <2>5
<1>3. \A x \in DOMAIN StaticMap : StaticMap[x] \in BuiltIn
  BY DEF BuiltIn, Range
<1>4. CASE \E e \in Range(es) : e.id.short = s /\ names[s] = Canonical(e.id)
  <2>1. PICK e \in Range(es) : e.id.short = s /\ names[s] = Canonical(e.id)
    BY <1>4
  <2>2. CASE Canonical(e.id) = e.id
    BY <2>1, <2>2
  <2>3. CASE Canonical(e.id) # e.id
    <3>1. Canonical(e.id) = StaticMap[s] /\ s \in DOMAIN StaticMap
      BY <2>1, <2>3 DEF Canonical
    <3> QED
      BY <1>2, <1>3, <2>1, <3>1
  <2> QED
    BY <2>2, <2>3
<1>5. CASE s \in DOMAIN StaticMap /\ names[s] = StaticMap[s]
  BY <1>2, <1>3, <1>5
<1> QED
  BY <1>4, <1>5, NameLeads

\* Every list of efforts is one of the release's or a built-in one, and a model that
\* no other of the release goes by has its own.
LEMMA EffortsLead ==
    ASSUME NEW es \in Seq(Entry), NEW c \in DOMAIN EffortsOf(es)
    PROVE  /\ EffortsOf(es)[c] \in Lists
           /\ \A e \in Rated(es) : Canonical(e.id) = c =>
                 \E f \in Rated(es) : Canonical(f.id) = c /\ EffortsOf(es)[c] = f.efforts
<1> DEFINE rated == { Canonical(e.id) : e \in Rated(es) }
           those == { i \in DOMAIN es : es[i].efforts # None /\ Canonical(es[i].id) = c }
           last == CHOOSE i \in DOMAIN es :
                     /\ es[i].efforts # None /\ Canonical(es[i].id) = c
                     /\ \A j \in DOMAIN es :
                           es[j].efforts # None /\ Canonical(es[j].id) = c => j <= i
<1>0. c \in rated \cup DOMAIN StaticEfforts
  BY DEF EffortsOf
<1>1. CASE c \in rated
  <2>1. PICK i \in DOMAIN es : es[i].efforts # None /\ Canonical(es[i].id) = c
    BY <1>1, RangeType DEF Rated
  <2>2. \E k \in those : \A j \in those : j <= k
    BY <2>1, LastOf
  <2>3. last \in DOMAIN es /\ es[last].efforts # None /\ Canonical(es[last].id) = c
    BY <2>2
  <2>4. EffortsOf(es)[c] = es[last].efforts
    BY <1>1 DEF EffortsOf, LastEntry
  <2> HIDE DEF last
  <2>5. es[last] \in Rated(es)
    BY <2>3 DEF Rated, Range
  <2>6. es[last].efforts \in Lists
    BY <2>3, <2>5, RangeType DEF Rated
  <2> QED
    BY <2>3, <2>4, <2>5, <2>6
<1>2. CASE c \notin rated
  <2>1. c \in DOMAIN StaticEfforts /\ EffortsOf(es)[c] = StaticEfforts[c]
    BY <1>0, <1>2 DEF EffortsOf
  <2> QED
    BY <1>2, <2>1
<1> QED
  BY <1>1, <1>2

-----------------------------------------------------------------------------
(* The state *)

MapsInv ==
    /\ entries \in Seq(Entry)
    /\ providerMap = NamesOf(entries)
    /\ reasoningEfforts = EffortsOf(entries)

LEMMA InitMaps == MappingInit => MapsInv
<1> SUFFICES ASSUME MappingInit PROVE MapsInv
  OBVIOUS
<1>1. entries = <<>> /\ providerMap = StaticMap /\ reasoningEfforts = StaticEfforts
  BY DEF MappingInit
<1>2. entries \in Seq(Entry) /\ Range(entries) = {}
  BY <1>1 DEF Range
<1>3. NamesOf(entries) = [s \in DOMAIN StaticMap |-> StaticMap[s]]
  <2>1. { e.id.short : e \in Range(entries) } = {}
    BY <1>2
  <2> QED
    BY <2>1 DEF NamesOf
<1>4. EffortsOf(entries) = [c \in DOMAIN StaticEfforts |-> StaticEfforts[c]]
  <2>1. { Canonical(e.id) : e \in Rated(entries) } = {}
    BY <1>2 DEF Rated
  <2> QED
    BY <2>1 DEF EffortsOf
<1>5. /\ StaticMap = [s \in DOMAIN StaticMap |-> StaticMap[s]]
      /\ StaticEfforts = [c \in DOMAIN StaticEfforts |-> StaticEfforts[c]]
  OBVIOUS
<1> QED
  BY <1>1, <1>2, <1>3, <1>4, <1>5 DEF MapsInv

\* A match puts a model into the release, in the place of one at most.
LEMMA StepMaps == MapsInv /\ [MappingNext]_mappingVars => MapsInv'
<1> SUFFICES ASSUME MapsInv, [MappingNext]_mappingVars PROVE MapsInv'
  OBVIOUS
<1>1. CASE MappingNext
  <2>1. PICK id \in Found, efforts \in Lists \cup {None}, place \in 0..MaxEntries :
            Find(id, efforts, place)
    BY <1>1 DEF MappingNext
  <2> DEFINE e == [id |-> id, efforts |-> efforts]
  <2>2. PICK others \in ModelsLeft(id, efforts) :
            place \in 0..Len(others) /\ BuildMaps(InsertAt(others, place + 1, e))
    BY <2>1 DEF Find
  <2>3. others \in Seq(Entry)
    <3>1. \A i \in DOMAIN entries : RemoveAt(entries, i) \in Seq(Entry)
      BY DEF MapsInv, RemoveAt
    <3>2. entries \in Seq(Entry)
      BY DEF MapsInv
    <3> QED
      BY <3>1, <3>2 DEF ModelsLeft
  <2>4. e \in Entry
    BY DEF Entry
  <2> HIDE DEF e
  <2>5. InsertAt(others, place + 1, e) \in Seq(Entry)
    BY <2>2, <2>3, <2>4 DEF InsertAt
  <2> QED
    BY <2>2, <2>5 DEF BuildMaps, MapsInv
<1>2. CASE UNCHANGED mappingVars
  BY <1>2 DEF mappingVars, MapsInv
<1> QED
  BY <1>1, <1>2

\* A name is resolved to an id that resolves to itself.
LEMMA ResolveTwice == ASSUME MapsInv, NEW id PROVE Resolve(Resolve(id)) = Resolve(id)
<1>1. CASE Resolve(id) = id
  BY <1>1
<1>2. CASE Resolve(id) # id
  <2>1. id.short \in DOMAIN providerMap /\ Resolve(id) = providerMap[id.short]
    BY <1>2 DEF Resolve
  <2> QED
    BY <2>1, NamesAreFixed DEF MapsInv, Resolve
<1> QED
  BY <1>1, <1>2

LEMMA SupportedType == ASSUME MapsInv, NEW id PROVE Supported(id) \in Lists \cup {None}
  BY EffortsLead DEF MapsInv, Supported

LEMMA ListedServed == MapsInv => ListedModelsAreServed
<1> SUFFICES ASSUME MapsInv, NEW e \in Range(entries),
                    e.id.provider # None, Canonical(e.id) = e.id,
                    \A f \in Range(entries) : Canonical(f.id) = e.id => f = e
             PROVE  /\ Resolve(e.id) = e.id
                    /\ e.efforts # None => Supported(e.id) = e.efforts
  BY DEF ListedModelsAreServed
<1>1. Resolve(e.id) = e.id
  BY DEF Resolve
<1>2. ASSUME e.efforts # None PROVE Supported(e.id) = e.efforts
  <2>1. e \in Rated(entries)
    BY <1>2 DEF Rated
  <2>2. e.id \in DOMAIN EffortsOf(entries)
    BY <2>1 DEF EffortsOf
  <2>3. PICK f \in Rated(entries) :
            Canonical(f.id) = e.id /\ EffortsOf(entries)[e.id] = f.efforts
    BY <2>1, <2>2, EffortsLead DEF MapsInv
  <2>4. f = e
    BY <2>3 DEF Rated
  <2> QED
    BY <2>2, <2>3, <2>4 DEF MapsInv, Supported
<1> QED
  BY <1>1, <1>2

-----------------------------------------------------------------------------
(* Effort *)

USE TranslationAssumption

LEMMA GreatestIsLast ==
    ASSUME NEW list \in Lists
    PROVE  /\ Greatest(list) = list[Len(list)]
           /\ \A f \in Range(list) : f <= Greatest(list)
<1>0. /\ list \in Seq(Efforts) /\ Len(list) \in Nat \ {0}
      /\ list[Len(list)] \in Range(list)
      /\ \A i, j \in 1..Len(list) : i < j => list[i] < list[j]
  BY ListType
<1>1. \A f \in Range(list) : f \in Nat /\ f <= list[Len(list)]
  <2> SUFFICES ASSUME NEW i \in 1..Len(list) PROVE list[i] \in Nat /\ list[i] <= list[Len(list)]
    BY <1>0 DEF Range
  <2>1. list[i] \in Nat /\ list[Len(list)] \in Nat
    BY <1>0 DEF Efforts
  <2>2. i = Len(list) \/ i < Len(list)
    BY <1>0
  <2>3. Len(list) \in 1..Len(list)
    BY <1>0
  <2> QED
    BY <1>0, <2>1, <2>2, <2>3
<1>2. /\ Greatest(list) \in Range(list)
      /\ \A f \in Range(list) : f <= Greatest(list)
  BY <1>0, <1>1 DEF Greatest
<1> QED
  BY <1>0, <1>1, <1>2

\* The effort sent depends on the id through what it resolves to only.
LEMMA SentEffort ==
    ASSUME MapsInv, NEW id, NEW effort
    PROVE  /\ NamedEffort(id, effort).model = Resolve(id)
           /\ NamedEffort(id, effort).effort =
                 IF effort = None \/ Supported(Resolve(id)) = None THEN None
                 ELSE ClampTo(Supported(Resolve(id)), effort)
  BY ResolveTwice DEF NamedEffort, Settings, Clamp

LEMMA ClampedFits ==
    ASSUME NEW sent, NEW asked \in Efforts \cup {Unknown, None}, NEW supported \in Lists \cup {None},
           supported = Supported(sent.model),
           sent.effort = IF asked = None \/ supported = None THEN None ELSE ClampTo(supported, asked)
    PROVE  FitsModel(sent, asked)
<1>0. None \notin Lists /\ None # 0
  OBVIOUS
<1>1. CASE asked = None \/ supported = None
  BY <1>1 DEF FitsModel
<1>2. CASE asked = 0 /\ supported # None
  <2>1. sent.effort = 0 /\ asked # None
    BY <1>0, <1>2, ClampToNearest DEF Efforts
  <2> QED
    BY <1>2, <2>1 DEF FitsModel
<1>3. CASE asked \notin {0, None} /\ supported # None
  <2>1. supported \in Lists /\ asked \in Efforts \cup {Unknown} /\ sent.effort = ClampTo(supported, asked)
    BY <1>3
  <2>2. CASE Higher(supported, asked) = {}
    <3>1. sent.effort = Greatest(supported)
      BY <1>3, <2>1, <2>2, ClampToNearest, GreatestIsLast
    <3> QED
      BY <1>3, <2>2, <3>1 DEF FitsModel, Higher
  <2>3. CASE Higher(supported, asked) # {}
    <3>1. /\ sent.effort \in Higher(supported, asked)
          /\ \A e \in Higher(supported, asked) : sent.effort <= e
      BY <1>3, <2>1, <2>3, ClampToNearest
    <3> QED
      BY <1>3, <2>3, <3>1 DEF FitsModel, Higher
  <2> QED
    BY <2>2, <2>3
<1> QED
  BY <1>1, <1>2, <1>3

\* A larger budget is a higher effort.
LEMMA BudgetEffort ==
    ASSUME NEW b \in Nat
    PROVE  /\ BudgetToEffort(b) \in 1..4
           /\ \A c \in Nat : b <= c => BudgetToEffort(b) <= BudgetToEffort(c)
<1> HIDE MappingAssumption, TranslationAssumption
<1>1. ASSUME NEW c \in Nat
      PROVE  /\ c < 4000 => BudgetToEffort(c) = 1
             /\ 4000 <= c /\ c < 8000 => BudgetToEffort(c) = 2
             /\ 8000 <= c /\ c < 16000 => BudgetToEffort(c) = 3
             /\ 16000 <= c => BudgetToEffort(c) = 4
  <2>1. c # None
    BY MappingAssumption
  <2>2. ASSUME c < 4000 PROVE BudgetToEffort(c) = 1
    BY <2>1, <2>2 DEF BudgetToEffort
  <2>3. ASSUME 4000 <= c, c < 8000 PROVE BudgetToEffort(c) = 2
    BY <2>1, <2>3 DEF BudgetToEffort
  <2>4. ASSUME 8000 <= c, c < 16000 PROVE BudgetToEffort(c) = 3
    BY <2>1, <2>4 DEF BudgetToEffort
  <2>5. ASSUME 16000 <= c PROVE BudgetToEffort(c) = 4
    BY <2>1, <2>5 DEF BudgetToEffort
  <2> QED
    BY <2>2, <2>3, <2>4, <2>5
<1> QED
  BY <1>1

LEMMA ClampToRises ==
    ASSUME NEW list \in Lists, NEW x \in 1..4, NEW y \in 1..4, x <= y
    PROVE  ClampTo(list, x) <= ClampTo(list, y)
<1>1. x \in Efforts \ {0} /\ y \in Efforts \ {0} /\ x # Unknown /\ y # Unknown
  BY DEF Efforts, Unknown
<1>2. Range(list) \subseteq Efforts /\ \A e \in Efforts : e \in Nat
  BY ListType DEF Efforts
<1>3. Higher(list, y) \subseteq Higher(list, x)
  BY <1>1, <1>2 DEF Higher
<1>4. CASE Higher(list, y) = {}
  <2>1. ClampTo(list, y) = Greatest(list) /\ ClampTo(list, x) \in Range(list)
    BY <1>1, <1>4, ClampToNearest, GreatestIsLast
  <2>2. \A e \in Range(list) : e <= Greatest(list)
    BY GreatestIsLast
  <2> QED
    BY <2>1, <2>2
<1>5. CASE Higher(list, y) # {}
  <2>1. ClampTo(list, y) \in Higher(list, x)
    BY <1>1, <1>3, <1>5, ClampToNearest
  <2> QED
    BY <1>1, <2>1, ClampToNearest
<1> QED
  BY <1>4, <1>5

LEMMA EffortsFitAlways == MapsInv => EffortsFit
<1> SUFFICES ASSUME MapsInv, NEW id \in ModelNames
             PROVE  /\ \A effort \in Efforts \cup {Unknown, None} :
                          FitsModel(NamedEffort(id, effort), effort)
                    /\ \A b, c \in Budgets : b <= c /\ Budgeted(id, b).effort # None =>
                          Budgeted(id, b).effort <= Budgeted(id, c).effort
  BY DEF EffortsFit
<1>1. Supported(Resolve(id)) \in Lists \cup {None}
  BY SupportedType
<1>2. ASSUME NEW effort \in Efforts \cup {Unknown, None}
      PROVE  FitsModel(NamedEffort(id, effort), effort)
  BY <1>1, SentEffort, ClampedFits
<1>3. ASSUME NEW b \in Budgets, NEW c \in Budgets, b <= c, Budgeted(id, b).effort # None
      PROVE  Budgeted(id, b).effort <= Budgeted(id, c).effort
  <2>1. /\ BudgetToEffort(b) \in 1..4 /\ BudgetToEffort(c) \in 1..4
        /\ BudgetToEffort(b) <= BudgetToEffort(c)
    BY <1>3, BudgetEffort
  <2>2. BudgetToEffort(b) # None /\ BudgetToEffort(c) # None
    BY <2>1
  <2>3. /\ Supported(Resolve(id)) \in Lists
        /\ Budgeted(id, b).effort = ClampTo(Supported(Resolve(id)), BudgetToEffort(b))
        /\ Budgeted(id, c).effort = ClampTo(Supported(Resolve(id)), BudgetToEffort(c))
    BY <1>1, <1>3, <2>2, SentEffort DEF Budgeted
  <2> QED
    BY <2>1, <2>3, ClampToRises
<1> QED
  BY <1>2, <1>3

-----------------------------------------------------------------------------
(* Tools *)

ChoiceOK == choice \in Texts \cup Objects \cup {NoChoice}

LEMMA ForcedIsNamed ==
    ASSUME ChoiceOK, TranslateToolChoice # None, TranslateToolChoice.type = "tool"
    PROVE  TranslateToolChoice.name # None
  BY DEF ChoiceOK, Texts, Objects, NoChoice, TranslateToolChoice

LEMMA ToolChoiceFitsAlways == ChoiceOK => ToolChoiceFits
<1> SUFFICES ASSUME ChoiceOK PROVE ToolChoiceFits
  OBVIOUS
<1>1. ~(choice.form # "text" /\ choice.type = "none" /\ ChatChoice # None) =>
          (ToolsAvailable <=> tools # {} /\ (ChatChoice = None \/ ChatChoice.type # "none"))
  <2>1. CASE choice = NoChoice
    <3>1. TranslateToolChoice = None /\ choice.form = "absent"
      BY <2>1 DEF NoChoice, TranslateToolChoice
    <3> QED
      BY <3>1 DEF ChatChoice, ToolsAvailable
  <2>2. CASE choice \in Texts
    <3>1. choice.form = "text" /\ choice.name = None
      BY <2>2 DEF Texts
    <3>2. TranslateToolChoice.type = "none" <=> choice.type = "none"
      BY <2>2, <3>1 DEF Texts, TranslateToolChoice
    <3>3. choice = [form |-> "text", type |-> "none", name |-> None] <=> choice.type = "none"
      BY <2>2 DEF Texts
    <3>4. TranslateToolChoice \in [type : {"auto", "none", "any", "tool"}, name : Tools \cup {None}]
      BY <2>2, <3>1 DEF Texts, TranslateToolChoice
    <3> QED
      BY <3>2, <3>3, <3>4 DEF ChatChoice, ToolsAvailable
  <2>3. CASE choice \in Objects
    <3>1. choice.form # "text" /\ choice.form # "absent"
      BY <2>3 DEF Objects
    <3>2. TranslateToolChoice.type = "none" => choice.type = "none"
      BY <2>3, <3>1 DEF Objects, TranslateToolChoice
    <3> QED
      BY <3>1, <3>2 DEF ChatChoice, ToolsAvailable
  <2> QED
    BY <2>1, <2>2, <2>3 DEF ChoiceOK
<1>2. ~ResponsesRefuses /\ TranslateToolChoice # None /\ TranslateToolChoice.type = "tool" =>
          TranslateToolChoice.name \in tools
  BY ForcedIsNamed DEF ResponsesRefuses
<1> QED
  BY <1>1, <1>2 DEF ToolChoiceFits

RequestInv == MapsInv /\ ChoiceOK

LEMMA RequestInvariance == RequestSpec => []RequestInv
<1>1. RequestInit => RequestInv
  BY InitMaps DEF RequestInit, RequestInv, ChoiceOK
<1>2. RequestInv /\ [RequestNext]_requestVars => RequestInv'
  <2> SUFFICES ASSUME RequestInv, [RequestNext]_requestVars PROVE RequestInv'
    OBVIOUS
  <2>1. [MappingNext]_mappingVars /\ UNCHANGED choice
    BY DEF RequestNext, requestVars, mappingVars
  <2> QED
    BY <2>1, StepMaps DEF RequestInv, ChoiceOK, Texts, Objects, NoChoice
<1> QED
  BY <1>1, <1>2, PTL DEF RequestSpec

LEMMA RequestConversations == RequestSpec => []ConversationInv
<1>1. RequestInit => ConversationInv
  BY InitConversation DEF RequestInit
<1>2. ConversationInv /\ [RequestNext]_requestVars => ConversationInv'
  <2>1. [RequestNext]_requestVars => [Next]_vars
    BY DEF RequestNext, requestVars, vars
  <2> QED
    BY <2>1, StepConversation
<1> QED
  BY <1>1, <1>2, PTL DEF RequestSpec

-----------------------------------------------------------------------------
(* Theorems *)

\* The maps are those of the release, whatever was found in it (_build_maps).
THEOREM MapsInvariance == MappingSpec => []MapsInv
  BY InitMaps, StepMaps, PTL DEF MappingSpec

\* The id a model is listed by gets that model, and its efforts (resolve_model_id,
\* refresh_maps).
THEOREM ListedModels == MappingSpec => []ListedModelsAreServed
  BY MapsInvariance, ListedServed, PTL

\* Resolving a name once or twice, as the translators and the clamping do, is the same
\* (resolve_model_id).
THEOREM ResolvedOnce ==
    MappingSpec => [](\A id \in Found \cup { Id(None, s) : s \in DOMAIN providerMap } :
                          Resolve(Resolve(id)) = Resolve(id))
<1>1. MapsInv => \A id \in Found \cup { Id(None, s) : s \in DOMAIN providerMap } :
                     Resolve(Resolve(id)) = Resolve(id)
  BY ResolveTwice
<1> QED
  BY <1>1, MapsInvariance, PTL

\* Every name gets an effort its model has, and a larger thinking budget never less
\* (clamp_reasoning_effort, _budget_to_effort).
THEOREM EffortsAlwaysFit == RequestSpec => []EffortsFit
  BY RequestInvariance, EffortsFitAlways, PTL DEF RequestInv

\* The id a model is listed by gets that model, while requests are translated.
THEOREM ListedAlwaysServed == RequestSpec => []ListedModelsAreServed
  BY RequestInvariance, ListedServed, PTL DEF RequestInv

\* tools_available agrees with the choice sent, and no accepted Responses request
\* forces a tool it does not declare (translate_tool_choice).
THEOREM ToolChoiceAlwaysFits == RequestSpec => []ToolChoiceFits
  BY RequestInvariance, ToolChoiceFitsAlways, PTL DEF RequestInv

\* A conversation is made of what its roles say, and a block's stamp is its place, for
\* any calls and names and however long it becomes: what every request of the
\* conversation runs is translated from, and the inductive invariant of the following.
THEOREM ConversationInvariance == Spec => []ConversationInv
  BY InitConversation, StepConversation, PTL DEF Spec

\* Every tool result goes upstream under the name of the call it answers, in each of
\* the protocols (_split_messages, the two _build_messages).
THEOREM AlwaysNamedAfterTheirCalls == RequestSpec => []NamedAfterTheirCalls
<1>1. ConversationInv => NamedAfterTheirCalls
  BY NamedAlways DEF ConversationInv
<1> QED
  BY <1>1, RequestConversations, PTL

\* Each translator sends every text, image, call and result once, and no empty message
\* (_split_messages, the two _build_messages).
THEOREM NeverLostOrDoubled == RequestSpec => []NothingLostOrDoubled
<1>1. ConversationInv => NothingLostOrDoubled
  BY OnceAlways DEF ConversationInv
<1> QED
  BY <1>1, RequestConversations, PTL

\* The roles say the same in all protocols, and the system prompt is the same while
\* there is one system message.
THEOREM ProtocolsAlwaysAgree == RequestSpec => []ProtocolsAgree
<1>1. ConversationInv => ProtocolsAgree
  BY AgreeAlways DEF ConversationInv
<1> QED
  BY <1>1, RequestConversations, PTL

\* A conversation keeps its session whatever is said after its opening
\* (extract_stable_flag, _content_hash).
THEOREM SessionAlwaysStable == RequestSpec => []SessionIsStable
<1>1. ConversationInv => SessionIsStable
  BY SessionStays DEF ConversationInv
<1> QED
  BY <1>1, RequestConversations, PTL
=============================================================================
