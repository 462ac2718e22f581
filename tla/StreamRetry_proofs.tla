------------------------- MODULE StreamRetry_proofs -------------------------
(* Proofs about StreamRetry, for streams of any length. *)
EXTENDS StreamRetry, SequenceTheorems, TLAPS

USE StreamRetryAssumption

Item == [kind : Kinds, attempt : 0..1]

-----------------------------------------------------------------------------
(* Sequences *)

LEMMA NothingTagged == ASSUME NEW a PROVE Tagged(<<>>, a) = <<>>
  BY DEF Tagged

LEMMA OneTagged == ASSUME NEW c, NEW a PROVE Tagged(<<c>>, a) = <<[kind |-> c, attempt |-> a]>>
  BY DEF Tagged

LEMMA TaggedType ==
    ASSUME NEW s \in Seq(Kinds), NEW a \in 0..1
    PROVE  /\ Tagged(s, a) \in Seq(Item) /\ Len(Tagged(s, a)) = Len(s)
           /\ \A i \in 1..Len(s) : Tagged(s, a)[i] = [kind |-> s[i], attempt |-> a]
<1>1. Len(s) \in Nat /\ DOMAIN s = 1..Len(s) /\ \A i \in 1..Len(s) : s[i] \in Kinds
  BY LenProperties, ElementOfSeq
<1>2. Tagged(s, a) \in [1..Len(s) -> Item]
  BY <1>1 DEF Tagged, Item
<1>3. Tagged(s, a) \in Seq(Item)
  BY <1>1, <1>2, SeqDef
<1>4. DOMAIN Tagged(s, a) = 1..Len(s)
  BY <1>2
<1>5. Len(Tagged(s, a)) = Len(s)
  BY <1>1, <1>3, <1>4, LenProperties
<1> QED
  BY <1>1, <1>3, <1>5 DEF Tagged

LEMMA TaggedConcat ==
    ASSUME NEW s \in Seq(Kinds), NEW t \in Seq(Kinds), NEW a \in 0..1
    PROVE  Tagged(s \o t, a) = Tagged(s, a) \o Tagged(t, a)
<1> DEFINE st == s \o t
           l == Tagged(st, a)
           r == Tagged(s, a) \o Tagged(t, a)
<1>1. /\ st \in Seq(Kinds) /\ Len(st) = Len(s) + Len(t)
      /\ Len(s) \in Nat /\ Len(t) \in Nat
      /\ \A i \in 1..Len(s) + Len(t) : st[i] = IF i <= Len(s) THEN s[i] ELSE t[i - Len(s)]
  BY ConcatProperties, LenProperties
<1> HIDE DEF st
<1>2. /\ l \in Seq(Item) /\ Len(l) = Len(s) + Len(t)
      /\ \A i \in 1..Len(s) + Len(t) : l[i] = [kind |-> st[i], attempt |-> a]
  BY <1>1, TaggedType
<1>3. /\ r \in Seq(Item) /\ Len(r) = Len(s) + Len(t)
      /\ \A i \in 1..Len(s) + Len(t) :
            r[i] = IF i <= Len(s) THEN Tagged(s, a)[i] ELSE Tagged(t, a)[i - Len(s)]
  BY TaggedType, ConcatProperties
<1>4. ASSUME NEW i \in 1..Len(s) + Len(t) PROVE l[i] = r[i]
  <2>1. CASE i <= Len(s)
    <3>1. i \in 1..Len(s)
      BY <1>1, <2>1
    <3> QED
      BY <1>1, <1>2, <1>3, <2>1, <3>1, TaggedType
  <2>2. CASE ~(i <= Len(s))
    <3>1. i - Len(s) \in 1..Len(t)
      BY <1>1, <2>2
    <3>2. st[i] = t[i - Len(s)] /\ r[i] = Tagged(t, a)[i - Len(s)]
      BY <1>1, <1>3, <2>2
    <3>3. Tagged(t, a)[i - Len(s)] = [kind |-> t[i - Len(s)], attempt |-> a]
      BY <3>1, TaggedType
    <3> QED
      BY <1>2, <3>2, <3>3
  <2> QED
    BY <2>1, <2>2
<1> HIDE DEF l, r
<1>5. l = r
  BY <1>2, <1>3, <1>4, SeqEqual
<1> QED
  BY <1>5 DEF l, r, st

LEMMA NothingWithoutEnd == WithoutEnd(<<>>) = <<>>
<1> DEFINE F(f) ==
        [s \in SUBSET (DOMAIN <<>>) |->
            IF s = {} THEN <<>>
            ELSE LET x == Max(s)
                 IN  IF <<>>[x] \in {"done", "emptyError"} THEN f[s \ {x}]
                     ELSE Append(f[s \ {x}], <<>>[x])]
           g == CHOOSE f : f = F(f)
<1>1. DOMAIN <<>> = {}
  OBVIOUS
<1>2. [s \in SUBSET (DOMAIN <<>>) |-> <<>>] = F([s \in SUBSET (DOMAIN <<>>) |-> <<>>])
  BY <1>1
<1>3. g = F(g)
  BY <1>2
<1>4. g[DOMAIN <<>>] = <<>>
  BY <1>1, <1>3
<1>5. WithoutEnd(<<>>) = g[DOMAIN <<>>]
  BY DEF WithoutEnd, FoldLeft, MapThenFoldSet
<1> QED
  BY <1>4, <1>5

LEMMA HeadAndTail ==
    ASSUME NEW s \in Seq(Kinds), s # <<>> PROVE s = <<Head(s)>> \o Tail(s)
<1>1. Len(s) \in Nat \ {0}
  BY EmptySeq
<1>2. SubSeq(s, 1, Len(s)) = <<s[1]>> \o SubSeq(s, 2, Len(s))
  <2>1. 1 \in 1..Len(s) /\ Len(s) \in 1..Len(s)
    BY <1>1
  <2>2. SubSeq(s, 1, Len(s)) = <<s[1]>> \o SubSeq(s, 1 + 1, Len(s))
    BY <2>1, SubSeqRecursiveFirst
  <2> QED
    BY <2>2
<1>3. SubSeq(s, 1, Len(s)) = s /\ Tail(s) = SubSeq(s, 2, Len(s))
  BY SubSeqFull, TailIsSubSeq
<1>4. Head(s) = s[1]
  OBVIOUS
<1> QED
  BY <1>2, <1>3, <1>4

\* The first of one or two chunks.
LEMMA Heads ==
    ASSUME NEW a, NEW b
    PROVE  /\ Head(<<a>>) = a /\ Tail(<<a>>) = <<>> /\ <<a>> # <<>>
           /\ Head(<<a, b>>) = a /\ Tail(<<a, b>>) = <<b>> /\ <<a, b>> # <<>>
           /\ <<a, b>> = <<a>> \o <<b>>
           /\ Append(<<>>, a) = <<a>> /\ Append(<<a>>, b) = <<a, b>>
<1>1. Head(<<a>>) = a /\ Tail(<<a>>) = <<>> /\ <<a>> # <<>>
  OBVIOUS
<1>2. Head(<<a, b>>) = a /\ <<a, b>> # <<>>
  OBVIOUS
<1>3. Tail(<<a, b>>) = <<b>>
  OBVIOUS
<1>4. <<a, b>> = <<a>> \o <<b>>
  <2> DEFINE l == <<a, b>>
             r == <<a>> \o <<b>>
  <2>1. <<a>> \in Seq({a, b}) /\ <<b>> \in Seq({a, b}) /\ Len(<<a>>) = 1 /\ Len(<<b>>) = 1
    OBVIOUS
  <2>2. /\ r \in Seq({a, b}) /\ Len(r) = 2
        /\ \A i \in 1..2 : r[i] = IF i <= 1 THEN <<a>>[i] ELSE <<b>>[i - 1]
    BY <2>1, ConcatProperties
  <2>3. l \in Seq({a, b}) /\ Len(l) = 2 /\ l[1] = a /\ l[2] = b
    OBVIOUS
  <2>4. r[1] = a /\ r[2] = b
    BY <2>2
  <2> HIDE DEF l, r
  <2>5. l = r
    BY <2>2, <2>3, <2>4, SeqEqual
  <2> QED
    BY <2>5 DEF l, r
<1>5. Append(<<>>, a) = <<a>>
  OBVIOUS
<1>6. Append(<<a>>, b) = <<a>> \o <<b>>
  <2>1. <<a>> \in Seq({a, b}) /\ b \in {a, b}
    OBVIOUS
  <2> QED
    BY <2>1, AppendIsConcat
<1> QED
  BY <1>1, <1>2, <1>3, <1>4, <1>5, <1>6

-----------------------------------------------------------------------------
(* What the client was sent *)

Ends == {"emptyError", "error", "done"}

Open(s) == \A i \in DOMAIN s : s[i].kind \notin Ends

FailedLast(s) ==
    /\ Len(s) # 0 /\ s[Len(s)].kind \in {"emptyError", "error"}
    /\ \A i \in DOMAIN s : s[i].kind \in Ends => i = Len(s)

DoneLast(s) ==
    /\ Len(s) # 0 /\ s[Len(s)].kind = "done"
    /\ \A i \in DOMAIN s : s[i].kind \in Ends =>
          i = Len(s) \/ (i + 1 = Len(s) /\ s[i].kind # "done")

Has(s, kinds, a) == \E i \in DOMAIN s : s[i].kind \in kinds /\ s[i].attempt = a

HasBefore(s, n, kinds, a) ==
    \E j \in DOMAIN s : s[j].kind \in kinds /\ s[j].attempt = a /\ j < n

Truthful(s) ==
    \A i \in DOMAIN s : s[i].kind \in Finishes =>
        /\ HasBefore(s, i, Visible, s[i].attempt)
        /\ s[i].kind # "echoedFinish" =>
              (s[i].kind = "toolFinish" <=> HasBefore(s, i, {"tool"}, s[i].attempt))

Hidden(s) ==
    \A i \in DOMAIN s : s[i].kind = "emptyError" /\ s[i].attempt = 0 =>
        HasBefore(s, i, Visible, 0)

LEMMA OneMore ==
    ASSUME NEW s \in Seq(Item), NEW x \in Item
    PROVE  /\ s \o <<x>> \in Seq(Item) /\ Len(s) \in Nat
           /\ Len(s \o <<x>>) = Len(s) + 1
           /\ DOMAIN s = 1..Len(s) /\ DOMAIN (s \o <<x>>) = 1..Len(s) + 1
           /\ \A i \in 1..Len(s) : (s \o <<x>>)[i] = s[i]
           /\ (s \o <<x>>)[Len(s) + 1] = x
           /\ Len(s) + 1 \in 1..Len(s) + 1
           /\ \A i \in 1..Len(s) : i \in 1..Len(s) + 1 /\ i # Len(s) + 1
           /\ \A i \in 1..Len(s) + 1 : i \in 1..Len(s) \/ i = Len(s) + 1
<1>1. <<x>> \in Seq(Item) /\ Len(<<x>>) = 1 /\ <<x>>[1] = x
  OBVIOUS
<1>2. Len(s) \in Nat /\ DOMAIN s = 1..Len(s)
  BY LenProperties
<1>3. /\ s \o <<x>> \in Seq(Item) /\ Len(s \o <<x>>) = Len(s) + 1
      /\ \A i \in 1..Len(s) + 1 : (s \o <<x>>)[i] = IF i <= Len(s) THEN s[i] ELSE <<x>>[i - Len(s)]
  BY <1>1, ConcatProperties
<1>4. DOMAIN (s \o <<x>>) = 1..Len(s) + 1
  BY <1>3, LenProperties
<1> QED
  BY <1>1, <1>2, <1>3, <1>4

LEMMA OneMoreEnds ==
    ASSUME NEW s \in Seq(Item), NEW x \in Item
    PROVE  /\ Open(s) /\ x.kind \notin Ends => Open(s \o <<x>>)
           /\ Open(s) /\ x.kind \in {"emptyError", "error"} => FailedLast(s \o <<x>>)
           /\ (Open(s) \/ FailedLast(s)) /\ x.kind = "done" => DoneLast(s \o <<x>>)
<1> DEFINE t == s \o <<x>>
<1>1. /\ Len(s) \in Nat /\ Len(t) = Len(s) + 1
      /\ DOMAIN s = 1..Len(s) /\ DOMAIN t = 1..Len(s) + 1
      /\ \A i \in 1..Len(s) : t[i] = s[i]
      /\ t[Len(s) + 1] = x
      /\ Len(s) + 1 \in 1..Len(s) + 1
      /\ \A i \in 1..Len(s) : i \in 1..Len(s) + 1 /\ i # Len(s) + 1
      /\ \A i \in 1..Len(s) + 1 : i \in 1..Len(s) \/ i = Len(s) + 1
  BY OneMore
<1> HIDE DEF t
<1>2. Open(s) /\ x.kind \notin Ends => Open(t)
  BY <1>1 DEF Open
<1>3. Len(t) # 0 /\ t[Len(t)] = x
  BY <1>1
<1>4. ASSUME Open(s) PROVE \A i \in DOMAIN t : t[i].kind \in Ends => i = Len(t)
  BY <1>1, <1>4 DEF Open
<1>5. ASSUME FailedLast(s), NEW i \in DOMAIN t, t[i].kind \in Ends
      PROVE  i = Len(t) \/ (i + 1 = Len(t) /\ t[i].kind # "done")
  <2>1. CASE i \in 1..Len(s)
    <3>1. t[i] = s[i] /\ i = Len(s) /\ i + 1 = Len(t)
      BY <1>1, <1>5, <2>1 DEF FailedLast
    <3>2. s[i].kind \in {"emptyError", "error"}
      BY <1>5, <3>1 DEF FailedLast
    <3> QED
      BY <3>1, <3>2
  <2>2. CASE i = Len(s) + 1
    BY <1>1, <2>2
  <2> QED
    BY <1>1, <2>1, <2>2
<1>6. Open(s) /\ x.kind \in {"emptyError", "error"} => FailedLast(t)
  BY <1>3, <1>4 DEF FailedLast
<1>7. (Open(s) \/ FailedLast(s)) /\ x.kind = "done" => DoneLast(t)
  <2>1. CASE Open(s) /\ x.kind = "done"
    BY <1>3, <1>4, <2>1 DEF DoneLast
  <2>2. CASE FailedLast(s) /\ x.kind = "done"
    BY <1>3, <1>5, <2>2 DEF DoneLast
  <2> QED
    BY <2>1, <2>2
<1> QED
  BY <1>2, <1>6, <1>7 DEF t

LEMMA OneMoreHas ==
    ASSUME NEW s \in Seq(Item), NEW x \in Item, NEW kinds, NEW a
    PROVE  Has(s \o <<x>>, kinds, a) <=> Has(s, kinds, a) \/ (x.kind \in kinds /\ x.attempt = a)
<1> DEFINE t == s \o <<x>>
<1>1. /\ Len(s) \in Nat /\ DOMAIN s = 1..Len(s) /\ DOMAIN t = 1..Len(s) + 1
      /\ \A i \in 1..Len(s) : t[i] = s[i]
      /\ t[Len(s) + 1] = x
      /\ Len(s) + 1 \in 1..Len(s) + 1
      /\ \A i \in 1..Len(s) : i \in 1..Len(s) + 1 /\ i # Len(s) + 1
      /\ \A i \in 1..Len(s) + 1 : i \in 1..Len(s) \/ i = Len(s) + 1
  BY OneMore
<1> HIDE DEF t
<1>2. ASSUME Has(t, kinds, a) PROVE Has(s, kinds, a) \/ (x.kind \in kinds /\ x.attempt = a)
  <2>1. PICK i \in DOMAIN t : t[i].kind \in kinds /\ t[i].attempt = a
    BY <1>2 DEF Has
  <2>2. CASE i \in 1..Len(s)
    BY <1>1, <2>1, <2>2 DEF Has
  <2>3. CASE i = Len(s) + 1
    BY <1>1, <2>1, <2>3
  <2> QED
    BY <1>1, <2>2, <2>3
<1>3. ASSUME Has(s, kinds, a) PROVE Has(t, kinds, a)
  BY <1>1, <1>3 DEF Has
<1>4. ASSUME x.kind \in kinds, x.attempt = a PROVE Has(t, kinds, a)
  BY <1>1, <1>4 DEF Has
<1> QED
  BY <1>2, <1>3, <1>4 DEF t

LEMMA OneMoreBefore ==
    ASSUME NEW s \in Seq(Item), NEW x \in Item, NEW kinds, NEW a
    PROVE  /\ \A i \in 1..Len(s) :
                 HasBefore(s \o <<x>>, i, kinds, a) <=> HasBefore(s, i, kinds, a)
           /\ HasBefore(s \o <<x>>, Len(s) + 1, kinds, a) <=> Has(s, kinds, a)
<1> DEFINE t == s \o <<x>>
<1>1. /\ Len(s) \in Nat /\ DOMAIN s = 1..Len(s) /\ DOMAIN t = 1..Len(s) + 1
      /\ \A i \in 1..Len(s) : t[i] = s[i]
  BY OneMore
<1> HIDE DEF t
<1>2. \A i \in 1..Len(s) : HasBefore(t, i, kinds, a) <=> HasBefore(s, i, kinds, a)
  BY <1>1 DEF HasBefore
<1>3. HasBefore(t, Len(s) + 1, kinds, a) <=> Has(s, kinds, a)
  BY <1>1 DEF HasBefore, Has
<1> QED
  BY <1>2, <1>3 DEF t

LEMMA OneMoreTold ==
    ASSUME NEW s \in Seq(Item), NEW x \in Item
    PROVE  /\ /\ Truthful(s)
              /\ x.kind \in Finishes =>
                    /\ Has(s, Visible, x.attempt)
                    /\ x.kind # "echoedFinish" =>
                          (x.kind = "toolFinish" <=> Has(s, {"tool"}, x.attempt))
              => Truthful(s \o <<x>>)
           /\ /\ Hidden(s)
              /\ x.kind = "emptyError" /\ x.attempt = 0 => Has(s, Visible, 0)
              => Hidden(s \o <<x>>)
<1> DEFINE t == s \o <<x>>
<1>1. /\ Len(s) \in Nat /\ DOMAIN s = 1..Len(s) /\ DOMAIN t = 1..Len(s) + 1
      /\ \A i \in 1..Len(s) : t[i] = s[i]
      /\ t[Len(s) + 1] = x
      /\ Len(s) + 1 \in 1..Len(s) + 1
      /\ \A i \in 1..Len(s) : i \in 1..Len(s) + 1 /\ i # Len(s) + 1
      /\ \A i \in 1..Len(s) + 1 : i \in 1..Len(s) \/ i = Len(s) + 1
  BY OneMore
<1>2. \A kinds, a :
          /\ \A i \in 1..Len(s) : HasBefore(t, i, kinds, a) <=> HasBefore(s, i, kinds, a)
          /\ HasBefore(t, Len(s) + 1, kinds, a) <=> Has(s, kinds, a)
  BY OneMoreBefore
<1> HIDE DEF t
<1>3. ASSUME Truthful(s),
             x.kind \in Finishes =>
                 /\ Has(s, Visible, x.attempt)
                 /\ x.kind # "echoedFinish" =>
                       (x.kind = "toolFinish" <=> Has(s, {"tool"}, x.attempt))
      PROVE  Truthful(t)
  <2> SUFFICES ASSUME NEW i \in DOMAIN t, t[i].kind \in Finishes
               PROVE  /\ HasBefore(t, i, Visible, t[i].attempt)
                      /\ t[i].kind # "echoedFinish" =>
                            (t[i].kind = "toolFinish" <=> HasBefore(t, i, {"tool"}, t[i].attempt))
    BY DEF Truthful
  <2>1. CASE i \in 1..Len(s)
    BY <1>1, <1>2, <1>3, <2>1 DEF Truthful
  <2>2. CASE i = Len(s) + 1
    BY <1>1, <1>2, <1>3, <2>2
  <2> QED
    BY <1>1, <2>1, <2>2
<1>4. ASSUME Hidden(s), x.kind = "emptyError" /\ x.attempt = 0 => Has(s, Visible, 0)
      PROVE  Hidden(t)
  <2> SUFFICES ASSUME NEW i \in DOMAIN t, t[i].kind = "emptyError", t[i].attempt = 0
               PROVE  HasBefore(t, i, Visible, 0)
    BY DEF Hidden
  <2>1. CASE i \in 1..Len(s)
    BY <1>1, <1>2, <1>4, <2>1 DEF Hidden
  <2>2. CASE i = Len(s) + 1
    BY <1>1, <1>2, <1>4, <2>2
  <2> QED
    BY <1>1, <2>1, <2>2
<1> QED
  BY <1>3, <1>4 DEF t

\* What was sent behind the first of its parts does not change what holds of that part.
LEMMA Earlier ==
    ASSUME NEW s \in Seq(Item), NEW u \in Seq(Item)
    PROVE  /\ Truthful(s \o u) => Truthful(s)
           /\ \A i \in DOMAIN s : i \in DOMAIN (s \o u) /\ (s \o u)[i] = s[i]
<1> DEFINE t == s \o u
<1>1. /\ Len(s) \in Nat /\ Len(u) \in Nat /\ DOMAIN s = 1..Len(s)
      /\ DOMAIN t = 1..Len(s) + Len(u)
      /\ \A i \in 1..Len(s) : i \in 1..Len(s) + Len(u) /\ t[i] = s[i]
  <2>1. /\ Len(s) \in Nat /\ Len(u) \in Nat /\ DOMAIN s = 1..Len(s)
    BY LenProperties
  <2>2. /\ t \in Seq(Item) /\ Len(t) = Len(s) + Len(u)
        /\ \A i \in 1..Len(s) + Len(u) : t[i] = IF i <= Len(s) THEN s[i] ELSE u[i - Len(s)]
    BY ConcatProperties
  <2>3. DOMAIN t = 1..Len(s) + Len(u)
    BY <2>2, LenProperties
  <2> QED
    BY <2>1, <2>2, <2>3
<1> HIDE DEF t
<1>2. ASSUME NEW i \in DOMAIN s, NEW kinds, NEW a
      PROVE  HasBefore(t, i, kinds, a) <=> HasBefore(s, i, kinds, a)
  BY <1>1 DEF HasBefore
<1>3. ASSUME Truthful(t) PROVE Truthful(s)
  <2> SUFFICES ASSUME NEW i \in DOMAIN s, s[i].kind \in Finishes
               PROVE  /\ HasBefore(s, i, Visible, s[i].attempt)
                      /\ s[i].kind # "echoedFinish" =>
                            (s[i].kind = "toolFinish" <=> HasBefore(s, i, {"tool"}, s[i].attempt))
    BY DEF Truthful
  <2>1. /\ HasBefore(t, i, Visible, s[i].attempt)
        /\ s[i].kind # "echoedFinish" =>
              (s[i].kind = "toolFinish" <=> HasBefore(t, i, {"tool"}, s[i].attempt))
    BY <1>1, <1>3 DEF Truthful
  <2> QED
    BY <1>2, <2>1
<1> QED
  BY <1>1, <1>3 DEF t

\* o is u's first part, made of m.
IsFirst(o, m, u, a) == \E s \in Seq(Kinds) : o = Tagged(s, a) /\ m = s \o u

LEMMA Split ==
    ASSUME NEW o \in Seq(Item), NEW m \in Seq(Kinds), NEW u \in Seq(Kinds), NEW a \in 0..1,
           o \o Tagged(u, a) = Tagged(m, a)
    PROVE  IsFirst(o, m, u, a)
<1> DEFINE s == [i \in 1..Len(o) |-> m[i]]
           t == Tagged(u, a)
           q == Tagged(m, a)
<1>1. /\ Len(o) \in Nat /\ Len(u) \in Nat /\ t \in Seq(Item) /\ Len(t) = Len(u)
      /\ \A i \in 1..Len(u) : t[i] = [kind |-> u[i], attempt |-> a]
  BY TaggedType, LenProperties
<1>2. /\ q \in Seq(Item) /\ Len(q) = Len(m) /\ Len(m) = Len(o) + Len(u)
      /\ \A i \in 1..Len(m) : q[i] = [kind |-> m[i], attempt |-> a]
      /\ \A i \in 1..Len(m) : m[i] \in Kinds
      /\ \A i \in 1..Len(m) : q[i] = IF i <= Len(o) THEN o[i] ELSE t[i - Len(o)]
  <2>1. /\ q \in Seq(Item) /\ Len(q) = Len(m)
        /\ \A i \in 1..Len(m) : q[i] = [kind |-> m[i], attempt |-> a]
        /\ \A i \in 1..Len(m) : m[i] \in Kinds
    BY TaggedType, ElementOfSeq
  <2>2. q = o \o t
    OBVIOUS
  <2> HIDE DEF t, q
  <2>3. /\ Len(o \o t) = Len(o) + Len(t)
        /\ \A i \in 1..Len(o) + Len(t) : (o \o t)[i] = IF i <= Len(o) THEN o[i] ELSE t[i - Len(o)]
    <3>1. t \in Seq(Item)
      BY <1>1
    <3> QED
      BY <3>1, ConcatProperties
  <2> QED
    BY <1>1, <2>1, <2>2, <2>3
<1> HIDE DEF t, q
<1>3. /\ s \in Seq(Kinds) /\ Len(s) = Len(o)
      /\ \A i \in 1..Len(o) : s[i] = m[i]
  <2>1. s \in [1..Len(o) -> Kinds]
    BY <1>1, <1>2
  <2>2. s \in Seq(Kinds)
    BY <1>1, <2>1, SeqDef
  <2> QED
    BY <1>1, <2>1, <2>2, LenProperties
<1> HIDE DEF s
<1>4. o = Tagged(s, a)
  <2> DEFINE r == Tagged(s, a)
  <2>1. /\ r \in Seq(Item) /\ Len(r) = Len(o)
        /\ \A i \in 1..Len(o) : r[i] = [kind |-> s[i], attempt |-> a]
    BY <1>3, TaggedType
  <2> HIDE DEF r
  <2>2. ASSUME NEW i \in 1..Len(o) PROVE o[i] = r[i]
    <3>1. i \in 1..Len(m) /\ i <= Len(o)
      BY <1>1, <1>2
    <3> QED
      BY <1>2, <1>3, <2>1, <3>1
  <2>3. o = r
    BY <2>1, <2>2, SeqEqual
  <2> QED
    BY <2>3 DEF r
<1>5. m = s \o u
  <2> DEFINE v == s \o u
  <2>0. s \in Seq(Kinds)
    BY <1>3
  <2>1. /\ v \in Seq(Kinds) /\ Len(v) = Len(s) + Len(u)
        /\ \A i \in 1..Len(s) + Len(u) : v[i] = IF i <= Len(s) THEN s[i] ELSE u[i - Len(s)]
    BY <2>0, ConcatProperties
  <2> HIDE DEF v
  <2>4. /\ Len(v) = Len(m)
        /\ \A i \in 1..Len(m) : v[i] = IF i <= Len(o) THEN s[i] ELSE u[i - Len(o)]
    BY <1>2, <1>3, <2>1
  <2>2. ASSUME NEW i \in 1..Len(m) PROVE m[i] = v[i]
    <3>1. CASE i <= Len(o)
      <4>1. i \in 1..Len(o)
        BY <1>1, <1>2, <3>1
      <4> QED
        BY <1>3, <2>4, <3>1, <4>1
    <3>2. CASE ~(i <= Len(o))
      <4>1. i - Len(o) \in 1..Len(u)
        BY <1>1, <1>2, <3>2
      <4>2. [kind |-> m[i], attempt |-> a] = [kind |-> u[i - Len(o)], attempt |-> a]
        BY <1>1, <1>2, <3>2, <4>1
      <4>3. m[i] = u[i - Len(o)]
        BY <4>2
      <4> QED
        BY <2>4, <3>2, <4>3
    <3> QED
      BY <3>1, <3>2
  <2>3. m = v
    BY <2>1, <2>2, <2>4, SeqEqual
  <2> QED
    BY <2>3 DEF v
<1> QED
  BY <1>3, <1>4, <1>5 DEF IsFirst

\* What one more chunk c of attempt a makes of s.
AddsUp(s, c, a, t) ==
    /\ t \in Seq(Item)
    /\ Open(s) /\ c \notin Ends => Open(t)
    /\ Open(s) /\ c \in {"emptyError", "error"} => FailedLast(t)
    /\ (Open(s) \/ FailedLast(s)) /\ c = "done" => DoneLast(t)
    /\ Has(t, Visible, a) <=> (Has(s, Visible, a) \/ c \in Visible)
    /\ Has(t, {"tool"}, a) <=> (Has(s, {"tool"}, a) \/ c = "tool")
    /\ Has(s, Visible, 0) => Has(t, Visible, 0)
    /\ /\ Truthful(s)
       /\ c \in Finishes =>
             /\ Has(s, Visible, a)
             /\ c # "echoedFinish" => (c = "toolFinish" <=> Has(s, {"tool"}, a))
       => Truthful(t)
    /\ /\ Hidden(s)
       /\ c = "emptyError" /\ a = 0 => Has(s, Visible, 0)
       => Hidden(t)

LEMMA Added ==
    ASSUME NEW s \in Seq(Item), NEW c \in Kinds, NEW a \in 0..1
    PROVE  AddsUp(s, c, a, s \o <<[kind |-> c, attempt |-> a]>>)
<1> DEFINE x == [kind |-> c, attempt |-> a]
           t == s \o <<x>>
<1>1. x \in Item /\ x.kind = c /\ x.attempt = a
  BY DEF Item
<1>2. t = s \o <<x>>
  OBVIOUS
<1> HIDE DEF x, t
<1>3. t \in Seq(Item)
  BY <1>1, <1>2, OneMore
<1>4. /\ Open(s) /\ c \notin Ends => Open(t)
      /\ Open(s) /\ c \in {"emptyError", "error"} => FailedLast(t)
      /\ (Open(s) \/ FailedLast(s)) /\ c = "done" => DoneLast(t)
  BY <1>1, <1>2, OneMoreEnds
<1>5. \A kinds, b : Has(t, kinds, b) <=> (Has(s, kinds, b) \/ (c \in kinds /\ a = b))
  BY <1>1, <1>2, OneMoreHas
<1>6. /\ /\ Truthful(s)
         /\ c \in Finishes =>
               /\ Has(s, Visible, a)
               /\ c # "echoedFinish" => (c = "toolFinish" <=> Has(s, {"tool"}, a))
         => Truthful(t)
      /\ /\ Hidden(s)
         /\ c = "emptyError" /\ a = 0 => Has(s, Visible, 0)
         => Hidden(t)
  BY <1>1, <1>2, OneMoreTold
<1>7. /\ Has(t, Visible, a) <=> (Has(s, Visible, a) \/ c \in Visible)
      /\ Has(s, Visible, 0) => Has(t, Visible, 0)
  BY <1>5
<1>8. Has(t, {"tool"}, a) <=> (Has(s, {"tool"}, a) \/ c = "tool")
  BY <1>5
<1>9. AddsUp(s, c, a, t)
  BY <1>3, <1>4, <1>6, <1>7, <1>8 DEF AddsUp
<1> QED
  BY <1>9 DEF t, x

-----------------------------------------------------------------------------
(* The invariant *)

\* What the client was sent, and will be if nothing more is made.
Line == out \o Tagged(buffer \o chunks, attempt)

\* A finish, and one that has the reasoning as the answer before it.
FinishAlone == { <<f>> : f \in Finishes }
Fallbacks == { <<"fallback", f>> : f \in Finishes }

\* What the translator may have left to consume, by whether it still reads.
OpenChunks == {<<>>} \cup { <<k>> : k \in Streamable \cup Finishes } \cup Fallbacks

LastChunks == { <<"emptyError", "done">>, <<"error", "done">> }

\* Where the chunks are.
Shape ==
    /\ buffer # <<>> => Watching /\ ~flushed
    /\ Watching /\ ~flushed /\ over = "no" =>
          out = <<>> /\ ~visibleSeen /\ chunks \notin FinishAlone
    /\ tools => chunks \notin Fallbacks
    /\ upstream = "open" => buffer = <<>> /\ chunks \in OpenChunks
    /\ upstream = "closed" =>
          \/ buffer = <<>> /\ chunks \in LastChunks /\ Open(out)
          \/ buffer \in {<<>>, <<"error">>} /\ chunks = <<"done">>
          \/ buffer \in {<<>>, <<"done">>, <<"error", "done">>} /\ chunks = <<>>
    /\ over = "returned" => upstream = "closed" /\ buffer = <<>> /\ chunks = <<>>
    /\ visibleSeen => Has(out, Visible, 0)
    /\ tools => Hidden(out)

\* What the translator's flags say of the line.
Told ==
    /\ Truthful(Line)
    /\ visible <=> Has(Line, Visible, attempt)
    /\ toolCalls <=> Has(Line, {"tool"}, attempt)
    /\ upstream = "open" => Open(Line)
    /\ upstream = "closed" => DoneLast(Line)

\* The line is what was made, but for the end of a retried attempt.
Whole ==
    /\ attempt = 0 => Line = Tagged(made[0], 0) /\ made[1] = <<>>
    /\ attempt = 1 =>
          \E s \in Seq(Kinds) :
              /\ made[0] = s \o <<"emptyError", "done">>
              /\ Line = Tagged(s, 0) \o Tagged(made[1], 1)

IInv == TypeOK /\ Shape /\ Told /\ Whole

LEMMA Finishing ==
    /\ \A k \in Streamable \cup Finishes : <<k>> \in OpenChunks
    /\ Fallbacks \subseteq OpenChunks /\ <<>> \in OpenChunks
    /\ \A c : <<c>> \notin Fallbacks /\ (c \notin Finishes => <<c>> \notin FinishAlone)
    /\ \A f \in Finishes : <<f>> \in FinishAlone /\ <<"fallback", f>> \in Fallbacks
    /\ <<>> \notin FinishAlone /\ <<>> \notin Fallbacks
    /\ \A a, b : <<a, b>> \notin FinishAlone /\ (a # "fallback" => <<a, b>> \notin Fallbacks)
    /\ \A cs \in FinishAlone : cs \notin Fallbacks
    /\ \A cs \in Fallbacks :
          Head(cs) = "fallback" /\ Tail(cs) \in FinishAlone /\ cs \notin FinishAlone
<1>1. /\ \A k \in Streamable \cup Finishes : <<k>> \in OpenChunks
      /\ Fallbacks \subseteq OpenChunks /\ <<>> \in OpenChunks
  BY DEF OpenChunks
<1>2. \A f \in Finishes : <<f>> \in FinishAlone /\ <<"fallback", f>> \in Fallbacks
  BY DEF FinishAlone, Fallbacks
<1>3. ASSUME NEW c PROVE <<c>> \notin Fallbacks /\ (c \notin Finishes => <<c>> \notin FinishAlone)
  <2>1. Len(<<c>>) = 1 /\ \A f : Len(<<"fallback", f>>) = 2 /\ (<<f>> = <<c>> => f = c)
    OBVIOUS
  <2> QED
    BY <2>1 DEF FinishAlone, Fallbacks
<1>4. <<>> \notin FinishAlone /\ <<>> \notin Fallbacks
  BY Heads DEF FinishAlone, Fallbacks
<1>5. ASSUME NEW a, NEW b
      PROVE  <<a, b>> \notin FinishAlone /\ (a # "fallback" => <<a, b>> \notin Fallbacks)
  <2>1. Len(<<a, b>>) = 2 /\ \A f : Len(<<f>>) = 1
    OBVIOUS
  <2>2. \A f : Head(<<"fallback", f>>) = "fallback" /\ Head(<<a, b>>) = a
    BY Heads
  <2> QED
    BY <2>1, <2>2 DEF FinishAlone, Fallbacks
<1>6. \A cs \in FinishAlone : cs \notin Fallbacks
  BY <1>3 DEF FinishAlone
<1>7. ASSUME NEW cs \in Fallbacks
      PROVE  Head(cs) = "fallback" /\ Tail(cs) \in FinishAlone /\ cs \notin FinishAlone
  <2>1. PICK f \in Finishes : cs = <<"fallback", f>>
    BY DEF Fallbacks
  <2>2. Head(cs) = "fallback" /\ Tail(cs) = <<f>>
    BY <2>1, Heads
  <2> QED
    BY <1>2, <1>5, <2>1, <2>2
<1> QED
  BY <1>1, <1>2, <1>3, <1>4, <1>5, <1>6, <1>7

LEMMA LineType == ASSUME TypeOK PROVE Line \in Seq(Item)
<1>1. buffer \o chunks \in Seq(Kinds)
  BY ConcatProperties DEF TypeOK
<1>2. Tagged(buffer \o chunks, attempt) \in Seq(Item)
  BY <1>1, TaggedType DEF TypeOK
<1> QED
  BY <1>2, ConcatProperties DEF TypeOK, Line, Item

LEMMA Initially == Init => IInv
<1> SUFFICES ASSUME Init PROVE IInv
  OBVIOUS
<1>1. /\ out = <<>> /\ buffer = <<>> /\ chunks = <<>> /\ attempt = 0
      /\ made = [a \in 0..1 |-> <<>>] /\ upstream = "open" /\ over = "no"
      /\ visible = FALSE /\ toolCalls = FALSE /\ flushed = FALSE /\ visibleSeen = FALSE
  BY DEF Init
<1>2. Line = <<>>
  BY <1>1, NothingTagged DEF Line
<1>3. <<>> \in Seq(Kinds) /\ <<>> \in Seq(Item)
  OBVIOUS
<1>4. TypeOK
  BY <1>1, <1>3 DEF Init, TypeOK, Item
<1>5. \A i \in DOMAIN <<>> : FALSE
  OBVIOUS
<1>6. Open(<<>>) /\ Truthful(<<>>) /\ Hidden(<<>>) /\ \A kinds, a : ~Has(<<>>, kinds, a)
  BY <1>5 DEF Open, Truthful, Hidden, Has
<1>7. Shape
  BY <1>1, <1>6, Heads DEF Shape, OpenChunks
<1>8. Told
  BY <1>1, <1>2, <1>6 DEF Told
<1>9. Whole
  BY <1>1, <1>2, NothingTagged DEF Whole
<1> QED
  BY <1>4, <1>7, <1>8, <1>9 DEF IInv

-----------------------------------------------------------------------------
(* Steps of the translator *)

LEMMA MakeLengthens ==
    ASSUME IInv, NEW cs \in Seq(Kinds), Make(cs)
    PROVE  /\ Line = out /\ Line \in Seq(Item)
           /\ Line' = Line \o Tagged(cs, attempt)
           /\ buffer = <<>> /\ buffer' = <<>>
           /\ Whole'
<1>1. /\ over = "no" /\ upstream = "open" /\ chunks = <<>> /\ chunks' = cs
      /\ made' = [made EXCEPT ![attempt] = @ \o cs]
      /\ attempt' = attempt /\ buffer' = buffer /\ out' = out
  BY DEF Make, detector
<1>2. buffer = <<>>
  BY <1>1 DEF IInv, Shape
<1>3. out \in Seq(Item) /\ attempt \in 0..1 /\ made \in [0..1 -> Seq(Kinds)]
  BY DEF IInv, TypeOK, Item
<1>4. <<>> \o <<>> = <<>> /\ <<>> \o cs = cs
  BY ConcatEmptySeq, EmptySeq
<1>5. Line = out
  <2>1. Line = out \o Tagged(<<>>, attempt)
    BY <1>1, <1>2, <1>4 DEF Line
  <2> QED
    BY <1>3, <2>1, NothingTagged, ConcatEmptySeq
<1>6. Line' = out \o Tagged(cs, attempt)
  BY <1>1, <1>2, <1>4 DEF Line
<1>7. Line' = Line \o Tagged(cs, attempt)
  BY <1>5, <1>6
<1>8. Whole'
  <2>1. CASE attempt = 0
    <3>1. Line = Tagged(made[0], 0) /\ made[1] = <<>>
      BY <2>1 DEF IInv, Whole
    <3>2. made'[0] = made[0] \o cs /\ made'[1] = <<>>
      BY <1>1, <1>3, <2>1, <3>1
    <3>3. Line' = Tagged(made'[0], 0)
      <4>1. made[0] \in Seq(Kinds) /\ 0 \in 0..1
        BY <1>3
      <4>2. Tagged(made[0] \o cs, 0) = Tagged(made[0], 0) \o Tagged(cs, 0)
        BY <4>1, TaggedConcat
      <4> QED
        BY <1>7, <2>1, <3>1, <3>2, <4>2
    <3> QED
      <4>1. attempt' = 0 /\ attempt' # 1
        BY <1>1, <2>1
      <4> QED
        BY <3>2, <3>3, <4>1 DEF Whole
  <2>2. CASE attempt = 1
    <3>1. PICK s \in Seq(Kinds) :
              /\ made[0] = s \o <<"emptyError", "done">>
              /\ Line = Tagged(s, 0) \o Tagged(made[1], 1)
      BY <2>2 DEF IInv, Whole
    <3>2. made'[0] = made[0] /\ made'[1] = made[1] \o cs
      BY <1>1, <1>3, <2>2
    <3>3. Line' = Tagged(s, 0) \o Tagged(made'[1], 1)
      <4>1. /\ Tagged(s, 0) \in Seq(Item) /\ Tagged(cs, 1) \in Seq(Item)
            /\ Tagged(made[1], 1) \in Seq(Item)
        BY <1>3, TaggedType
      <4>2. Line' = (Tagged(s, 0) \o Tagged(made[1], 1)) \o Tagged(cs, 1)
        BY <1>7, <2>2, <3>1
      <4>3. Line' = Tagged(s, 0) \o (Tagged(made[1], 1) \o Tagged(cs, 1))
        BY <4>1, <4>2, ConcatAssociative
      <4>4. Tagged(made[1] \o cs, 1) = Tagged(made[1], 1) \o Tagged(cs, 1)
        <5>1. made[1] \in Seq(Kinds) /\ 1 \in 0..1
          BY <1>3
        <5> QED
          BY <5>1, TaggedConcat
      <4> QED
        BY <3>2, <4>3, <4>4
    <3> QED
      <4>1. attempt' = 1 /\ attempt' # 0
        BY <1>1, <2>2
      <4>2. made'[0] = s \o <<"emptyError", "done">>
        BY <3>1, <3>2
      <4> QED
        BY <3>3, <4>1, <4>2 DEF Whole
  <2> QED
    BY <1>3, <2>1, <2>2
<1> QED
  BY <1>1, <1>2, <1>3, <1>5, <1>7, <1>8

LEMMA MakeOne ==
    ASSUME IInv, NEW c \in Kinds, Make(<<c>>)
    PROVE  /\ Line = out /\ Line \in Seq(Item)
           /\ Line' = Line \o <<[kind |-> c, attempt |-> attempt]>>
           /\ buffer = <<>> /\ buffer' = <<>>
           /\ Whole'
<1>1. <<c>> \in Seq(Kinds)
  OBVIOUS
<1> QED
  BY <1>1, MakeLengthens, OneTagged

LEMMA MakeTwo ==
    ASSUME IInv, NEW c \in Kinds, NEW d \in Kinds, Make(<<c, d>>)
    PROVE  /\ Line = out /\ Line \in Seq(Item)
           /\ Line' = (Line \o <<[kind |-> c, attempt |-> attempt]>>)
                           \o <<[kind |-> d, attempt |-> attempt]>>
           /\ buffer = <<>> /\ buffer' = <<>>
           /\ Whole'
<1> DEFINE first  == <<c>>
           second == <<d>>
           both   == <<c, d>>
<1>1. first \in Seq(Kinds) /\ second \in Seq(Kinds) /\ both \in Seq(Kinds)
  OBVIOUS
<1>2. attempt \in 0..1
  BY DEF IInv, TypeOK
<1>3. both = first \o second
  BY Heads
<1>4. /\ Line = out /\ Line \in Seq(Item)
      /\ Line' = Line \o Tagged(both, attempt)
      /\ buffer = <<>> /\ buffer' = <<>>
      /\ Whole'
  BY <1>1, MakeLengthens
<1>5. /\ Tagged(first, attempt) = <<[kind |-> c, attempt |-> attempt]>>
      /\ Tagged(second, attempt) = <<[kind |-> d, attempt |-> attempt]>>
  BY OneTagged
<1> HIDE DEF first, second, both
<1>6. /\ Tagged(first, attempt) \in Seq(Item) /\ Tagged(second, attempt) \in Seq(Item)
      /\ Tagged(both, attempt) = Tagged(first, attempt) \o Tagged(second, attempt)
  BY <1>1, <1>2, <1>3, TaggedType, TaggedConcat
<1>7. Line' = (Line \o Tagged(first, attempt)) \o Tagged(second, attempt)
  BY <1>4, <1>6, ConcatAssociative
<1> QED
  BY <1>4, <1>5, <1>7

LEMMA MakeType ==
    ASSUME TypeOK, NEW cs \in Seq(Kinds), Make(cs), GoesOn \/ Leaves,
           visible' \in BOOLEAN, reasoned' \in BOOLEAN, toolCalls' \in BOOLEAN
    PROVE  TypeOK'
<1>1. /\ chunks' = cs /\ made' = [made EXCEPT ![attempt] = @ \o cs]
      /\ UNCHANGED <<tools, attempt, buffer, flushed, visibleSeen, out, over>>
  BY DEF Make, detector
<1>2. made' \in [0..1 -> Seq(Kinds)]
  <2>1. attempt \in 0..1 /\ made \in [0..1 -> Seq(Kinds)]
    BY DEF TypeOK
  <2>2. made[attempt] \o cs \in Seq(Kinds)
    BY <2>1, ConcatProperties
  <2> QED
    BY <1>1, <2>1, <2>2
<1>3. upstream' \in {"open", "closed"} /\ events' \in 0..MaxEvents
  BY DEF TypeOK, GoesOn, Leaves
<1> QED
  BY <1>1, <1>2, <1>3 DEF TypeOK

LEMMA GoesOnShape ==
    ASSUME IInv, NEW cs \in OpenChunks, Make(cs), GoesOn, Line = out,
           cs \in FinishAlone => visible,
           cs \in Fallbacks => ~tools
    PROVE  Shape' /\ upstream = "open" /\ upstream' = "open" /\ attempt' = attempt
<1>1. /\ over = "no" /\ upstream = "open" /\ chunks = <<>> /\ chunks' = cs
      /\ UNCHANGED <<tools, attempt, buffer, flushed, visibleSeen, out, over>>
  BY DEF Make, detector
<1>2. upstream' = "open"
  BY <1>1 DEF GoesOn
<1>3. buffer = <<>> /\ Shape
  BY <1>1 DEF IInv, Shape
<1>4. Watching' <=> Watching
  BY <1>1 DEF Watching
<1>5. ASSUME Watching, ~flushed, cs \in FinishAlone PROVE FALSE
  <2>1. out = <<>> /\ Has(out, Visible, attempt)
    BY <1>1, <1>3, <1>5 DEF IInv, Shape, Told
  <2>2. \A i \in DOMAIN <<>> : FALSE
    OBVIOUS
  <2> QED
    BY <2>1, <2>2 DEF Has
<1>6. (Watching /\ ~flushed /\ over = "no")' =>
          out' = <<>> /\ ~visibleSeen' /\ chunks' \notin FinishAlone
  BY <1>1, <1>3, <1>4, <1>5 DEF Shape
<1>7. (visibleSeen => Has(out, Visible, 0))' /\ (tools => Hidden(out))'
  BY <1>1, <1>3 DEF Shape
<1> QED
  BY <1>1, <1>2, <1>3, <1>6, <1>7 DEF Shape

LEMMA LeavesShape ==
    ASSUME IInv, NEW cs, Make(cs), Leaves, Line = out,
           cs \in LastChunks \/ cs = <<"done">>
    PROVE  Shape' /\ upstream = "open" /\ upstream' = "closed" /\ attempt' = attempt
<1>1. /\ over = "no" /\ upstream = "open" /\ chunks = <<>> /\ chunks' = cs
      /\ UNCHANGED <<tools, attempt, buffer, flushed, visibleSeen, out, over>>
  BY DEF Make, detector
<1>2. upstream' = "closed"
  BY DEF Leaves
<1>3. buffer = <<>> /\ Shape /\ Open(out)
  BY <1>1 DEF IInv, Shape, Told
<1>4. Watching' <=> Watching
  BY <1>1 DEF Watching
<1>5. cs \notin FinishAlone /\ cs \notin Fallbacks
  BY Finishing DEF LastChunks, Finishes
<1>6. (Watching /\ ~flushed /\ over = "no")' =>
          out' = <<>> /\ ~visibleSeen' /\ chunks' \notin FinishAlone
  BY <1>1, <1>3, <1>4, <1>5 DEF Shape
<1>7. (visibleSeen => Has(out, Visible, 0))' /\ (tools => Hidden(out))'
  BY <1>1, <1>3 DEF Shape
<1> QED
  BY <1>1, <1>2, <1>3, <1>5, <1>6, <1>7 DEF Shape

LEMMA ToolIsVisible ==
    ASSUME NEW s, NEW a, Has(s, {"tool"}, a) PROVE Has(s, Visible, a)
  BY DEF Has, Visible

LEMMA TextStep == ASSUME IInv, Text PROVE IInv'
<1>1. Make(<<"text">>) /\ GoesOn /\ visible' = TRUE /\ UNCHANGED <<reasoned, toolCalls>>
  BY DEF Text
<1>2. /\ "text" \in Streamable /\ "text" \in Kinds /\ "text" \notin Ends
      /\ "text" \in Visible /\ "text" \notin Finishes
  BY DEF Kinds, Streamable, Visible, Ends, Finishes
<1>3. attempt \in 0..1
  BY DEF IInv, TypeOK
<1>4. /\ Line = out /\ Line \in Seq(Item) /\ Whole'
      /\ Line' = Line \o <<[kind |-> "text", attempt |-> attempt]>>
  BY <1>1, <1>2, MakeOne
<1>5. AddsUp(Line, "text", attempt, Line')
  BY <1>2, <1>3, <1>4, Added
<1>6. Shape' /\ upstream = "open" /\ upstream' = "open" /\ attempt' = attempt
  BY <1>1, <1>2, <1>4, Finishing, GoesOnShape DEF Streamable
<1>7. TypeOK'
  <2>1. <<"text">> \in Seq(Kinds)
    BY <1>2
  <2> QED
    BY <1>1, <2>1, MakeType DEF IInv, TypeOK
<1>8. Told'
  BY <1>1, <1>2, <1>5, <1>6 DEF IInv, Told, AddsUp
<1> QED
  BY <1>4, <1>6, <1>7, <1>8 DEF IInv

LEMMA ReasoningStep == ASSUME IInv, Reasoning PROVE IInv'
<1>1. Make(<<"reasoning">>) /\ GoesOn /\ reasoned' = TRUE /\ UNCHANGED <<visible, toolCalls>>
  BY DEF Reasoning
<1>2. /\ "reasoning" \in Kinds /\ "reasoning" \notin Ends
      /\ "reasoning" \notin Visible /\ "reasoning" \notin Finishes
  BY DEF Kinds, Streamable, Visible, Ends, Finishes
<1>3. attempt \in 0..1
  BY DEF IInv, TypeOK
<1>4. /\ Line = out /\ Line \in Seq(Item) /\ Whole'
      /\ Line' = Line \o <<[kind |-> "reasoning", attempt |-> attempt]>>
  BY <1>1, <1>2, MakeOne
<1>5. AddsUp(Line, "reasoning", attempt, Line')
  BY <1>2, <1>3, <1>4, Added
<1>6. Shape' /\ upstream = "open" /\ upstream' = "open" /\ attempt' = attempt
  BY <1>1, <1>2, <1>4, Finishing, GoesOnShape DEF Streamable
<1>7. TypeOK'
  <2>1. <<"reasoning">> \in Seq(Kinds)
    BY <1>2
  <2> QED
    BY <1>1, <2>1, MakeType DEF IInv, TypeOK
<1>8. Told'
  BY <1>1, <1>2, <1>5, <1>6 DEF IInv, Told, AddsUp
<1> QED
  BY <1>4, <1>6, <1>7, <1>8 DEF IInv

LEMMA ToolStep == ASSUME IInv, Tool PROVE IInv'
<1>1. Make(<<"tool">>) /\ GoesOn /\ visible' = TRUE /\ toolCalls' = TRUE /\ UNCHANGED reasoned
  BY DEF Tool
<1>2. "tool" \in Kinds /\ "tool" \notin Ends /\ "tool" \in Visible /\ "tool" \notin Finishes
  BY DEF Kinds, Streamable, Visible, Ends, Finishes
<1>3. attempt \in 0..1
  BY DEF IInv, TypeOK
<1>4. /\ Line = out /\ Line \in Seq(Item) /\ Whole'
      /\ Line' = Line \o <<[kind |-> "tool", attempt |-> attempt]>>
  BY <1>1, <1>2, MakeOne
<1>5. AddsUp(Line, "tool", attempt, Line')
  BY <1>2, <1>3, <1>4, Added
<1>6. Shape' /\ upstream = "open" /\ upstream' = "open" /\ attempt' = attempt
  BY <1>1, <1>2, <1>4, Finishing, GoesOnShape DEF Streamable
<1>7. TypeOK'
  <2>1. <<"tool">> \in Seq(Kinds)
    BY <1>2
  <2> QED
    BY <1>1, <2>1, MakeType DEF IInv, TypeOK
<1>8. Told'
  BY <1>1, <1>2, <1>5, <1>6 DEF IInv, Told, AddsUp
<1> QED
  BY <1>4, <1>6, <1>7, <1>8 DEF IInv

LEMMA FinishStep == ASSUME IInv, NEW reason \in Reasons, Finish(reason) PROVE IInv'
<1> DEFINE c == FinishChunk(reason)
<1>1. visible /\ Make(<<c>>) /\ GoesOn /\ UNCHANGED <<visible, reasoned, toolCalls>>
  BY DEF Finish
<1>2. c \in Finishes /\ (c # "echoedFinish" => (c = "toolFinish" <=> toolCalls))
  BY DEF Finishes, FinishChunk
<1> HIDE DEF c
<1>3. c \in Kinds /\ c \notin Ends /\ c \notin Visible /\ c # "tool"
  BY <1>2 DEF Kinds, Streamable, Visible, Ends, Finishes
<1>4. attempt \in 0..1
  BY DEF IInv, TypeOK
<1>5. /\ Line = out /\ Line \in Seq(Item) /\ Whole'
      /\ Line' = Line \o <<[kind |-> c, attempt |-> attempt]>>
  BY <1>1, <1>3, MakeOne
<1>6. AddsUp(Line, c, attempt, Line')
  BY <1>3, <1>4, <1>5, Added
<1>7. Shape' /\ upstream = "open" /\ upstream' = "open" /\ attempt' = attempt
  <2>1. <<c>> \in OpenChunks /\ <<c>> \notin Fallbacks
    BY <1>2, Finishing
  <2> QED
    BY <1>1, <1>5, <2>1, GoesOnShape
<1>8. TypeOK'
  <2>1. <<c>> \in Seq(Kinds)
    BY <1>3
  <2> QED
    BY <1>1, <2>1, MakeType DEF IInv, TypeOK
<1>9. Told'
  <2>1. /\ Has(Line, Visible, attempt)
        /\ c # "echoedFinish" => (c = "toolFinish" <=> Has(Line, {"tool"}, attempt))
    BY <1>1, <1>2 DEF IInv, Told
  <2> QED
    BY <1>1, <1>2, <1>3, <1>6, <1>7, <2>1 DEF IInv, Told, AddsUp
<1> QED
  BY <1>5, <1>7, <1>8, <1>9 DEF IInv

LEMMA FinishReasoningOnlyStep ==
    ASSUME IInv, NEW reason \in Reasons, FinishReasoningOnly(reason) PROVE IInv'
<1> DEFINE c == FinishChunk(reason)
<1>1. /\ ~visible /\ ~tools /\ Make(<<"fallback", c>>) /\ GoesOn
      /\ visible' = TRUE /\ UNCHANGED <<reasoned, toolCalls>>
  BY DEF FinishReasoningOnly
<1>10. ~toolCalls
  BY <1>1, ToolIsVisible DEF IInv, Told
<1>11. c \in Finishes /\ c # "toolFinish"
  BY <1>10 DEF Finishes, FinishChunk
<1> HIDE DEF c
<1>2. /\ "fallback" \in Kinds /\ "fallback" \notin Ends /\ "fallback" \in Visible
      /\ "fallback" \notin Finishes
      /\ c \in Kinds /\ c \notin Ends /\ c \notin Visible /\ c # "tool"
  BY <1>11 DEF Kinds, Streamable, Visible, Ends, Finishes
<1>3. attempt \in 0..1
  BY DEF IInv, TypeOK
<1> DEFINE m == Line \o <<[kind |-> "fallback", attempt |-> attempt]>>
<1>4. /\ Line = out /\ Line \in Seq(Item) /\ Whole'
      /\ Line' = m \o <<[kind |-> c, attempt |-> attempt]>>
  BY <1>1, <1>2, MakeTwo
<1>5. AddsUp(Line, "fallback", attempt, m)
  BY <1>2, <1>3, <1>4, Added
<1> HIDE DEF m
<1>6. AddsUp(m, c, attempt, Line')
  <2>1. m \in Seq(Item)
    BY <1>5 DEF AddsUp
  <2> QED
    BY <1>2, <1>3, <1>4, <2>1, Added
<1>7. Shape' /\ upstream = "open" /\ upstream' = "open" /\ attempt' = attempt
  <2>1. /\ <<"fallback", c>> \in OpenChunks
        /\ <<"fallback", c>> \notin FinishAlone
    BY <1>11, Finishing
  <2> QED
    BY <1>1, <1>4, <2>1, GoesOnShape
<1>8. TypeOK'
  <2>1. <<"fallback", c>> \in Seq(Kinds)
    BY <1>2
  <2> QED
    BY <1>1, <2>1, MakeType DEF IInv, TypeOK
<1>9. Told'
  <2>1. ~Has(Line, {"tool"}, attempt)
    BY <1>1, ToolIsVisible DEF IInv, Told
  <2>2. /\ Open(m) /\ Truthful(m) /\ Has(m, Visible, attempt)
        /\ ~Has(m, {"tool"}, attempt)
    BY <1>2, <1>5, <1>7, <2>1 DEF IInv, Told, AddsUp
  <2> QED
    BY <1>1, <1>2, <1>6, <1>7, <1>10, <1>11, <2>2 DEF Told, AddsUp
<1> QED
  BY <1>4, <1>7, <1>8, <1>9 DEF IInv

\* An error and the end of the stream.
LEMMA FailedStep ==
    ASSUME IInv, NEW c \in {"emptyError", "error"}, Make(<<c, "done">>), Leaves,
           UNCHANGED <<visible, reasoned, toolCalls>>
    PROVE  IInv'
<1>1. /\ c \in Kinds /\ c \in Ends /\ c \notin Visible /\ c \notin Finishes /\ c # "tool"
      /\ "done" \in Kinds /\ "done" \notin Visible /\ "done" \notin Finishes
  BY DEF Kinds, Streamable, Visible, Ends, Finishes
<1>2. attempt \in 0..1
  BY DEF IInv, TypeOK
<1> DEFINE m == Line \o <<[kind |-> c, attempt |-> attempt]>>
<1>3. /\ Line = out /\ Line \in Seq(Item) /\ Whole'
      /\ Line' = m \o <<[kind |-> "done", attempt |-> attempt]>>
  BY <1>1, MakeTwo
<1>4. AddsUp(Line, c, attempt, m)
  BY <1>1, <1>2, <1>3, Added
<1> HIDE DEF m
<1>5. AddsUp(m, "done", attempt, Line')
  <2>1. m \in Seq(Item)
    BY <1>4 DEF AddsUp
  <2> QED
    BY <1>1, <1>2, <1>3, <2>1, Added
<1>6. Shape' /\ upstream = "open" /\ upstream' = "closed" /\ attempt' = attempt
  <2>1. <<c, "done">> \in LastChunks
    BY DEF LastChunks
  <2> QED
    BY <1>3, <2>1, LeavesShape
<1>7. TypeOK'
  <2>1. <<c, "done">> \in Seq(Kinds)
    BY <1>1
  <2> QED
    BY <2>1, MakeType DEF IInv, TypeOK
<1>8. Told'
  <2>1. /\ FailedLast(m) /\ Truthful(m)
        /\ Has(m, Visible, attempt) <=> visible
        /\ Has(m, {"tool"}, attempt) <=> toolCalls
    BY <1>1, <1>4, <1>6 DEF IInv, Told, AddsUp
  <2> QED
    BY <1>1, <1>5, <1>6, <2>1 DEF Told, AddsUp
<1> QED
  BY <1>3, <1>6, <1>7, <1>8 DEF IInv

LEMMA EndStep == ASSUME IInv, End PROVE IInv'
<1>1. Make(<<"done">>) /\ Leaves /\ UNCHANGED <<visible, reasoned, toolCalls>>
  BY DEF End
<1>2. "done" \in Kinds /\ "done" \notin Visible /\ "done" \notin Finishes
  BY DEF Kinds, Streamable, Visible, Ends, Finishes
<1>3. attempt \in 0..1
  BY DEF IInv, TypeOK
<1>4. /\ Line = out /\ Line \in Seq(Item) /\ Whole'
      /\ Line' = Line \o <<[kind |-> "done", attempt |-> attempt]>>
  BY <1>1, <1>2, MakeOne
<1>5. AddsUp(Line, "done", attempt, Line')
  BY <1>2, <1>3, <1>4, Added
<1>6. Shape' /\ upstream = "open" /\ upstream' = "closed" /\ attempt' = attempt
  BY <1>1, <1>4, LeavesShape
<1>7. TypeOK'
  <2>1. <<"done">> \in Seq(Kinds)
    BY <1>2
  <2> QED
    BY <1>1, <2>1, MakeType DEF IInv, TypeOK
<1>8. Told'
  BY <1>1, <1>2, <1>5, <1>6 DEF IInv, Told, AddsUp
<1> QED
  BY <1>4, <1>6, <1>7, <1>8 DEF IInv

LEMMA UpstreamStep == ASSUME IInv, Upstream PROVE IInv'
<1>1. CASE FinishEmpty
  BY <1>1, FailedStep DEF FinishEmpty
<1>2. ASSUME NEW text \in ErrorTexts, Error(text) PROVE IInv'
  <2>1. text \in {"emptyError", "error"}
    OBVIOUS
  <2> QED
    BY <1>2, <2>1, FailedStep DEF Error
<1> QED
  BY <1>1, <1>2, TextStep, ReasoningStep, ToolStep, FinishStep, FinishReasoningOnlyStep, EndStep
     DEF Upstream, Stops

-----------------------------------------------------------------------------
(* Steps of the delivery *)

LEMMA SentInParts ==
    ASSUME NEW o \in Seq(Item), NEW s \in Seq(Kinds), NEW r \in Seq(Kinds), NEW a \in 0..1
    PROVE  (o \o Tagged(s, a)) \o Tagged(r, a) = o \o Tagged(s \o r, a)
<1>1. Tagged(s, a) \in Seq(Item) /\ Tagged(r, a) \in Seq(Item)
  BY TaggedType
<1>2. (o \o Tagged(s, a)) \o Tagged(r, a) = o \o (Tagged(s, a) \o Tagged(r, a))
  BY <1>1, ConcatAssociative
<1> QED
  BY <1>2, TaggedConcat

\* Chunks that go from the translator or the buffer to the client stay in line.
LEMMA Moved ==
    ASSUME TypeOK, NEW s \in Seq(Kinds), NEW r \in Seq(Kinds),
           buffer \o chunks = s \o r, buffer' \o chunks' = r,
           out' = out \o Tagged(s, attempt), attempt' = attempt
    PROVE  Line' = Line
<1>1. attempt \in 0..1 /\ out \in Seq(Item)
  BY DEF TypeOK, Item
<1>2. Line' = (out \o Tagged(s, attempt)) \o Tagged(r, attempt)
  BY DEF Line
<1>3. Line = out \o Tagged(s \o r, attempt)
  BY DEF Line
<1> QED
  BY <1>1, <1>2, <1>3, SentInParts

LEMMA LineKept ==
    ASSUME IInv, Line' = Line, UNCHANGED <<attempt, made, upstream, visible, toolCalls>>
    PROVE  Told' /\ Whole'
<1>1. Told'
  BY DEF IInv, Told
<1>2. Whole'
  BY DEF IInv, Whole
<1> QED
  BY <1>1, <1>2

\* The chunk consumed, and what it leaves.
LEMMA Consumed ==
    ASSUME IInv, NEW c \in Kinds, Consume(c)
    PROVE  /\ over = "no" /\ UNCHANGED <<tools, attempt, translator, made, over>>
           /\ chunks = <<c>> \o chunks' /\ chunks' \in Seq(Kinds)
           /\ \/ /\ upstream = "open" /\ buffer = <<>> /\ c \in Streamable \cup Finishes
                 /\ chunks' = <<>> \/ (chunks' \in FinishAlone /\ ~tools)
              \/ /\ upstream = "closed" /\ buffer = <<>> /\ Open(out)
                 /\ c \in {"emptyError", "error"} /\ chunks' = <<"done">>
                 /\ chunks = <<c, "done">>
              \/ /\ upstream = "closed" /\ buffer \in {<<>>, <<"error">>}
                 /\ c = "done" /\ chunks' = <<>>
           /\ Watching /\ ~flushed => c \notin Finishes
<1>1. /\ over = "no" /\ chunks # <<>> /\ c = Head(chunks) /\ chunks' = Tail(chunks)
      /\ UNCHANGED <<tools, attempt, translator, made, over>>
  BY DEF Consume
<1>2. chunks \in Seq(Kinds) /\ upstream \in {"open", "closed"} /\ tools \in BOOLEAN
  BY DEF IInv, TypeOK
<1>3. chunks = <<c>> \o chunks' /\ chunks' \in Seq(Kinds)
  <2>1. Tail(chunks) \in Seq(Kinds)
    BY <1>1, <1>2, HeadTailProperties
  <2>2. chunks = <<Head(chunks)>> \o Tail(chunks)
    BY <1>1, <1>2, HeadAndTail
  <2> QED
    BY <1>1, <2>1, <2>2
<1>4. CASE upstream = "open"
  <2>1. buffer = <<>> /\ chunks \in OpenChunks /\ (tools => chunks \notin Fallbacks)
    BY <1>4 DEF IInv, Shape
  <2>2. \/ c \in Streamable \cup Finishes /\ chunks' = <<>> /\ chunks = <<c>>
        \/ c = "fallback" /\ chunks' \in FinishAlone /\ ~tools
    <3>1. CASE chunks \in Fallbacks
      BY <1>1, <2>1, <3>1, Finishing
    <3>2. ASSUME NEW k \in Streamable \cup Finishes, chunks = <<k>>
          PROVE  c \in Streamable \cup Finishes /\ chunks' = <<>> /\ chunks = <<c>>
      BY <1>1, <3>2, Heads
    <3> QED
      BY <1>1, <2>1, <3>1, <3>2 DEF OpenChunks
  <2>3. Watching /\ ~flushed => c \notin Finishes
    <3>1. Watching /\ ~flushed => chunks \notin FinishAlone /\ tools
      BY <1>1 DEF IInv, Shape, Watching
    <3>2. CASE chunks = <<c>>
      BY <3>1, <3>2, Finishing
    <3>3. CASE c = "fallback"
      BY <3>3 DEF Finishes
    <3> QED
      BY <2>2, <3>2, <3>3
  <2>4. c \in Streamable \cup Finishes
    BY <2>2 DEF Streamable, Visible
  <2> QED
    BY <1>1, <1>3, <1>4, <2>1, <2>2, <2>3, <2>4
<1>5. CASE upstream = "closed"
  <2>1. \/ buffer = <<>> /\ chunks \in LastChunks /\ Open(out)
        \/ buffer \in {<<>>, <<"error">>} /\ chunks = <<"done">>
    BY <1>1, <1>5 DEF IInv, Shape
  <2>2. CASE buffer = <<>> /\ chunks \in LastChunks /\ Open(out)
    <3>1. PICK k \in {"emptyError", "error"} : chunks = <<k, "done">>
      BY <2>2 DEF LastChunks
    <3>2. c = k /\ chunks' = <<"done">>
      BY <1>1, <3>1, Heads
    <3> QED
      BY <1>1, <1>3, <1>5, <2>2, <3>1, <3>2 DEF Finishes
  <2>3. CASE buffer \in {<<>>, <<"error">>} /\ chunks = <<"done">>
    <3>1. c = "done" /\ chunks' = <<>>
      BY <1>1, <2>3, Heads
    <3> QED
      BY <1>1, <1>3, <1>5, <2>3, <3>1 DEF Finishes
  <2> QED
    BY <2>1, <2>2, <2>3
<1> QED
  BY <1>2, <1>4, <1>5

\* The chunk c goes to the client, alone.
LEMMA SentOn ==
    ASSUME IInv, NEW c \in Kinds, Consume(c), buffer = <<>>, buffer' = <<>>,
           out' = out \o Tagged(<<c>>, attempt),
           flushed' \in BOOLEAN, visibleSeen' \in BOOLEAN
    PROVE  TypeOK' /\ Told' /\ Whole' /\ AddsUp(out, c, attempt, out')
<1>1. /\ over = "no" /\ UNCHANGED <<tools, attempt, translator, made, over>>
      /\ chunks = <<c>> \o chunks' /\ chunks' \in Seq(Kinds)
  BY Consumed
<1>2. attempt \in 0..1 /\ out \in Seq(Item) /\ chunks \in Seq(Kinds)
  BY DEF IInv, TypeOK, Item
<1>3. Line' = Line
  <2>1. <<>> \o chunks = chunks /\ <<>> \o chunks' = chunks'
    BY <1>1, <1>2, ConcatEmptySeq
  <2>2. buffer \o chunks = <<c>> \o chunks' /\ buffer' \o chunks' = chunks'
    BY <1>1, <2>1
  <2>3. <<c>> \in Seq(Kinds)
    OBVIOUS
  <2> QED
    BY <1>1, <2>2, <2>3, Moved DEF IInv
<1>4. AddsUp(out, c, attempt, out')
  <2>1. out' = out \o <<[kind |-> c, attempt |-> attempt]>>
    BY OneTagged
  <2> QED
    BY <1>2, <2>1, Added
<1>5. TypeOK'
  <2>1. out' \in Seq(Item)
    BY <1>4 DEF AddsUp
  <2> QED
    BY <1>1, <2>1 DEF IInv, TypeOK, translator, Item
<1> QED
  BY <1>1, <1>3, <1>4, <1>5, LineKept DEF translator

LEMMA PassStep == ASSUME IInv, NEW c \in Kinds, Pass(c) PROVE IInv'
<1>1. /\ Watching => flushed /\ (visibleSeen \/ c # "emptyError")
      /\ Consume(c) /\ out' = out \o Tagged(<<c>>, attempt)
      /\ UNCHANGED <<buffer, flushed, visibleSeen>>
  BY DEF Pass, Yield, detector
<1>2. buffer = <<>>
  BY <1>1 DEF IInv, Shape
<1>3. TypeOK' /\ Told' /\ Whole' /\ AddsUp(out, c, attempt, out')
  BY <1>1, <1>2, SentOn DEF IInv, TypeOK
<1>4. /\ over = "no" /\ UNCHANGED <<tools, attempt, upstream, over>>
      /\ \/ /\ upstream = "open" /\ c \in Streamable \cup Finishes
            /\ chunks' = <<>> \/ (chunks' \in FinishAlone /\ ~tools)
         \/ upstream = "closed" /\ chunks' \in {<<>>, <<"done">>}
  BY <1>1, Consumed DEF translator
<1>5. ~(Watching /\ ~flushed)'
  BY <1>1, <1>4 DEF Watching
<1>6. (visibleSeen => Has(out, Visible, 0))'
  BY <1>1, <1>3 DEF IInv, Shape, AddsUp
<1>7. (tools => Hidden(out))'
  <2>1. tools /\ c = "emptyError" /\ attempt = 0 => Has(out, Visible, 0)
    BY <1>1 DEF IInv, Shape, Watching
  <2> QED
    BY <1>3, <1>4, <2>1 DEF IInv, Shape, AddsUp
<1>8. Shape'
  <2>1. chunks' \notin Fallbacks /\ (chunks' \in FinishAlone => chunks' \in OpenChunks)
    <3>1. chunks' \in FinishAlone \cup {<<>>, <<"done">>}
      BY <1>4
    <3>2. FinishAlone \subseteq OpenChunks
      BY Finishing DEF FinishAlone
    <3> QED
      BY <3>1, <3>2, Finishing
  <2> QED
    BY <1>1, <1>2, <1>4, <1>5, <1>6, <1>7, <2>1 DEF Shape, OpenChunks
<1> QED
  BY <1>3, <1>8 DEF IInv

LEMMA FlushStep == ASSUME IInv, NEW c \in Kinds, Flush(c) PROVE IInv'
<1>1. /\ Watching /\ ~flushed /\ c \in Streamable
      /\ Consume(c) /\ out' = out \o Tagged(Append(buffer, c), attempt)
      /\ flushed' = TRUE /\ buffer' = <<>> /\ visibleSeen' = (c \in Visible)
  BY DEF Flush, Yield
<1>2. c \notin {"emptyError", "error", "done"}
  BY <1>1 DEF Streamable, Visible
<1>3. /\ over = "no" /\ UNCHANGED <<tools, attempt, upstream, over>>
      /\ upstream = "open" /\ buffer = <<>>
      /\ chunks' = <<>> \/ (chunks' \in FinishAlone /\ ~tools)
  BY <1>1, <1>2, Consumed DEF translator
<1>4. out' = out \o Tagged(<<c>>, attempt)
  <2>1. Append(<<>>, c) = <<c>>
    OBVIOUS
  <2> QED
    BY <1>1, <1>3, <2>1
<1>5. TypeOK' /\ Told' /\ Whole' /\ AddsUp(out, c, attempt, out')
  <2>1. flushed' \in BOOLEAN /\ visibleSeen' \in BOOLEAN
    BY <1>1
  <2>2. Consume(c) /\ buffer' = <<>>
    BY <1>1
  <2> QED
    BY <1>3, <1>4, <2>1, <2>2, SentOn
<1>6. (visibleSeen => Has(out, Visible, 0))'
  BY <1>1, <1>5 DEF AddsUp, Watching
<1>7. (tools => Hidden(out))'
  BY <1>2, <1>3, <1>5 DEF IInv, Shape, AddsUp
<1>8. Shape'
  <2>1. chunks' = <<>> /\ chunks' \notin Fallbacks
    BY <1>1, <1>3, Finishing DEF Watching
  <2> QED
    BY <1>1, <1>3, <1>6, <1>7, <2>1 DEF Shape, OpenChunks
<1> QED
  BY <1>5, <1>8 DEF IInv

LEMMA WithholdStep == ASSUME IInv, NEW c \in Kinds, Withhold(c) PROVE IInv'
<1>1. /\ Watching /\ ~flushed /\ c \notin Streamable \cup {"emptyError"}
      /\ Consume(c) /\ buffer' = Append(buffer, c)
      /\ UNCHANGED <<flushed, visibleSeen, out>>
  BY DEF Withhold
<1>2. /\ over = "no" /\ UNCHANGED <<tools, attempt, translator, made, over>>
      /\ chunks = <<c>> \o chunks' /\ chunks' \in Seq(Kinds)
      /\ \/ /\ upstream = "closed" /\ buffer = <<>> /\ c = "error" /\ chunks' = <<"done">>
         \/ /\ upstream = "closed" /\ buffer \in {<<>>, <<"error">>}
            /\ c = "done" /\ chunks' = <<>>
  BY <1>1, Consumed
<1>3. attempt \in 0..1 /\ out \in Seq(Item) /\ chunks \in Seq(Kinds) /\ buffer \in Seq(Kinds)
  BY DEF IInv, TypeOK, Item
<1>4. buffer' \in Seq(Kinds) /\ buffer' = buffer \o <<c>>
  BY <1>1, <1>3, AppendProperties, AppendIsConcat
<1>5. Line' = Line
  <2> DEFINE r == buffer' \o chunks'
  <2>1. r \in Seq(Kinds)
    BY <1>2, <1>4, ConcatProperties
  <2>2. buffer \o chunks = r
    <3>1. <<c>> \in Seq(Kinds)
      OBVIOUS
    <3>2. (buffer \o <<c>>) \o chunks' = buffer \o (<<c>> \o chunks')
      BY <1>2, <1>3, <3>1, ConcatAssociative
    <3> QED
      BY <1>2, <1>4, <3>2
  <2>3. buffer' \o chunks' = r
    OBVIOUS
  <2> HIDE DEF r
  <2>4. <<>> \o r = r /\ out \o Tagged(<<>>, attempt) = out /\ <<>> \in Seq(Kinds)
    BY <1>3, <2>1, NothingTagged, ConcatEmptySeq
  <2>5. /\ buffer \o chunks = <<>> \o r
        /\ out' = out \o Tagged(<<>>, attempt)
    BY <1>1, <2>2, <2>4
  <2> QED
    BY <1>2, <2>1, <2>3, <2>4, <2>5, Moved DEF IInv
<1>6. Told' /\ Whole'
  BY <1>2, <1>5, LineKept DEF translator
<1>7. TypeOK'
  BY <1>1, <1>2, <1>4 DEF IInv, TypeOK, translator
<1>8. buffer' \in {<<"error">>, <<"done">>, <<"error", "done">>}
  <2>1. /\ Append(<<>>, "error") = <<"error">> /\ Append(<<>>, "done") = <<"done">>
        /\ Append(<<"error">>, "done") = <<"error", "done">>
    BY Heads
  <2> QED
    BY <1>1, <1>2, <2>1
<1>9. Shape'
  <2>1. (Watching <=> Watching') /\ Watching
    BY <1>1, <1>2 DEF Watching
  <2>2. chunks' \notin FinishAlone \cup Fallbacks
    BY <1>2, Finishing DEF Finishes
  <2>3. \/ buffer' \in {<<>>, <<"error">>} /\ chunks' = <<"done">>
        \/ buffer' \in {<<>>, <<"done">>, <<"error", "done">>} /\ chunks' = <<>>
    <3>1. CASE buffer = <<>> /\ c = "error" /\ chunks' = <<"done">>
      BY <1>1, <3>1
    <3>2. CASE buffer \in {<<>>, <<"error">>} /\ c = "done" /\ chunks' = <<>>
      <4>1. /\ Append(<<>>, "done") = <<"done">>
            /\ Append(<<"error">>, "done") = <<"error", "done">>
        BY Heads
      <4> QED
        BY <1>1, <3>2, <4>1
    <3> QED
      BY <1>2, <3>1, <3>2
  <2>4. /\ upstream' = "closed" /\ over' = "no" /\ ~visibleSeen'
        /\ out' = <<>> /\ out' = out /\ tools' = tools /\ ~flushed'
    BY <1>1, <1>2 DEF IInv, Shape, translator
  <2> QED
    BY <2>1, <2>2, <2>3, <2>4 DEF IInv, Shape
<1> QED
  BY <1>6, <1>7, <1>9 DEF IInv

LEMMA ReturnStep == ASSUME IInv, Return PROVE IInv'
<1>1. /\ over = "no" /\ chunks = <<>> /\ upstream = "closed"
      /\ out' = out \o Tagged(buffer, attempt) /\ buffer' = <<>> /\ over' = "returned"
      /\ UNCHANGED <<tools, attempt, translator, chunks, flushed, visibleSeen, made>>
  BY DEF Return, Yield
<1>2. attempt \in 0..1 /\ out \in Seq(Item) /\ buffer \in Seq(Kinds) /\ <<>> \in Seq(Kinds)
  BY EmptySeq DEF IInv, TypeOK, Item
<1>3. buffer \in {<<>>, <<"done">>, <<"error", "done">>}
  <2>1. <<"done">> # <<>> /\ \A k \in {"emptyError", "error"} : <<k, "done">> # <<>>
    BY Heads
  <2> QED
    BY <1>1, <2>1 DEF IInv, Shape, LastChunks
<1>4. Line' = Line
  <2>1. buffer \o chunks = buffer \o <<>> /\ buffer' \o chunks' = <<>>
    BY <1>1, <1>2, ConcatEmptySeq
  <2> QED
    BY <1>1, <1>2, <2>1, Moved DEF IInv
<1>5. Told' /\ Whole'
  BY <1>1, <1>4, LineKept DEF translator
<1>6. out' \in Seq(Item)
  <2>1. Tagged(buffer, attempt) \in Seq(Item)
    BY <1>2, TaggedType
  <2> QED
    BY <1>1, <1>2, <2>1, ConcatProperties
<1>7. TypeOK'
  BY <1>1, <1>2, <1>6 DEF IInv, TypeOK, translator, Item
<1>8. /\ Has(out, Visible, 0) => Has(out', Visible, 0)
      /\ Hidden(out) => Hidden(out')
  <2>1. CASE buffer = <<>>
    <3>1. out' = out
      BY <1>1, <1>2, <2>1, NothingTagged, ConcatEmptySeq
    <3> QED
      BY <3>1
  <2>2. CASE buffer = <<"done">>
    <3>1. out' = out \o <<[kind |-> "done", attempt |-> attempt]>>
      BY <1>1, <2>2, OneTagged
    <3>2. AddsUp(out, "done", attempt, out')
      BY <1>2, <3>1, Added DEF Kinds
    <3> QED
      BY <3>2 DEF AddsUp
  <2>3. CASE buffer = <<"error", "done">>
    <3> DEFINE m == out \o <<[kind |-> "error", attempt |-> attempt]>>
               first == <<"error">>
               second == <<"done">>
    <3>1. /\ buffer = first \o second
          /\ first \in Seq(Kinds) /\ second \in Seq(Kinds)
      <4>1. "error" \in Kinds /\ "done" \in Kinds
        BY DEF Kinds
      <4> QED
        BY <2>3, <4>1, Heads
    <3>2. /\ Tagged(first, attempt) = <<[kind |-> "error", attempt |-> attempt]>>
          /\ Tagged(second, attempt) = <<[kind |-> "done", attempt |-> attempt]>>
      BY OneTagged
    <3>3. AddsUp(out, "error", attempt, m)
      BY <1>2, Added DEF Kinds
    <3> HIDE DEF first, second
    <3>4. out' = (out \o Tagged(first, attempt)) \o Tagged(second, attempt)
      BY <1>1, <1>2, <3>1, SentInParts
    <3>5. out' = m \o <<[kind |-> "done", attempt |-> attempt]>>
      BY <3>2, <3>4
    <3> HIDE DEF m
    <3>6. AddsUp(m, "done", attempt, out')
      <4>1. m \in Seq(Item)
        BY <3>3 DEF AddsUp
      <4> QED
        BY <1>2, <3>5, <4>1, Added DEF Kinds
    <3> QED
      BY <3>3, <3>6 DEF AddsUp
  <2> QED
    BY <1>3, <2>1, <2>2, <2>3
<1>9. Shape'
  <2>1. <<>> \notin Fallbacks /\ <<>> \in OpenChunks
    BY Finishing
  <2> QED
    BY <1>1, <1>8, <2>1 DEF IInv, Shape, translator
<1> QED
  BY <1>5, <1>7, <1>9 DEF IInv

LEMMA RetryStep == ASSUME IInv, NEW c \in Kinds, Retry(c) PROVE IInv'
<1>1. /\ Watching /\ c = "emptyError" /\ ~visibleSeen
      /\ over = "no" /\ chunks # <<>> /\ c = Head(chunks)
      /\ out' = out \o Tagged(WithoutEnd(buffer), attempt)
      /\ chunks' = <<>> /\ buffer' = <<>> /\ attempt' = attempt + 1
      /\ upstream' = "open" /\ events' = 0
      /\ visible' = FALSE /\ reasoned' = FALSE /\ toolCalls' = FALSE
      /\ UNCHANGED <<tools, flushed, visibleSeen, made, over>>
  BY DEF Retry, Yield
<1>2. attempt = 0 /\ attempt' = 1
  BY <1>1 DEF Watching
<1>3. out \in Seq(Item) /\ <<>> \in Seq(Kinds) /\ made \in [0..1 -> Seq(Kinds)]
  BY EmptySeq DEF IInv, TypeOK, Item
<1> DEFINE ends == <<"emptyError", "done">>
<1>4. buffer = <<>> /\ Open(out) /\ chunks = ends /\ upstream = "closed"
  <2>1. upstream # "open"
    <3> SUFFICES ASSUME upstream = "open" PROVE FALSE
      OBVIOUS
    <3>1. chunks \in OpenChunks
      BY DEF IInv, Shape
    <3>2. CASE chunks \in Fallbacks
      BY <1>1, <3>2, Finishing
    <3>3. ASSUME NEW k \in Streamable \cup Finishes, chunks = <<k>> PROVE FALSE
      <4>1. k # "emptyError"
        BY DEF Streamable, Visible, Finishes
      <4> QED
        BY <1>1, <3>3, <4>1, Heads
    <3> QED
      BY <1>1, <3>1, <3>2, <3>3 DEF OpenChunks
  <2>2. upstream = "closed"
    BY <2>1 DEF IInv, TypeOK
  <2>3. chunks # <<"done">> /\ chunks # <<"error", "done">>
    BY <1>1, Heads
  <2> QED
    BY <1>1, <2>2, <2>3 DEF IInv, Shape, LastChunks
<1>5. out' = out
  BY <1>1, <1>3, <1>4, NothingWithoutEnd, NothingTagged, ConcatEmptySeq
<1>6. Line' = out
  <2>1. <<>> \o <<>> = <<>>
    BY <1>3, ConcatEmptySeq
  <2>2. Line' = out \o Tagged(<<>>, attempt')
    BY <1>1, <1>5, <2>1 DEF Line
  <2> QED
    BY <1>3, <2>2, NothingTagged, ConcatEmptySeq
<1>7. ends \in Seq(Kinds)
  <2>1. "emptyError" \in Kinds /\ "done" \in Kinds
    BY DEF Kinds
  <2> QED
    BY <2>1
<1> HIDE DEF ends
<1>8. Line = out \o Tagged(ends, 0)
  <2>1. <<>> \o ends = ends
    BY <1>7, ConcatEmptySeq
  <2> QED
    BY <1>2, <1>4, <2>1 DEF Line
<1>9. PICK s \in Seq(Kinds) : out = Tagged(s, 0) /\ made[0] = s \o ends
  <2> DEFINE m == made[0]
  <2>1. out \o Tagged(ends, attempt) = Tagged(m, attempt) /\ m \in Seq(Kinds) /\ attempt \in 0..1
    BY <1>2, <1>3, <1>8 DEF IInv, Whole
  <2> HIDE DEF m
  <2>2. IsFirst(out, m, ends, attempt)
    BY <1>3, <1>7, <2>1, Split
  <2> QED
    BY <1>2, <2>2 DEF m, IsFirst
<1>10. \A kinds : ~Has(out, kinds, 1)
  <2>1. \A i \in DOMAIN Tagged(s, 0) : Tagged(s, 0)[i].attempt = 0
    BY DEF Tagged
  <2>2. \A i \in DOMAIN out : out[i].attempt = 0
    BY <1>9, <2>1
  <2> QED
    BY <2>2 DEF Has
<1>11. Truthful(out)
  <2> DEFINE u == Tagged(ends, 0)
  <2>1. u \in Seq(Item)
    <3>1. 0 \in 0..1
      OBVIOUS
    <3> QED
      BY <1>7, <3>1, TaggedType
  <2>2. Truthful(out \o u)
    BY <1>8 DEF IInv, Told
  <2> HIDE DEF u
  <2> QED
    BY <1>3, <2>1, <2>2, Earlier
<1>12. TypeOK'
  <2>1. tools' \in BOOLEAN /\ attempt' \in 0..1
    BY <1>1, <1>2 DEF IInv, TypeOK
  <2>2. upstream' \in {"open", "closed"} /\ events' \in 0..MaxEvents
    BY <1>1
  <2>3. /\ visible' \in BOOLEAN /\ reasoned' \in BOOLEAN /\ toolCalls' \in BOOLEAN
        /\ flushed' \in BOOLEAN /\ visibleSeen' \in BOOLEAN
    BY <1>1 DEF IInv, TypeOK
  <2>4. chunks' \in Seq(Kinds) /\ buffer' \in Seq(Kinds) /\ out' \in Seq(Item)
    BY <1>1, <1>3, <1>5
  <2>5. made' \in [0..1 -> Seq(Kinds)] /\ over' \in {"no", "returned", "gone"}
    BY <1>1 DEF IInv, TypeOK
  <2> QED
    BY <2>1, <2>2, <2>3, <2>4, <2>5 DEF TypeOK, Item
<1>13. Told'
  BY <1>1, <1>2, <1>4, <1>6, <1>10, <1>11 DEF Told
<1>14. Whole'
  <2>1. made[1] = <<>>
    BY <1>2 DEF IInv, Whole
  <2>2. Line' = Tagged(s, 0) \o Tagged(made'[1], 1)
    BY <1>1, <1>3, <1>6, <1>9, <2>1, NothingTagged, ConcatEmptySeq
  <2>3. made'[0] = s \o <<"emptyError", "done">>
    BY <1>1, <1>9 DEF ends
  <2>4. attempt' = 1 /\ attempt' # 0
    BY <1>2
  <2> QED
    BY <2>2, <2>3, <2>4 DEF Whole
<1>15. Shape'
  <2>1. <<>> \notin Fallbacks /\ <<>> \in OpenChunks
    BY Finishing
  <2>2. ~Watching'
    BY <1>2 DEF Watching
  <2>3. tools => Hidden(out)
    BY DEF IInv, Shape
  <2> QED
    BY <1>1, <1>5, <2>1, <2>2, <2>3 DEF Shape, OpenChunks
<1> QED
  BY <1>12, <1>13, <1>14, <1>15 DEF IInv

LEMMA DisconnectStep == ASSUME IInv, Disconnect PROVE IInv'
<1>1. /\ over' = "gone"
      /\ UNCHANGED <<tools, attempt, translator, chunks, detector, out, made>>
  BY DEF Disconnect
<1>2. Line' = Line
  BY <1>1 DEF Line, detector
<1>3. Told' /\ Whole'
  BY <1>1, <1>2, LineKept DEF translator
<1>4. TypeOK'
  BY <1>1 DEF IInv, TypeOK, translator, detector
<1>5. Shape'
  BY <1>1 DEF IInv, Shape, Watching, translator, detector
<1> QED
  BY <1>3, <1>4, <1>5 DEF IInv

LEMMA StutteringStep == ASSUME IInv, UNCHANGED vars PROVE IInv'
<1>1. UNCHANGED <<tools, attempt, translator, chunks, detector, out, made, over>>
  BY DEF vars
<1>2. Line' = Line
  BY <1>1 DEF Line, detector
<1>3. Told' /\ Whole'
  BY <1>1, <1>2, LineKept DEF translator
<1>4. TypeOK'
  BY <1>1 DEF IInv, TypeOK, translator, detector
<1>5. Shape'
  BY <1>1 DEF IInv, Shape, Watching, translator, detector
<1> QED
  BY <1>3, <1>4, <1>5 DEF IInv

-----------------------------------------------------------------------------
(* What the invariant implies *)

LEMMA OutIsFirst ==
    ASSUME IInv
    PROVE  /\ Line \in Seq(Item) /\ out \in Seq(Item) /\ Truthful(out)
           /\ \A i \in DOMAIN out : i \in DOMAIN Line /\ Line[i] = out[i]
<1> DEFINE r == Tagged(buffer \o chunks, attempt)
<1>1. Line \in Seq(Item) /\ out \in Seq(Item) /\ Line = out \o r
  BY LineType DEF IInv, TypeOK, Item, Line
<1>2. r \in Seq(Item)
  <2>1. buffer \o chunks \in Seq(Kinds) /\ attempt \in 0..1
    BY ConcatProperties DEF IInv, TypeOK
  <2> QED
    BY <2>1, TaggedType
<1>3. Truthful(Line)
  BY DEF IInv, Told
<1> HIDE DEF r
<1>4. Truthful(out \o r)
  BY <1>1, <1>3
<1>5. \A i \in DOMAIN out : i \in DOMAIN (out \o r) /\ (out \o r)[i] = out[i]
  BY <1>1, <1>2, Earlier
<1>6. Truthful(out)
  BY <1>1, <1>2, <1>4, Earlier
<1> QED
  BY <1>1, <1>5, <1>6

LEMMA EndsOnce == IInv => OneDoneLast
<1> SUFFICES ASSUME IInv PROVE OneDoneLast
  OBVIOUS
<1>1. /\ Line \in Seq(Item) /\ out \in Seq(Item)
      /\ Len(Line) \in Nat /\ DOMAIN Line = 1..Len(Line)
      /\ \A i \in DOMAIN out : i \in DOMAIN Line /\ Line[i] = out[i]
  BY OutIsFirst, LenProperties
<1>2. upstream \in {"open", "closed"}
  BY DEF IInv, TypeOK
<1>3. ASSUME over = "returned" PROVE out # <<>> /\ Last(out).kind = "done"
  <2>1. upstream = "closed" /\ buffer = <<>> /\ chunks = <<>>
    BY <1>3 DEF IInv, Shape
  <2>2. Line = out
    <3>1. <<>> \o <<>> = <<>>
      BY EmptySeq, ConcatEmptySeq
    <3>2. Line = out \o Tagged(<<>>, attempt)
      BY <2>1, <3>1 DEF Line
    <3> QED
      BY <1>1, <3>2, NothingTagged, ConcatEmptySeq
  <2>3. Len(out) # 0 /\ out[Len(out)].kind = "done"
    BY <2>1, <2>2 DEF IInv, Told, DoneLast
  <2> QED
    BY <2>3, EmptySeq DEF Last
<1>4. ASSUME NEW i \in DOMAIN out, out[i].kind \in Ends
      PROVE  /\ out[i].kind = "done" => i = Len(out)
             /\ i = Len(out) \/ (i + 1 = Len(out) /\ out[i + 1].kind = "done")
  <2>1. /\ Len(out) \in Nat /\ DOMAIN out = 1..Len(out) /\ i \in 1..Len(out)
        /\ i \in 1..Len(Line) /\ Line[i] = out[i]
    BY <1>1, <1>4, LenProperties
  <2>2. upstream = "closed" /\ DoneLast(Line)
    BY <1>1, <1>2, <1>4, <2>1 DEF IInv, Told, Open
  <2>3. Len(out) <= Len(Line)
    <3>1. CASE Len(out) = 0
      BY <1>1, <3>1
    <3>2. CASE Len(out) # 0
      BY <1>1, <2>1, <3>2
    <3> QED
      BY <3>1, <3>2
  <2>4. i = Len(Line) \/ (i + 1 = Len(Line) /\ out[i].kind # "done")
    BY <1>1, <1>4, <2>1, <2>2 DEF DoneLast
  <2>5. CASE i = Len(Line)
    <3> DEFINE n == Len(out)
               m == Len(Line)
    <3>1. n \in Nat /\ m \in Nat /\ i \in 1..n /\ n <= m /\ i = m
      BY <1>1, <2>1, <2>3, <2>5
    <3> HIDE DEF n, m
    <3>2. i = n
      BY <3>1
    <3> QED
      BY <3>2 DEF n
  <2>6. CASE i + 1 = Len(Line) /\ out[i].kind # "done"
    <3>1. i = Len(out) \/ (i + 1 = Len(out) /\ i + 1 \in DOMAIN out)
      BY <1>1, <2>1, <2>3, <2>6
    <3>2. i + 1 \in DOMAIN out => out[i + 1].kind = "done"
      BY <1>1, <2>2, <2>6 DEF DoneLast
    <3> QED
      BY <2>6, <3>1, <3>2
  <2> QED
    BY <2>4, <2>5, <2>6
<1> QED
  BY <1>3, <1>4 DEF OneDoneLast, Ends

LEMMA HidesError == IInv => EmptyErrorHidden
<1> SUFFICES ASSUME IInv, tools, NEW i \in Sent({"emptyError"}, 0)
             PROVE  \E j \in Sent(Visible, 0) : j < i
  BY DEF EmptyErrorHidden
<1>1. Hidden(out)
  BY DEF IInv, Shape
<1> QED
  BY <1>1 DEF Hidden, HasBefore, Sent

LEMMA TellsTheTruth == IInv => FinishIsTruthful
<1> SUFFICES ASSUME IInv, NEW a \in 0..1, NEW i \in Sent(Finishes, a)
             PROVE  /\ \E j \in Sent(Visible, a) : j < i
                    /\ out[i].kind # "echoedFinish" =>
                           (out[i].kind = "toolFinish" <=> \E j \in Sent({"tool"}, a) : j < i)
  BY DEF FinishIsTruthful
<1>1. Truthful(out)
  BY OutIsFirst
<1>2. i \in DOMAIN out /\ out[i].kind \in Finishes /\ out[i].attempt = a
  BY DEF Sent
<1>3. /\ HasBefore(out, i, Visible, a)
      /\ out[i].kind # "echoedFinish" =>
            (out[i].kind = "toolFinish" <=> HasBefore(out, i, {"tool"}, a))
  BY <1>1, <1>2 DEF Truthful
<1>4. \A kinds : HasBefore(out, i, kinds, a) <=> \E j \in Sent(kinds, a) : j < i
  BY DEF HasBefore, Sent
<1> QED
  BY <1>3, <1>4

LEMMA KeepsAll == IInv => NothingLostOrReordered
<1> SUFFICES ASSUME IInv PROVE NothingLostOrReordered
  OBVIOUS
<1> DEFINE ends == <<"emptyError", "done">>
<1>1. attempt \in 0..1
  BY DEF IInv, TypeOK
<1>2. CASE attempt = 0
  BY <1>2 DEF IInv, Whole, NothingLostOrReordered, Line
<1>3. CASE attempt = 1
  <2>1. PICK s \in Seq(Kinds) :
            made[0] = s \o ends /\ Line = Tagged(s, 0) \o Tagged(made[1], 1)
    BY <1>3 DEF IInv, Whole
  <2> DEFINE m == s \o ends
             t == SubSeq(m, 1, Len(m) - 2)
  <2>2. ends \in Seq(Kinds) /\ Len(ends) = 2
    <3>1. "emptyError" \in Kinds /\ "done" \in Kinds
      BY DEF Kinds
    <3> QED
      BY <3>1
  <2> HIDE DEF ends
  <2>3. /\ m \in Seq(Kinds) /\ Len(m) = Len(s) + Len(ends) /\ Len(s) \in Nat
        /\ \A i \in 1..Len(s) + Len(ends) : m[i] = IF i <= Len(s) THEN s[i] ELSE ends[i - Len(s)]
    BY <2>2, ConcatProperties, LenProperties
  <2> HIDE DEF m
  <2>4. Len(m) - 2 = Len(s) /\ Len(s) \in Int /\ \A i \in 1..Len(s) : m[i] = s[i]
    BY <2>2, <2>3
  <2>5. t = s
    <3> DEFINE u == SubSeq(m, 1, Len(s))
    <3>1. \A i \in 1..Len(s) : m[i] \in Kinds
      BY <2>4, ElementOfSeq
    <3>2. /\ u \in Seq(Kinds) /\ Len(u) = (IF 1 <= Len(s) THEN Len(s) - 1 + 1 ELSE 0)
          /\ \A i \in 1..Len(s) - 1 + 1 : u[i] = m[1 + i - 1]
      BY <2>4, <3>1, SubSeqProperties
    <3> HIDE DEF u
    <3>3. Len(u) = Len(s) /\ \A i \in 1..Len(s) : u[i] = s[i]
      BY <2>3, <2>4, <3>2
    <3>4. u = s
      BY <3>2, <3>3, SeqEqual
    <3> QED
      BY <2>4, <3>4 DEF u
  <2> HIDE DEF t
  <2>6. made[0] = t \o ends /\ Line = Tagged(t, 0) \o Tagged(made[1], 1)
    BY <2>1, <2>5
  <2>7. t = SubSeq(made[0], 1, Len(made[0]) - 2)
    BY <2>1 DEF t, m
  <2>8. made[0] = SubSeq(made[0], 1, Len(made[0]) - 2) \o <<"emptyError", "done">>
    BY <2>6, <2>7 DEF ends
  <2>9. Line = Tagged(SubSeq(made[0], 1, Len(made[0]) - 2), 0) \o Tagged(made[1], 1)
    BY <2>6, <2>7
  <2>10. attempt # 0
    BY <1>3
  <2> QED
    BY <2>8, <2>9, <2>10 DEF NothingLostOrReordered, Line
<1> QED
  BY <1>1, <1>2, <1>3

-----------------------------------------------------------------------------
(* The theorems *)

\* The invariant holds of every stream: the chunks are where the code has them, the
\* line of what was sent and will be is made up as the translator made it, and the
\* translator's flags say what it holds.
THEOREM Invariance == Spec => []IInv
<1>1. Init => IInv
  BY Initially
<1>2. IInv /\ [Next]_vars => IInv'
  <2> SUFFICES ASSUME IInv, [Next]_vars PROVE IInv'
    OBVIOUS
  <2>1. CASE Upstream
    BY <2>1, UpstreamStep
  <2>2. ASSUME NEW c \in Kinds, Pass(c) \/ Flush(c) \/ Withhold(c) \/ Retry(c) PROVE IInv'
    BY <2>2, PassStep, FlushStep, WithholdStep, RetryStep
  <2>3. CASE Return
    BY <2>3, ReturnStep
  <2>4. CASE Disconnect
    BY <2>4, DisconnectStep
  <2>5. CASE UNCHANGED vars
    BY <2>5, StutteringStep
  <2> QED
    BY <2>1, <2>2, <2>3, <2>4, <2>5 DEF Next, Deliver
<1> QED
  BY <1>1, <1>2, PTL DEF Spec

\* Every variable stays in its type, however long the streams are.
THEOREM TypeCorrect == Spec => []TypeOK
<1>1. IInv => TypeOK
  BY DEF IInv
<1> QED
  BY <1>1, Invariance, PTL

\* A [DONE] is the last chunk of its stream, so there is one of them, and an error, of
\* which there is one at most, comes right before it.
THEOREM DoneEndsTheStream == Spec => []OneDoneLast
  BY EndsOnce, Invariance, PTL

\* The empty-response error of a request with tools stays hidden, or stands behind
\* visible output of the first attempt.
THEOREM FirstErrorHidden == Spec => []EmptyErrorHidden
  BY HidesError, Invariance, PTL

\* A finish chunk stands behind visible output, and says tool_calls exactly when the
\* upstream says so or its attempt has called a tool.
THEOREM FinishTellsTheTruth == Spec => []FinishIsTruthful
  BY TellsTheTruth, Invariance, PTL

\* Whatever is withheld, flushed and retried, nothing that was made is lost, doubled or
\* put out of order.
THEOREM AllIsDelivered == Spec => []NothingLostOrReordered
  BY KeepsAll, Invariance, PTL

=============================================================================
