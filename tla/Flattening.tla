------------------------------ MODULE Flattening ------------------------------
(***************************************************************************)
(* What FlattenSeq of the community modules does to a sequence of          *)
(* sequences: the facts that the proofs about a stream of bytes made of    *)
(* packets, and about a program made of routines, rest on.                 *)
(***************************************************************************)
EXTENDS SequencesExt, SequenceTheorems, WellFoundedInduction, TLAPS

\* A set of numbers that is not empty has a least one.
LEMMA LeastNumber ==
    ASSUME NEW S, S \subseteq Nat, S # {}
    PROVE  \E n \in S : \A m \in S : n <= m
<1>1. PICK n \in S : \A m \in S : ~ (<<m, n>> \in OpToRel(<, Nat))
  BY NatLessThanWellFounded, WFMin
<1>2. ASSUME NEW m \in S PROVE n <= m
  <2>1. m \in Nat /\ n \in Nat
    OBVIOUS
  <2>2. ~ (m < n)
    BY <1>1, <2>1 DEF OpToRel
  <2> QED BY <2>1, <2>2
<1> QED BY <1>2

\* What holds of 0, and of n + 1 when it holds of n, holds of every number: as a set,
\* so that it can be cited of any property.
LEMMA SetInduction ==
    ASSUME NEW T, 0 \in T, \A n \in Nat : n \in T => n + 1 \in T
    PROVE  Nat \subseteq T
<1> SUFFICES ASSUME Nat \ T # {} PROVE FALSE
  OBVIOUS
<1>1. PICK n \in Nat \ T : \A m \in Nat \ T : n <= m
  BY LeastNumber
<1>2. n # 0 /\ n - 1 \in Nat /\ ~ (n <= n - 1)
  BY <1>1
<1>3. n - 1 \in T
  BY <1>1, <1>2
<1>4. (n - 1) + 1 \in T
  BY <1>2, <1>3
<1> QED BY <1>1, <1>2, <1>4

-----------------------------------------------------------------------------
(* The recursive function in FlattenSeq exists.                             *)

\* f flattens the first n sequences of E, one after the other.
FlattenStep(E, f, i) == IF i = 1 THEN E[i] ELSE f[i - 1] \o E[i]
Flattens(E, n, f) == f = [i \in 1 .. n |-> FlattenStep(E, f, i)]

\* Such an f exists, by induction on n: it grows by one place at a time.
LEMMA FlattensExists ==
    ASSUME NEW E, NEW n \in Nat
    PROVE  \E f : Flattens(E, n, f)
<1> DEFINE T == {m \in Nat : \E f : Flattens(E, m, f)}
<1>1. 0 \in T
  <2> DEFINE f == [i \in 1 .. 0 |-> 0]
  <2>1. f = [i \in 1 .. 0 |-> FlattenStep(E, f, i)]
    BY 1 .. 0 = {}
  <2> HIDE DEF f
  <2>2. Flattens(E, 0, f)
    BY <2>1 DEF Flattens
  <2> QED BY <2>2
<1>2. ASSUME NEW m \in Nat, m \in T
      PROVE  m + 1 \in T
  <2>1. PICK f : Flattens(E, m, f)
    BY <1>2
  <2> DEFINE last == FlattenStep(E, f, m + 1)
             g == [i \in 1 .. m + 1 |-> IF i = m + 1 THEN last ELSE f[i]]
  <2>2. ASSUME NEW i \in 1 .. m + 1
        PROVE  g[i] = FlattenStep(E, g, i)
    <3>1. CASE i = m + 1
      <4>1. i # 1 => i - 1 \in 1 .. m + 1 /\ i - 1 # m + 1
        BY <3>1
      <4> QED BY <3>1, <4>1 DEF FlattenStep
    <3>2. CASE i # m + 1
      <4>1. i \in 1 .. m /\ (i # 1 => i - 1 \in 1 .. m /\ i - 1 # m + 1)
        BY <3>2
      <4>2. f[i] = FlattenStep(E, f, i)
        BY <2>1, <4>1 DEF Flattens
      <4> QED BY <3>2, <4>1, <4>2 DEF FlattenStep
    <3> QED BY <3>1, <3>2
  <2> HIDE DEF last
  <2>3. g = [i \in 1 .. m + 1 |-> g[i]]
    OBVIOUS
  <2> HIDE DEF g
  <2>4. g = [i \in 1 .. m + 1 |-> FlattenStep(E, g, i)]
    BY <2>2, <2>3
  <2>5. Flattens(E, m + 1, g)
    BY <2>4 DEF Flattens
  <2> QED BY <2>5
<1> HIDE DEF T
<1>3. n \in T
  BY <1>1, <1>2, SetInduction
<1> QED BY <1>3 DEF T

\* FlattenSeq is the last value of the function that flattens a whole sequence.
LEMMA FlattenSeqIs ==
    ASSUME NEW X, NEW E \in Seq(X), E # <<>>
    PROVE  \E f : Flattens(E, Len(E), f) /\ FlattenSeq(E) = f[Len(E)]
<1>1. Len(E) \in Nat /\ Len(E) # 0
  BY EmptySeq, LenProperties
<1> DEFINE f == CHOOSE g : Flattens(E, Len(E), g)
<1>2. Flattens(E, Len(E), f)
  BY <1>1, FlattensExists
<1>3. FlattenSeq(E) = f[Len(E)]
  BY <1>1 DEF FlattenSeq, Flattens, FlattenStep
<1> QED BY <1>2, <1>3

\* Two sequences that begin alike are flattened alike so far.
LEMMA FlattensAlike ==
    ASSUME NEW E, NEW F, NEW n \in Nat, NEW m \in Nat, n <= m,
           NEW f, NEW g, Flattens(E, n, f), Flattens(F, m, g),
           \A i \in 1 .. n : E[i] = F[i]
    PROVE  \A i \in 1 .. n : f[i] = g[i]
<1> DEFINE T == {i \in Nat : i \in 1 .. n => f[i] = g[i]}
<1>1. 0 \in T
  OBVIOUS
<1>2. ASSUME NEW i \in Nat, i \in T
      PROVE  i + 1 \in T
  <2> SUFFICES ASSUME i + 1 \in 1 .. n
               PROVE  f[i + 1] = g[i + 1]
    OBVIOUS
  <2>1. f[i + 1] = FlattenStep(E, f, i + 1) /\ g[i + 1] = FlattenStep(F, g, i + 1)
    <3>1. i + 1 \in 1 .. n /\ i + 1 \in 1 .. m
      OBVIOUS
    <3> QED BY <3>1 DEF Flattens
  <2>2. E[i + 1] = F[i + 1]
    OBVIOUS
  <2>3. i + 1 # 1 => f[i] = g[i] /\ (i + 1) - 1 = i
    BY <1>2
  <2> QED BY <2>1, <2>2, <2>3 DEF FlattenStep
<1> HIDE DEF T
<1>3. Nat \subseteq T
  BY <1>1, <1>2, SetInduction
<1> QED BY <1>3 DEF T

-----------------------------------------------------------------------------
(* What it computes.                                                        *)

\* Nothing flattened is nothing.
LEMMA FlattenEmpty == FlattenSeq(<<>>) = <<>>
BY DEF FlattenSeq

\* One sequence flattened is that sequence.
LEMMA FlattenOne ==
    ASSUME NEW X, NEW s \in X
    PROVE  FlattenSeq(<<s>>) = s
<1>1. <<s>> \in Seq(X) /\ <<s>> # <<>> /\ Len(<<s>>) = 1
  OBVIOUS
<1>2. PICK f : Flattens(<<s>>, 1, f) /\ FlattenSeq(<<s>>) = f[1]
  BY <1>1, FlattenSeqIs
<1>3. f[1] = FlattenStep(<<s>>, f, 1)
  BY <1>2 DEF Flattens
<1> QED BY <1>2, <1>3 DEF FlattenStep

\* The last sequence comes last.
LEMMA FlattenAppend ==
    ASSUME NEW X, NEW E \in Seq(Seq(X)), NEW s \in Seq(X)
    PROVE  FlattenSeq(Append(E, s)) = FlattenSeq(E) \o s
<1> DEFINE F == Append(E, s)
           n == Len(E)
<1>1. /\ n \in Nat /\ F \in Seq(Seq(X)) /\ F # <<>> /\ Len(F) = n + 1 /\ F[n + 1] = s
      /\ \A i \in 1 .. n : F[i] = E[i]
  BY AppendProperties, LenProperties
<1> HIDE DEF F
<1>2. PICK g : Flattens(F, n + 1, g) /\ FlattenSeq(F) = g[n + 1]
  BY <1>1, FlattenSeqIs
<1>3. g[n + 1] = FlattenStep(F, g, n + 1)
  <2>1. n + 1 \in 1 .. n + 1
    BY <1>1
  <2> QED BY <1>2, <2>1 DEF Flattens
<1>4. CASE E = <<>>
  <2>1. n = 0
    BY <1>4
  <2>2. FlattenSeq(F) = s
    BY <1>1, <1>2, <1>3, <2>1 DEF FlattenStep
  <2> QED BY <1>4, <2>2, FlattenEmpty, ConcatEmptySeq DEF F
<1>5. CASE E # <<>>
  <2>1. n >= 1
    BY <1>5, EmptySeq
  <2>2. PICK f : Flattens(E, n, f) /\ FlattenSeq(E) = f[n]
    BY <1>5, FlattenSeqIs
  <2>3. f[n] = g[n]
    <3> HIDE DEF n
    <3>1. n \in Nat /\ n + 1 \in Nat /\ n <= n + 1 /\ \A i \in 1 .. n : E[i] = F[i]
      BY <1>1
    <3>2. \A i \in 1 .. n : f[i] = g[i]
      BY <1>2, <2>2, <3>1, FlattensAlike
    <3>3. n \in 1 .. n
      BY <1>1, <2>1
    <3> QED BY <3>2, <3>3
  <2>4. FlattenSeq(F) = g[n] \o s
    BY <1>1, <1>2, <1>3, <2>1 DEF FlattenStep
  <2> QED BY <2>2, <2>3, <2>4 DEF F
<1> QED BY <1>4, <1>5

\* What is proved of <<>> and of E followed by a sequence when it holds of E, is
\* proved of every sequence of sequences.
LEMMA SequenceInduction ==
    ASSUME NEW X, NEW T, <<>> \in T,
           \A E \in Seq(X) : \A s \in X : E \in T => Append(E, s) \in T
    PROVE  Seq(X) \subseteq T
<1> DEFINE N == {n \in Nat : \A E \in Seq(X) : Len(E) = n => E \in T}
<1>1. 0 \in N
  BY EmptySeq
<1>2. ASSUME NEW n \in Nat, n \in N
      PROVE  n + 1 \in N
  <2> SUFFICES ASSUME NEW E \in Seq(X), Len(E) = n + 1
               PROVE  E \in T
    OBVIOUS
  <2>1. PICK F \in Seq(X), s \in X : E = Append(F, s)
    BY EmptySeq, SequenceEmptyOrAppend
  <2>2. Len(F) = n
    BY <2>1, AppendProperties, LenProperties
  <2> QED BY <1>2, <2>1, <2>2
<1> HIDE DEF N
<1>3. Nat \subseteq N
  BY <1>1, <1>2, SetInduction
<1> SUFFICES ASSUME NEW E \in Seq(X) PROVE E \in T
  OBVIOUS
<1> QED BY <1>3, LenProperties DEF N

\* Sequences over a set flatten to a sequence over it.
LEMMA FlattenType ==
    ASSUME NEW X, NEW E \in Seq(Seq(X))
    PROVE  FlattenSeq(E) \in Seq(X)
<1> DEFINE T == {F \in Seq(Seq(X)) : FlattenSeq(F) \in Seq(X)}
<1>1. <<>> \in T
  BY FlattenEmpty, EmptySeq
<1>2. ASSUME NEW F \in Seq(Seq(X)), NEW s \in Seq(X), F \in T
      PROVE  Append(F, s) \in T
  BY <1>2, FlattenAppend, AppendProperties, ConcatProperties
<1> HIDE DEF T
<1>3. Seq(Seq(X)) \subseteq T
  BY <1>1, <1>2, SequenceInduction
<1> QED BY <1>3 DEF T

\* The flattening of two sequences after each other.
LEMMA FlattenConcat ==
    ASSUME NEW X, NEW E \in Seq(Seq(X)), NEW F \in Seq(Seq(X))
    PROVE  FlattenSeq(E \o F) = FlattenSeq(E) \o FlattenSeq(F)
<1> DEFINE T == {G \in Seq(Seq(X)) : FlattenSeq(E \o G) = FlattenSeq(E) \o FlattenSeq(G)}
<1>0. FlattenSeq(E) \in Seq(X)
  BY FlattenType
<1>1. <<>> \in T
  BY <1>0, FlattenEmpty, ConcatEmptySeq
<1>2. ASSUME NEW G \in Seq(Seq(X)), NEW s \in Seq(X), G \in T
      PROVE  Append(G, s) \in T
  <2>1. FlattenSeq(G) \in Seq(X) /\ E \o G \in Seq(Seq(X)) /\ <<s>> \in Seq(Seq(X))
    BY FlattenType, ConcatProperties
  <2>2. E \o Append(G, s) = Append(E \o G, s)
    <3>1. Append(G, s) = G \o <<s>> /\ Append(E \o G, s) = (E \o G) \o <<s>>
      BY <2>1, AppendIsConcat
    <3>2. (E \o G) \o <<s>> = E \o (G \o <<s>>)
      BY <2>1, ConcatAssociative, SMTT(30)
    <3> QED BY <3>1, <3>2
  <2>3. FlattenSeq(E \o Append(G, s)) = (FlattenSeq(E) \o FlattenSeq(G)) \o s
    BY <1>2, <2>1, <2>2, FlattenAppend
  <2>4. FlattenSeq(Append(G, s)) = FlattenSeq(G) \o s
    BY FlattenAppend
  <2>5. (FlattenSeq(E) \o FlattenSeq(G)) \o s = FlattenSeq(E) \o (FlattenSeq(G) \o s)
    BY <1>0, <2>1, ConcatAssociative, SMTT(30)
  <2> QED BY <2>3, <2>4, <2>5, AppendProperties
<1> HIDE DEF T
<1>3. Seq(Seq(X)) \subseteq T
  BY <1>1, <1>2, SequenceInduction
<1> QED BY <1>3 DEF T

\* The first sequence comes first.
LEMMA FlattenFirst ==
    ASSUME NEW X, NEW E \in Seq(Seq(X)), E # <<>>
    PROVE  /\ E[1] \in Seq(X) /\ Tail(E) \in Seq(Seq(X))
           /\ FlattenSeq(E) = E[1] \o FlattenSeq(Tail(E))
<1>1. E[1] \in Seq(X) /\ Tail(E) \in Seq(Seq(X)) /\ <<E[1]>> \in Seq(Seq(X))
  BY EmptySeq, LenProperties, HeadTailProperties
<1>2. E = <<E[1]>> \o Tail(E)
  <2>1. Len(<<E[1]>> \o Tail(E)) = Len(E)
    BY <1>1, ConcatProperties, HeadTailProperties, LenProperties
  <2>2. ASSUME NEW i \in 1 .. Len(E)
        PROVE  E[i] = (<<E[1]>> \o Tail(E))[i]
    BY <1>1, ConcatProperties, HeadTailProperties, LenProperties
  <2>3. <<E[1]>> \o Tail(E) \in Seq(Seq(X))
    BY <1>1, ConcatProperties
  <2> QED BY <2>1, <2>2, <2>3, SeqEqual
<1>3. FlattenSeq(<<E[1]>> \o Tail(E)) = FlattenSeq(<<E[1]>>) \o FlattenSeq(Tail(E))
  BY <1>1, FlattenConcat
<1> QED BY <1>1, <1>2, <1>3, FlattenOne

\* Sequences of one element each.
Units(s) == [k \in DOMAIN s |-> <<s[k]>>]

\* A sequence is its elements, one at a time, flattened.
LEMMA FlattenUnits ==
    ASSUME NEW X, NEW s \in Seq(X)
    PROVE  Units(s) \in Seq(Seq(X)) /\ Len(Units(s)) = Len(s) /\ FlattenSeq(Units(s)) = s
<1> DEFINE T == {t \in Seq(X) : FlattenSeq(Units(t)) = t}
<1>0. ASSUME NEW t \in Seq(X)
      PROVE  Units(t) \in Seq(Seq(X)) /\ Len(Units(t)) = Len(t)
  <2>1. Len(t) \in Nat /\ DOMAIN t = 1 .. Len(t) /\ \A k \in 1 .. Len(t) : t[k] \in X
    BY LenProperties
  <2>2. Units(t) = [k \in 1 .. Len(t) |-> <<t[k]>>] /\ \A k \in 1 .. Len(t) : <<t[k]>> \in Seq(X)
    BY <2>1 DEF Units
  <2> QED BY <2>1, <2>2
<1>1. <<>> \in T
  <2>1. Units(<<>>) = <<>>
    BY <1>0, EmptySeq
  <2> QED BY <2>1, FlattenEmpty
<1>2. ASSUME NEW t \in Seq(X), NEW x \in X, t \in T
      PROVE  Append(t, x) \in T
  <2> DEFINE u == Append(t, x)
  <2>1. /\ u \in Seq(X) /\ Len(u) = Len(t) + 1 /\ Len(t) \in Nat /\ u[Len(t) + 1] = x
        /\ \A k \in 1 .. Len(t) : u[k] = t[k]
    BY AppendProperties, LenProperties
  <2> HIDE DEF u
  <2>2. Units(u) = Append(Units(t), <<x>>)
    <3>1. /\ Units(u) \in Seq(Seq(X)) /\ Len(Units(u)) = Len(t) + 1
          /\ Units(t) \in Seq(Seq(X)) /\ Len(Units(t)) = Len(t) /\ <<x>> \in Seq(X)
      BY <1>0, <2>1
    <3>2. /\ Append(Units(t), <<x>>) \in Seq(Seq(X))
          /\ Len(Append(Units(t), <<x>>)) = Len(t) + 1
          /\ Append(Units(t), <<x>>)[Len(t) + 1] = <<x>>
          /\ \A k \in 1 .. Len(t) : Append(Units(t), <<x>>)[k] = Units(t)[k]
      BY <3>1, AppendProperties
    <3>3. ASSUME NEW k \in 1 .. Len(t) + 1
          PROVE  Units(u)[k] = Append(Units(t), <<x>>)[k]
      <4>1. Units(u)[k] = <<u[k]>> /\ (k \in 1 .. Len(t) => Units(t)[k] = <<t[k]>>)
        BY <2>1, LenProperties DEF Units
      <4> QED BY <2>1, <3>2, <4>1
    <3> QED BY <3>1, <3>2, <3>3, SeqEqual
  <2>3. FlattenSeq(Units(u)) = t \o <<x>>
    <3>1. <<x>> \in Seq(X) /\ Units(t) \in Seq(Seq(X)) /\ FlattenSeq(Units(t)) = t
      BY <1>0, <1>2
    <3> QED BY <2>2, <3>1, FlattenAppend
  <2> QED BY <2>1, <2>3, AppendIsConcat DEF u
<1> HIDE DEF T
<1>3. Seq(X) \subseteq T
  BY <1>1, <1>2, SequenceInduction
<1> QED BY <1>0, <1>3 DEF T

-----------------------------------------------------------------------------
(* Taking sequences apart.                                                  *)

\* Equal sequences that are cut at the same place have equal parts.
LEMMA ConcatSplit ==
    ASSUME NEW X, NEW p \in Seq(X), NEW q \in Seq(X), NEW r \in Seq(X), NEW s \in Seq(X),
           p \o q = r \o s, Len(p) = Len(r)
    PROVE  p = r /\ q = s
<1>1. Len(p) \in Nat /\ Len(q) \in Nat /\ Len(r) \in Nat /\ Len(s) \in Nat
  BY LenProperties
<1>2. /\ Len(p \o q) = Len(p) + Len(q) /\ Len(r \o s) = Len(r) + Len(s)
      /\ \A i \in 1 .. Len(p) + Len(q) : (p \o q)[i] = IF i <= Len(p) THEN p[i] ELSE q[i - Len(p)]
      /\ \A i \in 1 .. Len(r) + Len(s) : (r \o s)[i] = IF i <= Len(r) THEN r[i] ELSE s[i - Len(r)]
  BY ConcatProperties, Zenon
<1>3. Len(q) = Len(s)
  BY <1>1, <1>2
<1>4. ASSUME NEW i \in 1 .. Len(p) PROVE p[i] = r[i]
  BY <1>1, <1>2, <1>3
<1>5. ASSUME NEW i \in 1 .. Len(q) PROVE q[i] = s[i]
  <2>1. i + Len(p) \in 1 .. Len(p) + Len(q) /\ ~(i + Len(p) <= Len(p)) /\ (i + Len(p)) - Len(p) = i
    BY <1>1
  <2> QED BY <1>1, <1>2, <1>3, <2>1
<1> QED BY <1>3, <1>4, <1>5, SeqEqual

\* A sequence is its first n elements and the rest.
LEMMA PrefixAndRest ==
    ASSUME NEW X, NEW a \in Seq(X), NEW n \in 0 .. Len(a)
    PROVE  /\ SubSeq(a, 1, n) \in Seq(X) /\ Len(SubSeq(a, 1, n)) = n
           /\ SubSeq(a, n + 1, Len(a)) \in Seq(X) /\ Len(SubSeq(a, n + 1, Len(a))) = Len(a) - n
           /\ a = SubSeq(a, 1, n) \o SubSeq(a, n + 1, Len(a))
           /\ \A i \in 1 .. n : SubSeq(a, 1, n)[i] = a[i]
           /\ \A i \in 1 .. Len(a) - n : SubSeq(a, n + 1, Len(a))[i] = a[n + i]
<1>1. Len(a) \in Nat /\ \A i \in 1 .. Len(a) : a[i] \in X
  BY LenProperties
<1>2. /\ SubSeq(a, 1, n) \in Seq(X) /\ Len(SubSeq(a, 1, n)) = n
      /\ \A i \in 1 .. n : SubSeq(a, 1, n)[i] = a[i]
  <2>1. \A i \in 1 .. n : a[i] \in X
    BY <1>1
  <2> QED BY <1>1, <2>1, SubSeqProperties
<1>3. /\ SubSeq(a, n + 1, Len(a)) \in Seq(X) /\ Len(SubSeq(a, n + 1, Len(a))) = Len(a) - n
      /\ \A i \in 1 .. Len(a) - n : SubSeq(a, n + 1, Len(a))[i] = a[n + i]
  <2>1. \A i \in n + 1 .. Len(a) : a[i] \in X
    BY <1>1
  <2> QED BY <1>1, <2>1, SubSeqProperties
<1>4. SubSeq(a, 1, n) \o SubSeq(a, n + 1, Len(a)) = SubSeq(a, 1, Len(a))
  <2>1. 1 \in 1 .. Len(a) + 1 /\ n \in 1 - 1 .. Len(a) /\ Len(a) \in n .. Len(a)
    BY <1>1
  <2> QED BY <2>1, ConcatAdjacentSubSeq
<1> QED BY <1>2, <1>3, <1>4, SubSeqFull

\* What is left of p followed by q without the first n elements of p.
LEMMA RestOfConcat ==
    ASSUME NEW X, NEW p \in Seq(X), NEW q \in Seq(X), NEW n \in 0 .. Len(p)
    PROVE  /\ SubSeq(p \o q, n + 1, Len(p \o q)) = SubSeq(p, n + 1, Len(p)) \o q
           /\ SubSeq(p \o q, 1, n) = SubSeq(p, 1, n)
<1>1. /\ p \o q \in Seq(X) /\ Len(p \o q) = Len(p) + Len(q) /\ Len(p) \in Nat /\ Len(q) \in Nat
  <2>1. p \o q \in Seq(X) /\ Len(p \o q) = Len(p) + Len(q)
    BY ConcatProperties, Zenon
  <2> QED BY <2>1, LenProperties
<1> DEFINE u == p \o q
           a == SubSeq(p, 1, n)
           b == SubSeq(p, n + 1, Len(p))
           c == SubSeq(u, 1, n)
           d == SubSeq(u, n + 1, Len(u))
<1>2. a \in Seq(X) /\ b \in Seq(X) /\ Len(a) = n /\ p = a \o b
  BY PrefixAndRest, ZenonT(30)
<1>3. n \in 0 .. Len(u)
  BY <1>1
<1>4. c \in Seq(X) /\ d \in Seq(X) /\ Len(c) = n /\ u = c \o d
  <2> HIDE DEF u
  <2>1. u \in Seq(X)
    BY <1>1 DEF u
  <2> QED BY <1>3, <2>1, PrefixAndRest, ZenonT(30)
<1> HIDE DEF a, b, c, d
<1>5. b \o q \in Seq(X) /\ (a \o b) \o q = a \o (b \o q)
  <2>1. b \o q \in Seq(X)
    BY <1>2, ConcatProperties
  <2> QED BY <1>2, <2>1, ConcatAssociative
<1> DEFINE e == b \o q
<1> HIDE DEF e
<1>6. c \o d = a \o e /\ e \in Seq(X) /\ Len(c) = Len(a)
  BY <1>2, <1>4, <1>5 DEF u, e
<1>7. c = a /\ d = e
  BY <1>2, <1>4, <1>6, ConcatSplit
<1> QED BY <1>7 DEF a, b, c, d, e

\* One element more on the left is one element less on the right.
LEMMA AppendConcat ==
    ASSUME NEW X, NEW p \in Seq(X), NEW q \in Seq(X), NEW x \in X
    PROVE  /\ p \o (<<x>> \o q) = Append(p, x) \o q
           /\ Append(p \o q, x) = p \o Append(q, x)
<1>1. <<x>> \in Seq(X) /\ p \o q \in Seq(X)
  <2>1. <<x>> \in Seq(X)
    OBVIOUS
  <2> QED BY <2>1, ConcatProperties
<1>2. Append(p, x) = p \o <<x>> /\ Append(q, x) = q \o <<x>>
  BY AppendIsConcat
<1> DEFINE u == p \o q
<1>3. Append(u, x) = u \o <<x>>
  <2>1. u \in Seq(X)
    BY <1>1
  <2> HIDE DEF u
  <2> QED BY <2>1, AppendIsConcat
<1> DEFINE v == <<x>>
<1>4. v \in Seq(X)
  BY <1>1
<1> HIDE DEF v
<1>5. (p \o v) \o q = p \o (v \o q) /\ (p \o q) \o v = p \o (q \o v)
  BY <1>4, ConcatAssociative, SMTT(30)
<1> QED BY <1>2, <1>3, <1>5 DEF v

\* A sequence that is not empty is its head and its tail.
LEMMA HeadAndTail ==
    ASSUME NEW X, NEW s \in Seq(X), s # <<>>
    PROVE  /\ Head(s) \in X /\ Tail(s) \in Seq(X) /\ Len(s) = Len(Tail(s)) + 1
           /\ Head(s) = s[1] /\ s = <<Head(s)>> \o Tail(s) /\ Tail(s) = SubSeq(s, 2, Len(s))
           /\ Len(s) \in Nat
<1>1. Head(s) \in X /\ Tail(s) \in Seq(X) /\ Len(Tail(s)) = Len(s) - 1 /\ Len(s) \in Nat /\ Len(s) > 0
  BY HeadTailProperties, EmptySeq, LenProperties
<1>2. Head(s) = s[1] /\ Tail(s) = SubSeq(s, 2, Len(s))
  BY <1>1, TailIsSubSeq
<1>3. 1 \in 0 .. Len(s)
  BY <1>1
<1> DEFINE p == SubSeq(s, 1, 1)
           r == SubSeq(s, 2, Len(s))
<1>4. p \in Seq(X) /\ Len(p) = 1 /\ p[1] = s[1] /\ s = p \o r
  BY <1>3, PrefixAndRest
<1> HIDE DEF p, r
<1>5. p = <<s[1]>>
  BY <1>4
<1> QED BY <1>1, <1>2, <1>4, <1>5 DEF r

\* Concatenation under a name: where many are regrouped, the provers do better when they
\* know nothing of it but this.
Cat(p, q) == p \o q

\* Three parts can be taken together from either end.
LEMMA CatAssociative ==
    ASSUME NEW X, NEW p \in Seq(X), NEW q \in Seq(X), NEW r \in Seq(X)
    PROVE  Cat(Cat(p, q), r) = Cat(p, Cat(q, r)) /\ Cat(p, q) \in Seq(X)
<1>1. (p \o q) \o r = p \o (q \o r)
  BY ConcatAssociative
<1>2. p \o q \in Seq(X)
  BY ConcatProperties
<1> QED BY <1>1, <1>2 DEF Cat

\* The first element of the second part is as well the last one of the first.
LEMMA AppendCat ==
    ASSUME NEW X, NEW p \in Seq(X), NEW q \in Seq(X), NEW x \in X
    PROVE  Cat(p, Cat(<<x>>, q)) = Cat(Append(p, x), q)
<1>1. p \o (<<x>> \o q) = Append(p, x) \o q
  BY AppendConcat
<1> QED BY <1>1 DEF Cat

\* An element behind both parts is one behind the second.
LEMMA AppendToCat ==
    ASSUME NEW X, NEW p \in Seq(X), NEW q \in Seq(X), NEW x \in X
    PROVE  Append(Cat(p, q), x) = Cat(p, Append(q, x))
BY AppendConcat DEF Cat

\* A sequence over a set with one element more, and that element alone.
LEMMA AppendType ==
    ASSUME NEW X, NEW p \in Seq(X), NEW x \in X
    PROVE  Append(p, x) \in Seq(X) /\ <<x>> \in Seq(X)
BY AppendProperties

\* Equal sequences that are cut at the same place have equal parts.
LEMMA CatSplit ==
    ASSUME NEW X, NEW p \in Seq(X), NEW q \in Seq(X), NEW r \in Seq(X), NEW s \in Seq(X),
           Cat(p, q) = Cat(r, s), Len(p) = Len(r)
    PROVE  p = r /\ q = s
BY ConcatSplit DEF Cat

\* To append an element is to add the sequence of it.
LEMMA AppendIsCat ==
    ASSUME NEW X, NEW p \in Seq(X), NEW x \in X
    PROVE  Append(p, x) = Cat(p, <<x>>) /\ <<x>> \in Seq(X)
<1>1. Append(p, x) = p \o <<x>>
  BY AppendIsConcat
<1>2. <<x>> \in Seq(X)
  OBVIOUS
<1> QED BY <1>1, <1>2 DEF Cat

\* One element more at the end of three parts, and of one element.
LEMMA AppendThird ==
    ASSUME NEW X, NEW p \in Seq(X), NEW q \in Seq(X), NEW r \in Seq(X), NEW x \in X
    PROVE  Append(Cat(p, Cat(q, r)), x) = Cat(p, Cat(q, Append(r, x)))
<1> DEFINE v == <<x>>
           z == Cat(p, Cat(q, r))
<1>1. Append(r, x) = Cat(r, v) /\ v \in Seq(X)
  BY AppendIsCat
<1>2. z \in Seq(X)
  BY CatAssociative
<1> HIDE DEF v
<1>3. Cat(z, v) = Cat(p, Cat(q, Cat(r, v)))
  BY <1>1, CatAssociative
<1> HIDE DEF z
<1>4. Append(z, x) = Cat(z, v)
  BY <1>2, AppendIsCat DEF v
<1> QED BY <1>1, <1>3, <1>4 DEF z

\* A pair is its two elements.
LEMMA PairIsCat ==
    ASSUME NEW x, NEW y
    PROVE  Cat(<<x>>, <<y>>) = <<x, y>>
<1> DEFINE S == {x, y}
           u == <<x>>
           v == <<y>>
           p == u \o v
           q == <<x, y>>
<1>1. /\ u \in Seq(S) /\ v \in Seq(S) /\ Len(u) = 1 /\ Len(v) = 1 /\ u[1] = x /\ v[1] = y
      /\ q \in Seq(S) /\ Len(q) = 2 /\ q[1] = x /\ q[2] = y
  OBVIOUS
<1> HIDE DEF S, u, v, q
<1>2. /\ p \in Seq(S) /\ Len(p) = Len(u) + Len(v)
      /\ \A i \in 1 .. Len(u) + Len(v) : p[i] = IF i <= Len(u) THEN u[i] ELSE v[i - Len(u)]
  BY <1>1, ConcatProperties, Zenon
<1> HIDE DEF p
<1>3. p[1] = x /\ p[2] = y /\ Len(p) = 2
  BY <1>1, <1>2
<1>4. \A i \in 1 .. Len(p) : p[i] = q[i]
  BY <1>1, <1>3
<1>5. p = q
  BY <1>1, <1>2, <1>3, <1>4, SeqEqual
<1> QED BY <1>5 DEF Cat, p, q, u, v

\* Two elements appended, one after the other, are a pair appended.
LEMMA AppendSecond ==
    ASSUME NEW X, NEW p \in Seq(X), NEW x \in X, NEW y \in X
    PROVE  Append(Cat(p, <<x>>), y) = Cat(p, <<x, y>>)
<1> DEFINE u == <<x>>
           v == <<y>>
           z == Cat(p, u)
<1>1. u \in Seq(X) /\ v \in Seq(X)
  BY AppendIsCat
<1>2. Cat(u, v) = <<x, y>>
  BY PairIsCat
<1> HIDE DEF u, v
<1>3. z \in Seq(X) /\ Cat(z, v) = Cat(p, Cat(u, v))
  BY <1>1, CatAssociative
<1> HIDE DEF z
<1>4. Append(z, y) = Cat(z, v)
  BY <1>3, AppendIsCat DEF v
<1> QED BY <1>2, <1>3, <1>4 DEF u, z

-----------------------------------------------------------------------------
(* What a sequence stands for, each of its elements standing for some.      *)

\* Each element of X stands for a sequence over Y.
Stands(f, X, Y) == f \in [X -> Seq(Y)]
Parts(f, t) == [k \in DOMAIN t |-> f[t[k]]]
Mapped(f, t) == FlattenSeq(Parts(f, t))

\* What the elements stand for, one by one, and together.
LEMMA MappedType ==
    ASSUME NEW X, NEW Y, NEW f, Stands(f, X, Y), NEW t \in Seq(X)
    PROVE  /\ Parts(f, t) \in Seq(Seq(Y)) /\ Len(Parts(f, t)) = Len(t)
           /\ \A k \in 1 .. Len(t) : Parts(f, t)[k] = f[t[k]]
           /\ Mapped(f, t) \in Seq(Y)
<1>1. Len(t) \in Nat /\ DOMAIN t = 1 .. Len(t) /\ \A k \in 1 .. Len(t) : t[k] \in X
  BY LenProperties
<1>2. Parts(f, t) = [k \in 1 .. Len(t) |-> f[t[k]]] /\ \A k \in 1 .. Len(t) : f[t[k]] \in Seq(Y)
  BY <1>1 DEF Parts, Stands
<1>3. Parts(f, t) \in Seq(Seq(Y)) /\ Len(Parts(f, t)) = Len(t)
  BY <1>1, <1>2
<1>4. \A k \in 1 .. Len(t) : Parts(f, t)[k] = f[t[k]]
  BY <1>2
<1>5. Mapped(f, t) \in Seq(Y)
  BY <1>3, FlattenType DEF Mapped
<1> QED BY <1>3, <1>4, <1>5

\* The empty sequence stands for nothing.
LEMMA MappedEmpty ==
    ASSUME NEW X, NEW Y, NEW f, Stands(f, X, Y)
    PROVE  Mapped(f, <<>>) = <<>>
<1>1. Parts(f, <<>>) = <<>>
  <2>1. DOMAIN <<>> = {}
    OBVIOUS
  <2>2. Parts(f, <<>>) = [k \in {} |-> f[<<>>[k]]]
    BY <2>1 DEF Parts
  <2> QED BY <2>2
<1> QED BY <1>1, FlattenEmpty DEF Mapped

\* One element stands for what it does.
LEMMA MappedOne ==
    ASSUME NEW X, NEW Y, NEW f, Stands(f, X, Y), NEW x \in X
    PROVE  <<x>> \in Seq(X) /\ Mapped(f, <<x>>) = f[x]
<1> DEFINE s == <<x>>
<1>1. s \in Seq(X) /\ Len(s) = 1 /\ s[1] = x
  OBVIOUS
<1> HIDE DEF s
<1>2. Parts(f, s) \in Seq(Seq(Y)) /\ Len(Parts(f, s)) = 1 /\ Parts(f, s)[1] = f[x]
  BY <1>1, MappedType
<1>3. f[x] \in Seq(Y)
  BY DEF Stands
<1>4. Parts(f, s) = <<f[x]>>
  BY <1>2, <1>3
<1> QED BY <1>1, <1>3, <1>4, FlattenOne DEF Mapped, s

\* The last element stands for the last part.
LEMMA MappedAppend ==
    ASSUME NEW X, NEW Y, NEW f, Stands(f, X, Y), NEW t \in Seq(X), NEW x \in X
    PROVE  Mapped(f, Append(t, x)) = Cat(Mapped(f, t), f[x])
<1> DEFINE u == Append(t, x)
<1>1. /\ u \in Seq(X) /\ Len(u) = Len(t) + 1 /\ Len(t) \in Nat /\ u[Len(t) + 1] = x
      /\ \A k \in 1 .. Len(t) : u[k] = t[k]
  BY AppendProperties, LenProperties
<1> HIDE DEF u
<1> DEFINE e == Parts(f, t)
           g == Parts(f, u)
<1>2. e \in Seq(Seq(Y)) /\ Len(e) = Len(t) /\ \A k \in 1 .. Len(t) : e[k] = f[t[k]]
  BY MappedType
<1>3. g \in Seq(Seq(Y)) /\ Len(g) = Len(u) /\ \A k \in 1 .. Len(u) : g[k] = f[u[k]]
  BY <1>1, MappedType
<1>4. f[x] \in Seq(Y)
  BY DEF Stands
<1> HIDE DEF e, g
<1> DEFINE h == Append(e, f[x])
<1>5. /\ h \in Seq(Seq(Y)) /\ Len(h) = Len(t) + 1 /\ h[Len(t) + 1] = f[x]
      /\ \A k \in 1 .. Len(t) : h[k] = e[k]
  BY <1>2, <1>4, AppendProperties, LenProperties
<1> HIDE DEF h
<1>6. ASSUME NEW k \in 1 .. Len(t) + 1
      PROVE  g[k] = h[k]
  <2>1. k \in 1 .. Len(u) /\ (k \in 1 .. Len(t) \/ k = Len(t) + 1)
    BY <1>1
  <2>2. g[k] = f[u[k]]
    BY <1>3, <2>1
  <2>3. CASE k \in 1 .. Len(t)
    BY <1>1, <1>2, <1>5, <2>2, <2>3
  <2>4. CASE k = Len(t) + 1
    BY <1>1, <1>5, <2>2, <2>4
  <2> QED BY <2>1, <2>3, <2>4
<1>7. g = h
  BY <1>1, <1>3, <1>5, <1>6, SeqEqual
<1>8. FlattenSeq(h) = FlattenSeq(e) \o f[x]
  BY <1>2, <1>4, FlattenAppend DEF h
<1> QED BY <1>7, <1>8 DEF Cat, Mapped, e, g, u

\* Two sequences after each other stand for two parts after each other.
LEMMA MappedConcat ==
    ASSUME NEW X, NEW Y, NEW f, Stands(f, X, Y), NEW s \in Seq(X), NEW t \in Seq(X)
    PROVE  Mapped(f, Cat(s, t)) = Cat(Mapped(f, s), Mapped(f, t))
<1> DEFINE T == {u \in Seq(X) : Mapped(f, Cat(s, u)) = Cat(Mapped(f, s), Mapped(f, u))}
<1>0. Mapped(f, s) \in Seq(Y)
  BY MappedType
<1>1. <<>> \in T
  <2>1. Cat(s, <<>>) = s /\ Cat(Mapped(f, s), <<>>) = Mapped(f, s)
    BY <1>0, ConcatEmptySeq DEF Cat
  <2>2. Mapped(f, <<>>) = <<>> /\ <<>> \in Seq(X)
    BY MappedEmpty
  <2> QED BY <2>1, <2>2
<1>2. ASSUME NEW u \in Seq(X), NEW x \in X, u \in T
      PROVE  Append(u, x) \in T
  <2> DEFINE v == Cat(s, u)
             a == Mapped(f, s)
             b == Mapped(f, u)
             c == f[x]
  <2>1. v \in Seq(X) /\ Append(u, x) \in Seq(X)
    BY CatAssociative, AppendType
  <2>2. Append(v, x) = Cat(s, Append(u, x))
    BY AppendToCat
  <2>3. Mapped(f, v) = Cat(a, b)
    BY <1>2
  <2>4. a \in Seq(Y) /\ b \in Seq(Y) /\ c \in Seq(Y)
    BY MappedType DEF Stands
  <2>5. Mapped(f, Append(u, x)) = Cat(b, c)
    BY MappedAppend
  <2> HIDE DEF v
  <2>6. Mapped(f, Append(v, x)) = Cat(Mapped(f, v), c)
    BY <2>1, MappedAppend
  <2> HIDE DEF a, b, c
  <2>7. Cat(Cat(a, b), c) = Cat(a, Cat(b, c))
    BY <2>4, CatAssociative
  <2> QED BY <2>1, <2>2, <2>3, <2>5, <2>6, <2>7 DEF a
<1> HIDE DEF T
<1>3. Seq(X) \subseteq T
  BY <1>1, <1>2, SequenceInduction
<1> QED BY <1>3 DEF T

\* The first element stands for the first part.
LEMMA MappedFirst ==
    ASSUME NEW X, NEW Y, NEW f, Stands(f, X, Y), NEW t \in Seq(X), t # <<>>
    PROVE  Mapped(f, t) = Cat(f[Head(t)], Mapped(f, Tail(t)))
<1> DEFINE u == <<Head(t)>>
           v == Tail(t)
<1>1. Head(t) \in X /\ v \in Seq(X) /\ t = u \o v
  BY HeadAndTail
<1>2. u \in Seq(X) /\ Mapped(f, u) = f[Head(t)]
  BY <1>1, MappedOne
<1> HIDE DEF u, v
<1>3. t = Cat(u, v)
  BY <1>1 DEF Cat
<1>4. Mapped(f, Cat(u, v)) = Cat(Mapped(f, u), Mapped(f, v))
  BY <1>1, <1>2, MappedConcat
<1> QED BY <1>2, <1>3, <1>4 DEF v

\* Elements that stand for nothing stand for nothing together.
LEMMA MappedNothing ==
    ASSUME NEW X, NEW Y, NEW f, Stands(f, X, Y), NEW t \in Seq(X),
           \A k \in 1 .. Len(t) : f[t[k]] = <<>>
    PROVE  Mapped(f, t) = <<>>
<1> DEFINE T == {u \in Seq(X) : (\A k \in 1 .. Len(u) : f[u[k]] = <<>>) => Mapped(f, u) = <<>>}
<1>1. <<>> \in T
  BY MappedEmpty
<1>2. ASSUME NEW u \in Seq(X), NEW x \in X, u \in T
      PROVE  Append(u, x) \in T
  <2> DEFINE v == Append(u, x)
  <2>1. /\ v \in Seq(X) /\ Len(v) = Len(u) + 1 /\ Len(u) \in Nat /\ v[Len(u) + 1] = x
        /\ \A k \in 1 .. Len(u) : v[k] = u[k]
    BY AppendProperties, LenProperties
  <2>2. Mapped(f, v) = Cat(Mapped(f, u), f[x])
    BY MappedAppend
  <2> HIDE DEF v
  <2>3. ASSUME \A k \in 1 .. Len(v) : f[v[k]] = <<>>
        PROVE  Mapped(f, v) = <<>>
    <3>1. f[x] = <<>> /\ \A k \in 1 .. Len(u) : f[u[k]] = <<>>
      BY <2>1, <2>3
    <3>2. Mapped(f, u) = <<>>
      BY <1>2, <3>1
    <3>3. Cat(<<>>, <<>>) = <<>>
      BY DEF Cat
    <3> QED BY <2>2, <3>1, <3>2, <3>3
  <2> QED BY <2>1, <2>3 DEF v
<1> HIDE DEF T
<1>3. Seq(X) \subseteq T
  BY <1>1, <1>2, SequenceInduction
<1> QED BY <1>3 DEF T
=============================================================================
