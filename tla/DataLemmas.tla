----------------------------- MODULE DataLemmas -----------------------------
(***************************************************************************)
(* Facts about data: induction over the natural numbers as a statement     *)
(* about sets, and what follows from it for the operators on sequences and *)
(* the sums over finite sets, and the folds, of the community modules.     *)
(***************************************************************************)
EXTENDS Integers, SequencesExt, FiniteSetTheorems, SequenceTheorems, TLAPS

\* The well-foundedness of strict inclusion between finite sets, applied to the
\* intervals 0..n, gives every set of numbers a least element.
LEMMA LeastElement ==
    ASSUME NEW S \in SUBSET Nat, S # {}
    PROVE  \E m \in S : \A k \in S : m <= k
<1> DEFINE T == {0..n : n \in S}
           R == StrictSubsetOrdering(Nat)
           F == FiniteSubsetsOf(Nat)
<1>1. IsWellFoundedOn(R, F)
  BY FS_StrictSubsetOrderingWellFounded
<1>2. T \subseteq F
  <2>1. ASSUME NEW n \in S PROVE 0..n \in F
    <3>1. IsFiniteSet(0..n)
      BY FS_Interval
    <3>2. 0..n \in SUBSET Nat
      OBVIOUS
    <3> QED
      BY <3>1, <3>2 DEF FiniteSubsetsOf
  <2> HIDE DEF F
  <2> QED
    BY <2>1
<1>3. T # {}
  OBVIOUS
<1>4. PICK x \in T : \A y \in T : <<y, x>> \notin R
  <2> HIDE DEF T, R, F
  <2> QED
    BY <1>1, <1>2, <1>3, WFMin
<1>5. PICK m \in S : x = 0..m
  OBVIOUS
<1>6. ASSUME NEW k \in S, k < m PROVE FALSE
  <2>1. 0..k \in T
    OBVIOUS
  <2>2. 0..k \subseteq 0..m /\ 0..k # 0..m
    <3>1. m \in 0..m /\ m \notin 0..k
      BY <1>6
    <3> QED
      BY <1>6, <3>1
  <2>3. <<0..k, x>> \in R
    BY <1>5, <2>2 DEF StrictSubsetOrdering
  <2> QED
    BY <1>4, <2>1, <2>3
<1> QED
  BY <1>6

\* Induction over the natural numbers, for a set of them.
LEMMA Induction ==
    ASSUME NEW S, 0 \in S, \A n \in Nat : n \in S => n + 1 \in S
    PROVE  Nat \subseteq S
<1> DEFINE T == Nat \ S
<1> SUFFICES ASSUME T # {} PROVE FALSE
  OBVIOUS
<1>1. PICK m \in T : \A k \in T : m <= k
  BY LeastElement
<1>2. m # 0 /\ m - 1 \in Nat
  OBVIOUS
<1>3. m - 1 \notin T
  BY <1>1, <1>2
<1> QED
  BY <1>2, <1>3

\* A sequence with the elements of s, then those of t, is s \o t.
LEMMA ConcatIs ==
    ASSUME NEW S, NEW s \in Seq(S), NEW t \in Seq(S), NEW u \in Seq(S),
           Len(u) = Len(s) + Len(t),
           \A i \in 1..Len(s) : u[i] = s[i],
           \A i \in 1..Len(t) : u[Len(s) + i] = t[i]
    PROVE  s \o t = u
<1>1. /\ s \o t \in Seq(S) /\ Len(s \o t) = Len(s) + Len(t)
      /\ Len(s) \in Nat /\ Len(t) \in Nat
  BY ConcatProperties
<1>2. ASSUME NEW i \in 1..(Len(s) + Len(t)) PROVE (s \o t)[i] = u[i]
  <2>1. CASE i <= Len(s)
    BY <1>1, <2>1
  <2>2. CASE i > Len(s)
    <3>1. i - Len(s) \in 1..Len(t) /\ Len(s) + (i - Len(s)) = i
      BY <1>1, <2>2
    <3>2. (s \o t)[i] = t[i - Len(s)]
      BY <1>1, <2>2
    <3>3. u[i] = t[i - Len(s)]
      <4> DEFINE j == i - Len(s)
      <4>1. j \in 1..Len(t) /\ Len(s) + j = i
        BY <3>1
      <4>2. u[Len(s) + j] = t[j]
        BY <4>1
      <4> QED
        BY <4>1, <4>2
    <3> QED
      BY <3>2, <3>3
  <2> QED
    BY <1>1, <2>1, <2>2
<1> QED
  BY <1>1, <1>2, SeqEqual

\* A sequence is a prefix of every sequence that goes on from it.
LEMMA ConcatPrefix ==
    ASSUME NEW S, NEW s \in Seq(S), NEW t \in Seq(S)
    PROVE  IsPrefix(s, s \o t)
<1> DEFINE u == SubSeq(s \o t, 1, Len(s))
<1>1. /\ s \o t \in Seq(S) /\ Len(s \o t) = Len(s) + Len(t)
      /\ Len(s) \in Nat /\ Len(t) \in Nat
  BY ConcatProperties
<1>2. SubSeq(s, 1, Len(s)) = s
  BY SubSeqFull
<1>3. u = s
  <2>1. u \in Seq(S) /\ Len(u) = Len(s)
    BY <1>1
  <2>2. ASSUME NEW i \in 1..Len(s) PROVE u[i] = s[i]
    BY <1>1
  <2> HIDE DEF u
  <2> QED
    BY <2>1, <2>2, SeqEqual
<1> HIDE DEF u
<1> QED
  BY <1>1, <1>2, <1>3 DEF u, IsPrefix

(***************************************************************************)
(* FlattenSeq of module SequencesExt                                       *)
(***************************************************************************)
\* g computes the concatenations of the first 1, 2, ..., n elements of ss.
Flattens(g, ss, n) ==
    g = [i \in 1..n |-> IF i = 1 THEN ss[i] ELSE g[i-1] \o ss[i]]

\* An element of a function that flattens ss one after the other.
LEMMA FlattensElement ==
    ASSUME NEW g, NEW ss, NEW n \in Nat, Flattens(g, ss, n),
           NEW i \in 1..n
    PROVE  g[i] = IF i = 1 THEN ss[i] ELSE g[i-1] \o ss[i]
<1> DEFINE f == [j \in 1..n |-> IF j = 1 THEN ss[j] ELSE g[j-1] \o ss[j]]
<1>1. g = f
  BY DEF Flattens
<1>2. f[i] = IF i = 1 THEN ss[i] ELSE g[i-1] \o ss[i]
  OBVIOUS
<1> HIDE DEF f
<1> QED
  BY <1>1, <1>2

\* There is such a function for every n.
LEMMA FlattensExists ==
    ASSUME NEW ss, NEW n \in Nat
    PROVE  \E g : Flattens(g, ss, n)
<1> DEFINE S == {k \in Nat : \E g : Flattens(g, ss, k)}
<1>1. 0 \in S
  <2>1. Flattens(<<>>, ss, 0)
    BY DEF Flattens
  <2> QED
    BY <2>1
<1>2. ASSUME NEW k \in Nat, k \in S PROVE k + 1 \in S
  <2>1. PICK g : Flattens(g, ss, k)
    BY <1>2
  <2> DEFINE h == [i \in 1..(k+1) |-> IF i = 1 THEN ss[i] ELSE g[i-1] \o ss[i]]
  <2>2. ASSUME NEW i \in 1..k PROVE h[i] = g[i]
    BY <2>1, FlattensElement
  <2>3. ASSUME NEW i \in 1..(k+1), i # 1 PROVE h[i] = h[i-1] \o ss[i]
    <3>1. i - 1 \in 1..k
      BY <2>3
    <3>2. h[i] = g[i-1] \o ss[i]
      BY <2>3
    <3> HIDE DEF h
    <3> QED
      BY <2>2, <3>1, <3>2
  <2>4. Flattens(h, ss, k + 1)
    <3>1. h = [i \in 1..(k+1) |-> IF i = 1 THEN ss[i] ELSE h[i-1] \o ss[i]]
      <4>1. ASSUME NEW i \in 1..(k+1)
            PROVE  h[i] = IF i = 1 THEN ss[i] ELSE h[i-1] \o ss[i]
        <5>1. h[1] = ss[1]
          OBVIOUS
        <5> HIDE DEF h
        <5> QED
          BY <2>3, <5>1
      <4>2. h = [i \in 1..(k+1) |-> h[i]]
        OBVIOUS
      <4> HIDE DEF h
      <4> QED
        BY <4>1, <4>2
    <3> HIDE DEF h
    <3> QED
      BY <3>1 DEF Flattens
  <2> HIDE DEF h
  <2> QED
    BY <2>4
<1>3. Nat \subseteq S
  <2> HIDE DEF S
  <2> QED
    BY <1>1, <1>2, Induction
<1> QED
  BY <1>3

\* Two of them agree as far as their sequences do.
LEMMA FlattensUnique ==
    ASSUME NEW g, NEW ss, NEW h, NEW tt, NEW m \in Nat, NEW n \in Nat,
           m <= n, Flattens(g, ss, m), Flattens(h, tt, n),
           \A i \in 1..m : ss[i] = tt[i]
    PROVE  \A i \in 1..m : g[i] = h[i]
<1> DEFINE S == {i \in Nat : i \in 1..m => g[i] = h[i]}
<1>1. 0 \in S
  OBVIOUS
<1>2. ASSUME NEW i \in Nat, i \in S PROVE i + 1 \in S
  <2> SUFFICES ASSUME i + 1 \in 1..m PROVE g[i+1] = h[i+1]
    OBVIOUS
  <2>1. i + 1 \in 1..m /\ i + 1 \in 1..n /\ (i + 1) - 1 = i
    OBVIOUS
  <2>2. /\ g[i+1] = IF i + 1 = 1 THEN ss[i+1] ELSE g[i] \o ss[i+1]
        /\ h[i+1] = IF i + 1 = 1 THEN tt[i+1] ELSE h[i] \o tt[i+1]
    BY <2>1, FlattensElement
  <2>3. i + 1 # 1 => g[i] = h[i]
    BY <1>2
  <2> QED
    BY <2>2, <2>3
<1>3. Nat \subseteq S
  <2> HIDE DEF S
  <2> QED
    BY <1>1, <1>2, Induction
<1> QED
  BY <1>3

\* The recursion in the definition of FlattenSeq is well-founded.
LEMMA FlattenIs ==
    ASSUME NEW S, NEW ss \in Seq(S), ss # <<>>
    PROVE  \E g : Flattens(g, ss, Len(ss)) /\ FlattenSeq(ss) = g[Len(ss)]
<1> DEFINE g == CHOOSE f : Flattens(f, ss, Len(ss))
<1>1. Len(ss) \in Nat \ {0}
  BY EmptySeq
<1>2. Flattens(g, ss, Len(ss))
  BY <1>1, FlattensExists
<1>3. FlattenSeq(ss) = g[Len(ss)]
  BY <1>1 DEF FlattenSeq, Flattens
<1> QED
  BY <1>2, <1>3

\* Flattened sequences are a sequence of the same elements.
LEMMA FlattenType ==
    ASSUME NEW S, NEW ss \in Seq(Seq(S))
    PROVE  FlattenSeq(ss) \in Seq(S)
<1>0. CASE ss = <<>>
  BY <1>0, EmptySeq DEF FlattenSeq
<1>1. CASE ss # <<>>
  <2>1. PICK g : Flattens(g, ss, Len(ss)) /\ FlattenSeq(ss) = g[Len(ss)]
    BY <1>1, FlattenIs
  <2>2. Len(ss) \in Nat \ {0} /\ \A i \in 1..Len(ss) : ss[i] \in Seq(S)
    BY <1>1, EmptySeq, ElementOfSeq
  <2> DEFINE T == {i \in Nat : i \in 1..Len(ss) => g[i] \in Seq(S)}
  <2>3. 0 \in T
    OBVIOUS
  <2>4. ASSUME NEW i \in Nat, i \in T PROVE i + 1 \in T
    <3> SUFFICES ASSUME i + 1 \in 1..Len(ss) PROVE g[i+1] \in Seq(S)
      OBVIOUS
    <3>1. g[i+1] = IF i + 1 = 1 THEN ss[i+1] ELSE g[i] \o ss[i+1]
      <4>1. (i + 1) - 1 = i
        OBVIOUS
      <4> QED
        BY <2>1, <2>2, <4>1, FlattensElement
    <3>2. i + 1 # 1 => g[i] \in Seq(S)
      BY <2>4
    <3> QED
      BY <2>2, <3>1, <3>2, ConcatProperties
  <2>5. Nat \subseteq T
    <3> HIDE DEF T
    <3> QED
      BY <2>3, <2>4, Induction
  <2> QED
    BY <2>1, <2>2, <2>5
<1> QED
  BY <1>0, <1>1

\* One more sequence is one more concatenation.
LEMMA FlattenAppend ==
    ASSUME NEW S, NEW ss \in Seq(Seq(S)), NEW e \in Seq(S)
    PROVE  FlattenSeq(Append(ss, e)) = FlattenSeq(ss) \o e
<1> DEFINE tt == Append(ss, e)
<1>1. /\ tt \in Seq(Seq(S)) /\ tt # <<>> /\ Len(tt) = Len(ss) + 1
      /\ \A i \in 1..Len(ss) : tt[i] = ss[i]
      /\ tt[Len(ss)+1] = e
      /\ Len(ss) \in Nat
  BY AppendProperties, LenProperties
<1> HIDE DEF tt
<1>2. PICK h : Flattens(h, tt, Len(tt)) /\ FlattenSeq(tt) = h[Len(tt)]
  BY <1>1, FlattenIs
<1>3. h[Len(tt)] = IF Len(tt) = 1 THEN e ELSE h[Len(ss)] \o e
  <2>1. Len(tt) \in 1..Len(tt) /\ Len(tt) \in Nat /\ Len(tt) - 1 = Len(ss)
    BY <1>1
  <2> QED
    BY <1>1, <1>2, <2>1, FlattensElement
<1>4. CASE ss = <<>>
  <2>1. FlattenSeq(tt) = e
    BY <1>1, <1>2, <1>3, <1>4
  <2>2. FlattenSeq(ss) = <<>>
    BY <1>4 DEF FlattenSeq
  <2> QED
    BY <2>1, <2>2, ConcatEmptySeq DEF tt
<1>5. CASE ss # <<>>
  <2>1. PICK g : Flattens(g, ss, Len(ss)) /\ FlattenSeq(ss) = g[Len(ss)]
    BY <1>5, FlattenIs
  <2>2. Len(ss) \in Nat \ {0}
    BY <1>5, EmptySeq
  <2>3. g[Len(ss)] = h[Len(ss)]
    <3>1. /\ Len(tt) \in Nat /\ Len(ss) <= Len(tt)
          /\ \A i \in 1..Len(ss) : ss[i] = tt[i]
      BY <1>1
    <3>2. \A i \in 1..Len(ss) : g[i] = h[i]
      <4> DEFINE m == Len(ss)
                 n == Len(tt)
      <4>1. m \in Nat /\ n \in Nat /\ m <= n
        BY <2>2, <3>1
      <4>2. Flattens(g, ss, m) /\ Flattens(h, tt, n)
        BY <1>2, <2>1
      <4>3. \A i \in 1..m : ss[i] = tt[i]
        BY <3>1
      <4> HIDE DEF m, n
      <4>4. \A i \in 1..m : g[i] = h[i]
        BY <4>1, <4>2, <4>3, FlattensUnique
      <4> QED
        BY <4>4 DEF m
    <3> QED
      BY <2>2, <3>2
  <2> QED
    BY <1>1, <1>2, <1>3, <2>1, <2>2, <2>3 DEF tt
<1> QED
  BY <1>4, <1>5

\* The first n sequences are the first n - 1 and the n-th.
LEMMA FlattenFirst ==
    ASSUME NEW S, NEW ss \in Seq(Seq(S)), NEW n \in 1..Len(ss)
    PROVE  /\ FlattenSeq(SubSeq(ss, 1, n))
                = FlattenSeq(SubSeq(ss, 1, n - 1)) \o ss[n]
           /\ FlattenSeq(SubSeq(ss, 1, n - 1)) \in Seq(S)
           /\ ss[n] \in Seq(S)
<1> DEFINE T == Seq(S)
<1>0. ss \in Seq(T) /\ Len(ss) \in Nat
  BY LenProperties
<1>1. ss[n] \in T /\ \A i \in 1..Len(ss) : ss[i] \in T
  BY ElementOfSeq
<1>2. SubSeq(ss, 1, n - 1) \in Seq(T)
  <2>1. n - 1 \in Int /\ \A i \in 1..(n - 1) : ss[i] \in T
    BY <1>0, <1>1
  <2> HIDE DEF T
  <2> QED
    BY <2>1, SubSeqProperties
<1>3. SubSeq(ss, 1, n) = SubSeq(ss, 1, n - 1) \o <<ss[n]>>
  <2>1. 1 \in 1..Len(ss)
    BY <1>0
  <2> QED
    BY <2>1, SubSeqRecursiveSecond
<1>4. SubSeq(ss, 1, n) = Append(SubSeq(ss, 1, n - 1), ss[n])
  <2> HIDE DEF T
  <2> QED
    BY <1>1, <1>2, <1>3, AppendIsConcat
<1> QED
  BY <1>1, <1>2, <1>4, FlattenAppend, FlattenType

\* One sequence after another, under a name the provers do not expand.
Cat(s, t) == s \o t

\* ConcatAssociative for Cat, with its quantifiers inside.
LEMMA CatIn ==
    \A S : \A x, y, z \in Seq(S) : Cat(Cat(x, y), z) = Cat(x, Cat(y, z))
<1>1. \A S : \A x, y, z \in Seq(S) : (x \o y) \o z = x \o (y \o z)
  BY ConcatAssociative
<1> QED
  BY <1>1 DEF Cat

\* The first m sequences flatten to a prefix of what the first n flatten to.
LEMMA FlattenPrefix ==
    ASSUME NEW S, NEW ss \in Seq(Seq(S)), NEW m \in 0..Len(ss)
    PROVE  \A n \in m..Len(ss) : \E t \in Seq(S) :
             FlattenSeq(SubSeq(ss, 1, n)) = FlattenSeq(SubSeq(ss, 1, m)) \o t
<1> DEFINE First == [n \in 0..Len(ss) |-> FlattenSeq(SubSeq(ss, 1, n))]
           T == {k \in Nat : m + k <= Len(ss) =>
                    \E t \in Seq(S) : First[m + k] = First[m] \o t}
<1>0. Len(ss) \in Nat
  BY LenProperties
<1>1. \A n \in 1..Len(ss) : /\ First[n] = First[n-1] \o ss[n]
                            /\ First[n-1] \in Seq(S)
                            /\ ss[n] \in Seq(S)
  <2>1. ASSUME NEW n \in 1..Len(ss)
        PROVE  n \in 0..Len(ss) /\ n - 1 \in 0..Len(ss)
    BY <1>0
  <2> QED
    BY <2>1, FlattenFirst
<1>2. First[m] \in Seq(S)
  <2>1. CASE m = 0
    <3>1. SubSeq(ss, 1, 0) = <<>>
      BY SubSeqEmpty
    <3>2. First[0] = <<>>
      BY <1>0, <3>1 DEF FlattenSeq
    <3> QED
      BY <2>1, <3>2, EmptySeq
  <2>2. CASE m # 0
    <3>1. m \in 1..Len(ss)
      BY <1>0, <2>2
    <3> HIDE DEF First
    <3> QED
      BY <1>1, <3>1, ConcatProperties
  <2> QED
    BY <2>1, <2>2
<1>3. 0 \in T
  <2>1. m + 0 = m
    OBVIOUS
  <2>2. First[m] = First[m] \o <<>>
    <3> HIDE DEF First
    <3> QED
      BY <1>2, ConcatEmptySeq
  <2> HIDE DEF First
  <2> QED
    BY <2>1, <2>2, EmptySeq
<1>4. ASSUME NEW k \in Nat, k \in T PROVE k + 1 \in T
  <2> HIDE DEF First
  <2> SUFFICES ASSUME m + (k + 1) <= Len(ss)
               PROVE  \E t \in Seq(S) : First[m + (k + 1)] = First[m] \o t
    <3>1. k + 1 \in Nat
      OBVIOUS
    <3> QED
      BY <3>1
  <2>1. m + k + 1 \in 1..Len(ss) /\ (m + k + 1) - 1 = m + k
        /\ m + (k + 1) = m + k + 1
    BY <1>0
  <2>2. PICK t \in Seq(S) : First[m + k] = First[m] \o t
    BY <1>0, <1>4
  <2>3. /\ First[m + k + 1] = First[m + k] \o ss[m + k + 1]
        /\ ss[m + k + 1] \in Seq(S)
    BY <1>1, <2>1
  <2>4. First[m + k + 1] = First[m] \o (t \o ss[m + k + 1])
    <3> DEFINE a == First[m]
               c == ss[m + k + 1]
    <3>1. a \in Seq(S) /\ c \in Seq(S) /\ First[m + k + 1] = (a \o t) \o c
      BY <1>2, <2>2, <2>3
    <3> HIDE DEF a, c
    <3>2. Cat(Cat(a, t), c) = Cat(a, Cat(t, c))
      BY <3>1, CatIn
    <3>3. (a \o t) \o c = a \o (t \o c)
      BY <3>2 DEF Cat
    <3> QED
      BY <3>1, <3>3 DEF a, c
  <2>5. t \o ss[m + k + 1] \in Seq(S)
    BY <2>3, ConcatProperties
  <2> QED
    BY <2>1, <2>4, <2>5
<1>5. Nat \subseteq T
  <2> HIDE DEF T
  <2> QED
    BY <1>3, <1>4, Induction
<1>6. ASSUME NEW n \in m..Len(ss)
      PROVE  \E t \in Seq(S) : First[n] = First[m] \o t
  <2>1. n - m \in Nat /\ m + (n - m) = n
    BY <1>0
  <2>2. n - m \in T
    <3> HIDE DEF T
    <3> QED
      BY <1>5, <2>1
  <2> HIDE DEF First
  <2>3. m + (n - m) <= Len(ss) =>
          \E t \in Seq(S) : First[m + (n - m)] = First[m] \o t
    BY <2>2
  <2>4. n <= Len(ss)
    BY <1>0
  <2> QED
    BY <2>1, <2>3, <2>4
<1>7. \A n \in m..Len(ss) : n \in 0..Len(ss)
  BY <1>0
<1> QED
  BY <1>6, <1>7

(***************************************************************************)
(* SumFunctionOnSet of module Functions, and MapThenSumSet of module       *)
(* FiniteSetsExt, which sum the values of a function over a finite set     *)
(***************************************************************************)
\* A property of subsets that every set has when all sets smaller by one
\* element have it, is one of all subsets of a finite set.
LEMMA SubsetInduction ==
    ASSUME NEW T, IsFiniteSet(T), NEW Q,
           \A s \in SUBSET T : (\A x \in s : s \ {x} \in Q) => s \in Q
    PROVE  SUBSET T \subseteq Q
<1> DEFINE R == StrictSubsetOrdering(T)
           F == FiniteSubsetsOf(T)
           U == {s \in SUBSET T : s \notin Q}
<1> SUFFICES ASSUME U # {} PROVE FALSE
  OBVIOUS
<1>1. IsWellFoundedOn(R, F)
  BY FS_StrictSubsetOrderingWellFounded
<1>2. U \subseteq F
  BY FS_Subset DEF FiniteSubsetsOf
<1>3. PICK s \in U : \A r \in U : <<r, s>> \notin R
  <2> HIDE DEF U, R, F
  <2> QED
    BY <1>1, <1>2, WFMin
<1>4. ASSUME NEW x \in s PROVE s \ {x} \in Q
  <2>1. s \ {x} \in SUBSET T /\ <<s \ {x}, s>> \in R
    BY DEF StrictSubsetOrdering
  <2> QED
    BY <1>3, <2>1
<1> QED
  BY <1>4

Element(s) == CHOOSE x \in s : TRUE

\* g computes the sums of f over the subsets of T.
Sums(g, f, T) ==
    g = [s \in SUBSET T |->
           IF s = {} THEN 0 ELSE f[Element(s)] + g[s \ {Element(s)}]]

\* SumFunctionOnSet is such a function, taken at the whole set.
LEMMA SumIs ==
    ASSUME NEW f, NEW T
    PROVE  SumFunctionOnSet(f, T) = (CHOOSE g : Sums(g, f, T))[T]
  BY DEF SumFunctionOnSet, FoldFunctionOnSet, MapThenFoldSet, Sums, Element

\* MapThenSumSet of what a function has is the same sum.
LEMMA MapSumIs ==
    ASSUME NEW f, NEW T
    PROVE  MapThenSumSet(LAMBDA x : f[x], T) = SumFunctionOnSet(f, T)
  BY DEF SumFunctionOnSet, FoldFunctionOnSet, MapThenFoldSet, MapThenSumSet

\* There is such a function: by induction on the size of the subsets that it
\* is right about.
LEMMA SumsExists ==
    ASSUME NEW f, NEW T, IsFiniteSet(T)
    PROVE  \E g : Sums(g, f, T)
<1> DEFINE Right(g, s) ==
             g[s] = IF s = {} THEN 0 ELSE f[Element(s)] + g[s \ {Element(s)}]
           N == {n \in Nat : \E g : \A s \in SUBSET T :
                   Cardinality(s) <= n => Right(g, s)}
<1>0. ASSUME NEW s \in SUBSET T, s # {}
      PROVE  /\ Element(s) \in s /\ s \ {Element(s)} \in SUBSET T
             /\ Cardinality(s \ {Element(s)}) = Cardinality(s) - 1
             /\ Cardinality(s) \in Nat
  <2>1. Element(s) \in s
    BY <1>0 DEF Element
  <2>2. IsFiniteSet(s)
    BY FS_Subset
  <2> QED
    BY <2>1, <2>2, FS_RemoveElement, FS_CardinalityType
<1>1. 0 \in N
  <2> DEFINE g == [s \in SUBSET T |-> 0]
  <2>1. ASSUME NEW s \in SUBSET T, Cardinality(s) <= 0 PROVE Right(g, s)
    <3>1. s = {}
      <4>1. IsFiniteSet(s)
        BY FS_Subset
      <4>2. Cardinality(s) = 0
        BY <2>1, <4>1, FS_CardinalityType
      <4> QED
        BY <4>1, <4>2, FS_EmptySet
    <3> QED
      BY <3>1
  <2> HIDE DEF g, Right
  <2> QED
    BY <2>1
<1>2. ASSUME NEW n \in Nat, n \in N PROVE n + 1 \in N
  <2>1. PICK g : \A s \in SUBSET T : Cardinality(s) <= n => Right(g, s)
    BY <1>2
  <2> DEFINE h == [s \in SUBSET T |->
               IF s = {} THEN 0 ELSE f[Element(s)] + g[s \ {Element(s)}]]
  <2>2. ASSUME NEW s \in SUBSET T, Cardinality(s) <= n PROVE h[s] = g[s]
    BY <2>1, <2>2
  <2>3. ASSUME NEW s \in SUBSET T, Cardinality(s) <= n + 1 PROVE Right(h, s)
    <3>1. CASE s = {}
      BY <3>1
    <3>2. CASE s # {}
      <4> DEFINE r == s \ {Element(s)}
      <4>1. r \in SUBSET T /\ Cardinality(r) <= n
        BY <1>0, <2>3, <3>2
      <4>2. h[s] = f[Element(s)] + g[r]
        BY <3>2
      <4>3. h[r] = g[r]
        BY <2>2, <4>1
      <4> HIDE DEF h
      <4> QED
        BY <3>2, <4>2, <4>3
    <3> QED
      BY <3>1, <3>2
  <2> HIDE DEF h, Right
  <2> QED
    BY <2>3
<1>3. Nat \subseteq N
  <2> HIDE DEF N
  <2> QED
    BY <1>1, <1>2, Induction
<1>4. Cardinality(T) \in N
  BY <1>3, FS_CardinalityType
<1>5. PICK g : \A s \in SUBSET T : Cardinality(s) <= Cardinality(T) => Right(g, s)
  BY <1>4
<1>6. \A s \in SUBSET T : Right(g, s)
  BY <1>5, FS_Subset
<1> DEFINE k == [s \in SUBSET T |-> g[s]]
<1>7. ASSUME NEW s \in SUBSET T PROVE Right(k, s)
  <2>1. s # {} => s \ {Element(s)} \in SUBSET T
    OBVIOUS
  <2> QED
    BY <1>6, <2>1
<1>8. Sums(k, f, T)
  <2>1. k = [s \in SUBSET T |-> k[s]]
    OBVIOUS
  <2> HIDE DEF k
  <2> QED
    BY <1>7, <2>1 DEF Sums
<1> QED
  BY <1>8

\* What such a function has for a set of elements.
LEMMA SumsElement ==
    ASSUME NEW g, NEW f, NEW T, Sums(g, f, T), NEW s \in SUBSET T
    PROVE  g[s] = IF s = {} THEN 0
                  ELSE f[Element(s)] + g[s \ {Element(s)}]
<1> DEFINE h == [r \in SUBSET T |->
                   IF r = {} THEN 0 ELSE f[Element(r)] + g[r \ {Element(r)}]]
<1>1. g = h
  BY DEF Sums
<1>2. h[s] = IF s = {} THEN 0 ELSE f[Element(s)] + g[s \ {Element(s)}]
  OBVIOUS
<1> HIDE DEF h
<1> QED
  BY <1>1, <1>2

\* The sum of numbers is a number, and the sum of zeros is zero.
LEMMA SumType ==
    ASSUME NEW T, IsFiniteSet(T), NEW f \in [T -> Nat]
    PROVE  /\ SumFunctionOnSet(f, T) \in Nat
           /\ (\A x \in T : f[x] = 0) => SumFunctionOnSet(f, T) = 0
<1> DEFINE g == CHOOSE h : Sums(h, f, T)
           Q == {s \in SUBSET T : /\ g[s] \in Nat
                                  /\ (\A x \in T : f[x] = 0) => g[s] = 0}
<1>1. Sums(g, f, T)
  BY SumsExists
<1> HIDE DEF g
<1>2. ASSUME NEW s \in SUBSET T, \A x \in s : s \ {x} \in Q PROVE s \in Q
  <2>1. CASE s = {}
    <3>1. g[s] = 0
      BY <1>1, <2>1, SumsElement
    <3> QED
      BY <3>1
  <2>2. CASE s # {}
    <3> DEFINE e == Element(s)
    <3>1. e \in s
      BY <2>2 DEF Element
    <3>2. s \ {e} \in Q /\ f[e] \in Nat
      BY <1>2, <3>1
    <3>3. g[s] = f[e] + g[s \ {e}]
      BY <1>1, <2>2, SumsElement
    <3> HIDE DEF e
    <3> QED
      BY <3>1, <3>2, <3>3
  <2> QED
    BY <2>1, <2>2
<1>3. SUBSET T \subseteq Q
  <2> HIDE DEF Q
  <2> QED
    BY <1>2, SubsetInduction
<1>4. SumFunctionOnSet(f, T) = g[T]
  BY SumIs DEF g
<1> QED
  BY <1>3, <1>4

\* Sums of integers are integers, and any element may be taken out first.
LEMMA SumsAny ==
    ASSUME NEW T, IsFiniteSet(T), NEW f \in [T -> Int], NEW g, Sums(g, f, T)
    PROVE  \A s \in SUBSET T : /\ g[s] \in Int
                               /\ \A x \in s : g[s] = f[x] + g[s \ {x}]
<1> DEFINE P == {s \in SUBSET T : g[s] \in Int}
           Q == {s \in SUBSET T : \A x \in s : g[s] = f[x] + g[s \ {x}]}
<1>1. ASSUME NEW s \in SUBSET T, s # {}
      PROVE  /\ Element(s) \in s /\ f[Element(s)] \in Int
             /\ g[s] = f[Element(s)] + g[s \ {Element(s)}]
  <2>1. Element(s) \in s
    BY <1>1 DEF Element
  <2> QED
    BY <1>1, <2>1, SumsElement
<1>2. ASSUME NEW s \in SUBSET T, \A x \in s : s \ {x} \in P PROVE s \in P
  <2>1. CASE s = {}
    <3>1. g[s] = 0
      BY <2>1, SumsElement
    <3> QED
      BY <3>1
  <2>2. CASE s # {}
    <3> DEFINE e == Element(s)
    <3>1. e \in s /\ f[e] \in Int /\ g[s] = f[e] + g[s \ {e}]
      BY <1>1, <2>2
    <3>2. g[s \ {e}] \in Int
      BY <1>2, <3>1
    <3> HIDE DEF e
    <3> QED
      BY <3>1, <3>2
  <2> QED
    BY <2>1, <2>2
<1>3. SUBSET T \subseteq P
  <2> HIDE DEF P
  <2> QED
    BY <1>2, SubsetInduction
<1>4. ASSUME NEW s \in SUBSET T, \A x \in s : s \ {x} \in Q PROVE s \in Q
  <2> SUFFICES ASSUME NEW x \in s PROVE g[s] = f[x] + g[s \ {x}]
    OBVIOUS
  <2> DEFINE e == Element(s)
             r == (s \ {e}) \ {x}
  <2>1. e \in s /\ g[s] = f[e] + g[s \ {e}]
    BY <1>1
  <2>2. CASE x = e
    BY <2>1, <2>2
  <2>3. CASE x # e
    <3>1. g[s \ {e}] = f[x] + g[r]
      BY <1>4, <2>1, <2>3
    <3>2. g[s \ {x}] = f[e] + g[r]
      <4>1. (s \ {x}) \ {e} = r
        OBVIOUS
      <4> QED
        BY <1>4, <2>1, <2>3, <4>1
    <3>3. g[r] \in Int /\ f[x] \in Int /\ f[e] \in Int
      BY <1>3, <2>1
    <3> HIDE DEF e, r
    <3> QED
      BY <2>1, <3>1, <3>2, <3>3
  <2> QED
    BY <2>2, <2>3
<1>5. SUBSET T \subseteq Q
  <2> HIDE DEF Q
  <2> QED
    BY <1>4, SubsetInduction
<1> QED
  BY <1>3, <1>5

\* A function on the subsets of T from which any element may be taken first.
Takes(g, f, T) ==
    /\ g[{}] = 0
    /\ \A s \in SUBSET T : g[s] \in Int /\ \A x \in s : g[s] = f[x] + g[s \ {x}]

\* A sum is the value of such a function at T.
LEMMA SumTakes ==
    ASSUME NEW T, IsFiniteSet(T), NEW f \in [T -> Int]
    PROVE  \E g : SumFunctionOnSet(f, T) = g[T] /\ Takes(g, f, T)
<1> DEFINE g == CHOOSE k : Sums(k, f, T)
<1>1. Sums(g, f, T)
  BY SumsExists
<1>2. SumFunctionOnSet(f, T) = g[T]
  BY SumIs DEF g
<1> HIDE DEF g
<1>3. g[{}] = 0
  BY <1>1, SumsElement
<1>4. \A s \in SUBSET T : g[s] \in Int /\ \A x \in s : g[s] = f[x] + g[s \ {x}]
  BY <1>1, SumsAny
<1> QED
  BY <1>2, <1>3, <1>4 DEF Takes

\* A function that differs at one place has a sum that differs as much.
LEMMA SumChange ==
    ASSUME NEW T, IsFiniteSet(T), NEW f \in [T -> Nat], NEW h \in [T -> Nat],
           NEW a \in T, \A x \in T \ {a} : h[x] = f[x]
    PROVE  SumFunctionOnSet(h, T) = SumFunctionOnSet(f, T) + (h[a] - f[a])
<1>1. f \in [T -> Int] /\ h \in [T -> Int]
  OBVIOUS
<1>2. PICK g : SumFunctionOnSet(f, T) = g[T] /\ Takes(g, f, T)
  BY <1>1, SumTakes
<1>3. PICK j : SumFunctionOnSet(h, T) = j[T] /\ Takes(j, h, T)
  BY <1>1, SumTakes
<1> DEFINE R == T \ {a}
           Q == {s \in SUBSET R : g[s] = j[s]}
<1>4. ASSUME NEW s \in SUBSET R, \A x \in s : s \ {x} \in Q PROVE s \in Q
  <2>1. CASE s = {}
    BY <1>2, <1>3, <2>1 DEF Takes
  <2>2. CASE s # {}
    <3>1. PICK x : x \in s
      BY <2>2
    <3>2. g[s] = f[x] + g[s \ {x}] /\ j[s] = h[x] + j[s \ {x}]
      BY <1>2, <1>3, <3>1 DEF Takes
    <3>3. f[x] = h[x] /\ g[s \ {x}] = j[s \ {x}]
      BY <1>4, <3>1
    <3> QED
      BY <3>2, <3>3
  <2> QED
    BY <2>1, <2>2
<1>5. R \in Q
  <2>1. IsFiniteSet(R)
    BY FS_Subset
  <2> HIDE DEF Q, R
  <2> QED
    BY <1>4, <2>1, SubsetInduction
<1>6. g[T] = f[a] + g[R] /\ j[T] = h[a] + j[R] /\ g[R] \in Int
  BY <1>2, <1>3 DEF Takes
<1>7. g[R] = j[R] /\ f[a] \in Nat /\ h[a] \in Nat
  BY <1>5
<1> HIDE DEF R, Q
<1> QED
  BY <1>2, <1>3, <1>6, <1>7

\* A sum is computed by some function of the subsets.
LEMMA SumComputed ==
    ASSUME NEW T, IsFiniteSet(T), NEW f
    PROVE  \E g : Sums(g, f, T) /\ SumFunctionOnSet(f, T) = g[T]
<1> DEFINE g == CHOOSE h : Sums(h, f, T)
<1>1. Sums(g, f, T)
  BY SumsExists
<1>2. SumFunctionOnSet(f, T) = g[T]
  BY SumIs
<1> QED
  BY <1>1, <1>2

\* One more element adds its value to the sum.
LEMMA SumExtend ==
    ASSUME NEW U, IsFiniteSet(U), NEW a \in U,
           NEW T \in SUBSET U, a \notin T, U \ {a} \subseteq T,
           NEW f \in [T -> Int], NEW h \in [U -> Int], \A x \in T : h[x] = f[x]
    PROVE  /\ SumFunctionOnSet(f, T) \in Int
           /\ SumFunctionOnSet(h, U) = SumFunctionOnSet(f, T) + h[a]
<1>0. IsFiniteSet(T)
  BY FS_Subset
<1>1. PICK g : Sums(g, f, T) /\ SumFunctionOnSet(f, T) = g[T]
  BY <1>0, SumComputed
<1>2. PICK j : Sums(j, h, U) /\ SumFunctionOnSet(h, U) = j[U]
  BY SumComputed
<1>a. \A s \in SUBSET T :
         g[s] = IF s = {} THEN 0 ELSE f[Element(s)] + g[s \ {Element(s)}]
  <2>1. Sums(g, f, T)
    BY <1>1
  <2> QED
    BY <2>1, SumsElement
<1> DEFINE Q == {s \in SUBSET T : j[s] = g[s]}
<1>3. ASSUME NEW s \in SUBSET T, \A x \in s : s \ {x} \in Q PROVE s \in Q
  <2>1. s \in SUBSET U
    OBVIOUS
  <2>2. CASE s = {}
    BY <1>1, <1>2, <2>1, <2>2, SumsElement
  <2>3. CASE s # {}
    <3>1. Element(s) \in s
      BY <2>3 DEF Element
    <3>2. g[s] = f[Element(s)] + g[s \ {Element(s)}]
      BY <1>a, <2>3
    <3>3. j[s] = h[Element(s)] + j[s \ {Element(s)}]
      BY <1>2, <2>1, <2>3, SumsElement
    <3> QED
      BY <1>3, <3>1, <3>2, <3>3
  <2> QED
    BY <2>2, <2>3
<1>4. T \in Q
  <2>1. SUBSET T \subseteq Q
    <3> HIDE DEF Q
    <3> QED
      BY <1>0, <1>3, SubsetInduction
  <2> QED
    BY <2>1
<1>5. g[T] \in Int
  BY <1>0, <1>1, SumsAny
<1>6. j[U] = h[a] + j[T]
  <2>1. j[U] = h[a] + j[U \ {a}]
    BY <1>2, SumsAny
  <2>2. U \ {a} = T
    OBVIOUS
  <2> QED
    BY <2>1, <2>2
<1>7. h[a] \in Int
  OBVIOUS
<1> QED
  BY <1>1, <1>2, <1>4, <1>5, <1>6, <1>7

\* The sum over nothing.
LEMMA SumEmpty == ASSUME NEW f PROVE SumFunctionOnSet(f, {}) = 0
<1> DEFINE g == CHOOSE h : Sums(h, f, {})
<1>1. Sums(g, f, {})
  BY FS_EmptySet, SumsExists
<1>2. SumFunctionOnSet(f, {}) = g[{}]
  BY SumIs
<1> HIDE DEF g
<1> QED
  BY <1>1, <1>2, SumsElement

(***************************************************************************)
(* Max and Min of module FiniteSetsExt                                     *)
(***************************************************************************)
\* What is as large as any, or as small as any, is the maximum or minimum.
LEMMA MaxIs ==
    ASSUME NEW S \in SUBSET Int, NEW m \in S, \A x \in S : x <= m
    PROVE  Max(S) = m
<1> DEFINE M == CHOOSE x \in S : \A y \in S : x >= y
<1>1. M \in S /\ \A y \in S : M >= y
  <2>1. \E x \in S : \A y \in S : x >= y
    OBVIOUS
  <2> HIDE DEF M
  <2> QED
    BY <2>1 DEF M
<1>2. Max(S) = M
  BY DEF Max
<1> HIDE DEF M
<1> QED
  BY <1>1, <1>2

\* The same for the minimum.
LEMMA MinIs ==
    ASSUME NEW S \in SUBSET Int, NEW m \in S, \A x \in S : m <= x
    PROVE  Min(S) = m
<1> DEFINE M == CHOOSE x \in S : \A y \in S : x =< y
<1>1. M \in S /\ \A y \in S : M <= y
  <2>1. \E x \in S : \A y \in S : x =< y
    OBVIOUS
  <2> HIDE DEF M
  <2> QED
    BY <2>1 DEF M
<1>2. Min(S) = M
  BY DEF Min
<1> HIDE DEF M
<1> QED
  BY <1>1, <1>2

(***************************************************************************)
(* FoldLeft of module SequencesExt                                         *)
(***************************************************************************)
\* A set of positions of a sequence has a last one.
LEMMA LastPosition ==
    ASSUME NEW n \in Nat, NEW s \in SUBSET (1..n), s # {}
    PROVE  /\ Max(s) \in s /\ s \ {Max(s)} \in SUBSET (1..n)
           /\ Cardinality(s) \in Nat
           /\ Cardinality(s \ {Max(s)}) = Cardinality(s) - 1
<1>1. IsFiniteSet(s)
  <2>1. IsFiniteSet(1..n)
    BY FS_Interval
  <2> QED
    BY <2>1, FS_Subset
<1>2. PICK m \in s : \A k \in s : k <= m
  <2> DEFINE S == {n - k : k \in s}
  <2>1. S \in SUBSET Nat /\ S # {}
    <3>1. \A k \in s : n - k \in Nat
      OBVIOUS
    <3>2. \E k : k \in s
      OBVIOUS
    <3> QED
      BY <3>1, <3>2
  <2> HIDE DEF S
  <2>2. PICK d \in S : \A e \in S : d <= e
    BY <2>1, LeastElement
  <2>3. PICK m \in s : d = n - m
    BY DEF S
  <2>4. ASSUME NEW k \in s PROVE k <= m
    <3>1. n - k \in S
      BY DEF S
    <3>2. n - m <= n - k /\ k \in Nat /\ m \in Nat
      BY <2>2, <2>3, <3>1
    <3> QED
      BY <3>2
  <2> QED
    BY <2>4
<1>3. Max(s) = m
  <2>1. s \in SUBSET Int
    OBVIOUS
  <2> QED
    BY <1>2, <2>1, MaxIs
<1> QED
  BY <1>1, <1>3, FS_RemoveElement, FS_CardinalityType

\* The positions up to n, less the last.
LEMMA UpToLast ==
    ASSUME NEW N \in Nat, NEW n \in 1..N
    PROVE  /\ 1..n \subseteq 1..N /\ 1..n # {}
           /\ Max(1..n) = n /\ (1..n) \ {n} = 1..(n - 1)
<1>1. n \in 1..n /\ 1..n \in SUBSET Int /\ \A x \in 1..n : x <= n
  OBVIOUS
<1>2. Max(1..n) = n
  BY <1>1, MaxIs
<1>3. 1..n \subseteq 1..N /\ 1..n # {} /\ (1..n) \ {n} = 1..(n - 1)
  BY <1>1
<1> QED
  BY <1>2, <1>3

\* g folds the sequence q, from its end, over any set of its positions.
Folds(g, step, first, q) ==
    \A s \in SUBSET (1..Len(q)) :
      g[s] = IF s = {} THEN first ELSE step[<<g[s \ {Max(s)}], q[Max(s)]>>]

\* There is such a function: by induction on the size of the sets of positions
\* that it is right about.
LEMMA FoldsExists ==
    ASSUME NEW X, NEW Y, NEW first \in X, NEW q \in Seq(Y),
           NEW step \in [X \X Y -> X]
    PROVE  \E g \in [SUBSET (1..Len(q)) -> X] : Folds(g, step, first, q)
<1> DEFINE L == Len(q)
           T == SUBSET (1..L)
           Right(g, s) == g[s] = IF s = {} THEN first
                                 ELSE step[<<g[s \ {Max(s)}], q[Max(s)]>>]
           N == {n \in Nat : \E g \in [T -> X] : \A s \in T :
                   Cardinality(s) <= n => Right(g, s)}
<1>0. L \in Nat /\ \A i \in 1..L : q[i] \in Y
  BY LenProperties, ElementOfSeq
<1>1. ASSUME NEW s \in T, s # {}
      PROVE  /\ q[Max(s)] \in Y /\ s \ {Max(s)} \in T
             /\ Cardinality(s \ {Max(s)}) = Cardinality(s) - 1
             /\ Cardinality(s) \in Nat
  <2>1. Max(s) \in s /\ s \ {Max(s)} \in T /\ Cardinality(s) \in Nat
        /\ Cardinality(s \ {Max(s)}) = Cardinality(s) - 1
    BY <1>0, <1>1, LastPosition
  <2> QED
    BY <1>0, <2>1
<1>2. ASSUME NEW s \in T PROVE Cardinality(s) \in Nat /\ Cardinality(s) <= L
                               /\ (Cardinality(s) <= 0 => s = {})
  <2>1. IsFiniteSet(1..L) /\ Cardinality(1..L) = L
    BY <1>0, FS_Interval
  <2>2. IsFiniteSet(s) /\ Cardinality(s) <= L
    BY <2>1, FS_Subset
  <2> QED
    BY <2>2, FS_CardinalityType, FS_EmptySet
<1> HIDE DEF L, T
<1>3. 0 \in N
  <2> DEFINE g == [s \in T |-> first]
  <2>1. g \in [T -> X]
    OBVIOUS
  <2>2. ASSUME NEW s \in T, Cardinality(s) <= 0 PROVE Right(g, s)
    BY <1>2, <2>2
  <2> HIDE DEF g, Right
  <2> QED
    BY <2>1, <2>2
<1>4. ASSUME NEW n \in Nat, n \in N PROVE n + 1 \in N
  <2>1. PICK g \in [T -> X] : \A s \in T : Cardinality(s) <= n => Right(g, s)
    BY <1>4
  <2> DEFINE h == [s \in T |-> IF s = {} THEN first
                               ELSE step[<<g[s \ {Max(s)}], q[Max(s)]>>]]
  <2>2. h \in [T -> X]
    <3>1. ASSUME NEW s \in T, s # {}
          PROVE  step[<<g[s \ {Max(s)}], q[Max(s)]>>] \in X
      BY <1>1, <3>1
    <3> QED
      BY <3>1
  <2>3. ASSUME NEW s \in T, Cardinality(s) <= n PROVE h[s] = g[s]
    BY <2>1, <2>3
  <2>4. ASSUME NEW s \in T, Cardinality(s) <= n + 1 PROVE Right(h, s)
    <3>1. CASE s = {}
      BY <3>1
    <3>2. CASE s # {}
      <4> DEFINE r == s \ {Max(s)}
      <4>1. r \in T /\ Cardinality(r) <= n
        <5>1. r \in T /\ Cardinality(r) = Cardinality(s) - 1 /\ Cardinality(s) \in Nat
          BY <1>1, <3>2
        <5> QED
          BY <5>1, <2>4
      <4>2. h[s] = step[<<g[r], q[Max(s)]>>]
        BY <3>2
      <4>3. h[r] = g[r]
        BY <2>3, <4>1
      <4> HIDE DEF h
      <4> QED
        BY <3>2, <4>2, <4>3
    <3> QED
      BY <3>1, <3>2
  <2> HIDE DEF h, Right
  <2> QED
    BY <2>2, <2>4
<1>5. Nat \subseteq N
  <2> HIDE DEF N
  <2> QED
    BY <1>3, <1>4, Induction
<1>6. PICK g \in [T -> X] : \A s \in T : Cardinality(s) <= L => Right(g, s)
  BY <1>0, <1>5
<1>7. \A s \in T : Right(g, s)
  BY <1>2, <1>6
<1> QED
  BY <1>7 DEF Folds, T, L

\* it folds q where what it has folded before is in X.
FoldsIn(X, Y, it, step, first, q) ==
    /\ first \in X /\ q \in Seq(Y) /\ step \in [X \X Y -> X]
    /\ it[{}] = first
    /\ \A s \in SUBSET (1..Len(q)) : s # {} /\ it[s \ {Max(s)}] \in X =>
         it[s] = step[<<it[s \ {Max(s)}], q[Max(s)]>>]

\* g has what has been folded at each position.
Steps(X, g, step, first, q) ==
    /\ g \in [0..Len(q) -> X] /\ g[0] = first
    /\ \A n \in 1..Len(q) : g[n] = step[<<g[n - 1], q[n]>>]

\* What such a function folds from the first position on, step by step.
LEMMA FoldSteps ==
    ASSUME NEW X, NEW Y, NEW it, NEW step, NEW first, NEW q,
           FoldsIn(X, Y, it, step, first, q)
    PROVE  \E g : Steps(X, g, step, first, q) /\ g[Len(q)] = it[1..Len(q)]
<1> DEFINE L == Len(q)
           g == [n \in 0..L |-> it[1..n]]
           N == {n \in Nat : n <= L => g[n] \in X}
<1> first \in X /\ q \in Seq(Y) /\ step \in [X \X Y -> X]
  BY DEF FoldsIn
<1>0. L \in Nat /\ \A i \in 1..L : q[i] \in Y
  BY LenProperties, ElementOfSeq
<1>1. g[0] = first
  <2>1. 1..0 = {}
    OBVIOUS
  <2>2. it[{}] = first
    BY DEF FoldsIn
  <2> QED
    BY <1>0, <2>1, <2>2
<1>2. ASSUME NEW n \in 1..L, g[n - 1] \in X
      PROVE  g[n] = step[<<g[n - 1], q[n]>>] /\ g[n] \in X
  <2>1. /\ 1..n \in SUBSET (1..L) /\ 1..n # {}
        /\ Max(1..n) = n /\ (1..n) \ {n} = 1..(n - 1)
    BY <1>0, UpToLast
  <2>2. g[n] = it[1..n] /\ g[n - 1] = it[1..(n - 1)]
    BY <1>0
  <2> HIDE DEF g
  <2>3. it[1..n] = step[<<it[1..(n - 1)], q[n]>>]
    BY <1>2, <2>1, <2>2 DEF FoldsIn
  <2> QED
    BY <1>0, <1>2, <2>2, <2>3
<1> HIDE DEF g
<1>3. 0 \in N
  BY <1>1
<1>4. ASSUME NEW n \in Nat, n \in N PROVE n + 1 \in N
  <2> SUFFICES ASSUME n + 1 <= L PROVE g[n + 1] \in X
    OBVIOUS
  <2>1. n + 1 \in 1..L /\ (n + 1) - 1 = n /\ g[n] \in X
    BY <1>0, <1>4
  <2> QED
    BY <1>2, <2>1
<1>5. Nat \subseteq N
  <2> HIDE DEF N
  <2> QED
    BY <1>3, <1>4, Induction
<1>6. \A n \in 0..L : g[n] \in X
  BY <1>0, <1>5
<1>7. \A n \in 1..L : g[n] = step[<<g[n - 1], q[n]>>]
  <2>1. ASSUME NEW n \in 1..L PROVE n - 1 \in 0..L
    BY <1>0
  <2> QED
    BY <1>2, <1>6, <2>1
<1>8. g \in [0..L -> X] /\ g[L] = it[1..L]
  BY <1>0, <1>6 DEF g
<1> QED
  BY <1>1, <1>7, <1>8 DEF Steps
=============================================================================
