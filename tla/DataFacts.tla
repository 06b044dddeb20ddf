----------------------------- MODULE DataFacts -----------------------------
(***************************************************************************)
(* What the proofs share about the data of the models: sequences, functions *)
(* defined by recursion, the rationals of module Rationals and their sums.  *)
(***************************************************************************)
EXTENDS Rationals, FiniteSetTheorems, SequenceTheorems, TLAPS

-----------------------------------------------------------------------------
(* Sequences.                                                               *)

\* The values of the elements do not matter: any sequence.
IsSeq(s) == s \in Seq({s[i] : i \in DOMAIN s})

\* x is s and one more element.
OneMore(s, x) == \E e \in {x[i] : i \in DOMAIN x} : x = Append(s, e)

\* The indices of a sequence.
LEMMA SeqIs ==
    ASSUME NEW s, IsSeq(s)
    PROVE  Len(s) \in Nat /\ DOMAIN s = 1..Len(s)
BY DEF IsSeq

\* A sequence of some set is a sequence.
LEMMA IsSeqIntro ==
    ASSUME NEW S, NEW s \in Seq(S)
    PROVE  IsSeq(s)
BY DEF IsSeq

\* Append to any sequence.
LEMMA AppendIs ==
    ASSUME NEW s, IsSeq(s), NEW e
    PROVE  /\ IsSeq(Append(s, e))
           /\ Len(s) \in Nat /\ Len(Append(s, e)) = Len(s) + 1
           /\ \A i \in 1..Len(s) : Append(s, e)[i] = s[i]
           /\ Append(s, e)[Len(s) + 1] = e
           /\ Append(s, e) # <<>>
           /\ OneMore(s, Append(s, e))
<1> DEFINE S == {s[i] : i \in DOMAIN s} \union {e}
           x == Append(s, e)
<1>1. s \in Seq(S)
  <2>1. s \in Seq({s[i] : i \in DOMAIN s})
    BY DEF IsSeq
  <2> QED BY <2>1
<1>2. /\ x \in Seq(S) /\ Len(s) \in Nat /\ Len(x) = Len(s) + 1
      /\ \A i \in 1..Len(s) : x[i] = s[i]
      /\ x[Len(s) + 1] = e
      /\ x # <<>>
  <2> HIDE DEF S
  <2>1. e \in S
    BY DEF S
  <2> QED BY <1>1, <2>1
<1> HIDE DEF S
<1>3. DOMAIN x = 1..Len(x)
  BY <1>2
<1>4. IsSeq(x)
  BY <1>2, <1>3 DEF IsSeq
<1>5. e \in {x[i] : i \in DOMAIN x}
  BY <1>2, <1>3
<1> QED BY <1>2, <1>4, <1>5 DEF OneMore

\* A sequence and one more element.
LEMMA OneMoreIs ==
    ASSUME NEW s, IsSeq(s), NEW x, OneMore(s, x)
    PROVE  /\ IsSeq(x) /\ x # <<>>
           /\ Len(s) \in Nat /\ Len(x) = Len(s) + 1
           /\ \A i \in 1..Len(s) : x[i] = s[i]
BY AppendIs DEF OneMore

\* The rest of a sequence.
LEMMA TailIs ==
    ASSUME NEW s, IsSeq(s), s # <<>>
    PROVE  /\ IsSeq(Tail(s)) /\ Len(s) \in Nat /\ Len(s) > 0 /\ Len(Tail(s)) = Len(s) - 1
           /\ \A i \in 1..(Len(s) - 1) : Tail(s)[i] = s[i + 1]
           /\ Head(s) = s[1]
<1> DEFINE S == {s[i] : i \in DOMAIN s}
<1>1. s \in Seq(S)
  BY DEF IsSeq
<1>2. /\ Tail(s) \in Seq(S) /\ Len(s) \in Nat /\ Len(s) > 0 /\ Len(Tail(s)) = Len(s) - 1
      /\ \A i \in 1..(Len(s) - 1) : Tail(s)[i] = s[i + 1]
      /\ Head(s) = s[1]
  <2> HIDE DEF S
  <2> QED BY <1>1
<1> HIDE DEF S
<1> QED BY <1>2, IsSeqIntro

\* The elements, and one more; what h gives for the elements of s, in order.
Elements(s) == {s[i] : i \in DOMAIN s}
Extended(s, e) == Append(s, e)
Maps(s, h, got) == got = [i \in DOMAIN s |-> h[s[i]]]

LEMMA ExtendedIs ==
    \A S, q, e, x : q \in Seq(S) /\ e \in S /\ x = Extended(q, e) =>
        /\ x \in Seq(S) /\ Len(q) \in Nat /\ Len(x) = Len(q) + 1
        /\ DOMAIN q = 1..Len(q) /\ DOMAIN x = 1..Len(x)
        /\ \A i \in 1..Len(q) : x[i] = q[i]
        /\ x[Len(q) + 1] = e
BY AppendProperties DEF Extended

LEMMA MapsExtended ==
    ASSUME NEW S, NEW s \in Seq(S), NEW h, NEW got, Maps(s, h, got), NEW e \in S,
           NEW t, t = Extended(s, e), NEW more, more = Extended(got, h[e])
    PROVE  /\ Maps(t, h, more)
           /\ Elements(t) = Elements(s) \union {e}
<1>1. /\ t \in Seq(S) /\ Len(s) \in Nat /\ Len(t) = Len(s) + 1
      /\ DOMAIN s = 1..Len(s) /\ DOMAIN t = 1..Len(t)
      /\ \A i \in 1..Len(s) : t[i] = s[i]
      /\ t[Len(s) + 1] = e
  BY ExtendedIs
<1> DEFINE T == {h[k] : k \in S}
<1>2. \A i \in DOMAIN s : s[i] \in S
  OBVIOUS
<1>3. got \in [1..Len(s) -> T]
  BY <1>1, <1>2 DEF Maps
<1>4. got \in Seq(T) /\ h[e] \in T
  BY <1>1, <1>3, SeqDef
<1>5. PICK o : o = h[e]
  OBVIOUS
<1>6. Len(got) = Len(s)
  BY <1>1, <1>3, <1>4
<1>7. more \in Seq(T) /\ Len(got) \in Nat /\ Len(more) = Len(got) + 1
      /\ DOMAIN got = 1..Len(got) /\ DOMAIN more = 1..Len(more)
      /\ (\A i \in 1..Len(got) : more[i] = got[i])
      /\ more[Len(got) + 1] = o
  <2> HIDE DEF T
  <2> QED BY <1>4, <1>5, ExtendedIs
<1>8. DOMAIN more = DOMAIN t /\ more = [i \in DOMAIN more |-> more[i]]
  BY <1>1, <1>6, <1>7
<1>9. \A i \in DOMAIN t : i \in 1..Len(s) \/ i = Len(s) + 1
  BY <1>1
<1>10. \A i \in DOMAIN t : more[i] = h[t[i]]
  <2> TAKE i \in DOMAIN t
  <2>1. CASE i \in 1..Len(s)
    <3>1. got[i] = h[s[i]]
      BY <1>1, <2>1 DEF Maps
    <3> QED BY <1>1, <1>6, <1>7, <2>1, <3>1
  <2>2. CASE i = Len(s) + 1
    BY <1>1, <1>5, <1>6, <1>7, <2>2
  <2> QED BY <1>9, <2>1, <2>2
<1>11. Maps(t, h, more)
  BY <1>8, <1>10 DEF Maps
<1>12. Elements(t) = Elements(s) \union {e}
  <2>1. Elements(t) \subseteq Elements(s) \union {e}
    BY <1>1, <1>9 DEF Elements
  <2>2. 1..Len(s) \subseteq DOMAIN t /\ Len(s) + 1 \in DOMAIN t
    BY <1>1
  <2>3. Elements(s) \union {e} \subseteq Elements(t)
    BY <1>1, <2>2 DEF Elements
  <2> QED BY <2>1, <2>3
<1> QED BY <1>11, <1>12

\* The index, before element i is taken out, of the element that ends up at k.
Skip(k, i) == IF k < i THEN k ELSE k + 1

LEMMA SkipIs ==
    ASSUME NEW n \in Nat, NEW i \in 1..n
    PROVE  /\ \A k \in 1..(n - 1) : Skip(k, i) \in 1..n /\ Skip(k, i) # i
           /\ \A k, l \in 1..(n - 1) : Skip(k, i) = Skip(l, i) => k = l
           /\ \A j \in 1..n : j # i => \E k \in 1..(n - 1) : Skip(k, i) = j
<1>1. ASSUME NEW j \in 1..n, j # i
      PROVE  \E k \in 1..(n - 1) : Skip(k, i) = j
  <2>1. CASE j < i
    <3>1. j \in 1..(n - 1) /\ Skip(j, i) = j
      BY <2>1 DEF Skip
    <3> QED BY <3>1
  <2>2. CASE j > i
    <3>1. j - 1 \in 1..(n - 1) /\ Skip(j - 1, i) = j
      BY <2>2 DEF Skip
    <3> QED BY <3>1
  <2> QED BY <1>1, <2>1, <2>2
<1> QED BY <1>1 DEF Skip

\* An element is taken out: the others keep their order.
LEMMA WithoutIs ==
    ASSUME NEW S, NEW s \in Seq(S), NEW i \in 1..Len(s)
    PROVE  LET x == SubSeq(s, 1, i - 1) \o SubSeq(s, i + 1, Len(s))
           IN  /\ x \in Seq(S)
               /\ Len(x) = Len(s) - 1
               /\ \A k \in 1..Len(x) : x[k] = s[Skip(k, i)]
<1> DEFINE front == SubSeq(s, 1, i - 1)
           back  == SubSeq(s, i + 1, Len(s))
           x == front \o back
<1>1. /\ front \in Seq(S)
      /\ Len(front) = i - 1
      /\ \A j \in 1..(i - 1) : front[j] = s[j]
  OBVIOUS
<1>2. /\ back \in Seq(S)
      /\ Len(back) = Len(s) - i
      /\ \A j \in 1..(Len(s) - i) : back[j] = s[i + j]
  OBVIOUS
<1> HIDE DEF front, back
<1>3. x \in Seq(S) /\ Len(x) = Len(s) - 1
  BY <1>1, <1>2
<1>4. \A q \in 1 .. Len(front) + Len(back) :
          x[q] = IF q <= Len(front) THEN front[q] ELSE back[q - Len(front)]
  BY <1>1, <1>2, ConcatProperties
<1> HIDE DEF x
<1>5. ASSUME NEW k \in 1..Len(x) PROVE x[k] = s[Skip(k, i)]
  <2>0. Len(s) \in Nat /\ k \in 1 .. Len(front) + Len(back)
    BY <1>1, <1>2, <1>3
  <2>1. CASE k < i
    BY <1>1, <1>4, <2>0, <2>1 DEF Skip
  <2>2. CASE ~(k < i)
    <3>1. /\ k - Len(front) \in 1..(Len(s) - i)
          /\ i + (k - Len(front)) = k + 1
          /\ ~(k <= Len(front))
      BY <1>1, <1>2, <1>3, <2>0, <2>2
    <3> QED BY <1>2, <1>4, <2>0, <2>2, <3>1 DEF Skip
  <2> QED BY <2>1, <2>2
<1> QED BY <1>3, <1>5 DEF x, front, back

\* Where h occurs in s.
Occurrences(s, h) == {i \in DOMAIN s : s[i] = h}

LEMMA SameSize ==
    ASSUME NEW S, NEW T, IsFiniteSet(S), NEW f \in [S -> T],
           \A a, b \in S : f[a] = f[b] => a = b,
           \A y \in T : \E a \in S : f[a] = y
    PROVE  IsFiniteSet(T) /\ Cardinality(T) = Cardinality(S)
<1>1. f \in Bijection(S, T)
  BY DEF Bijection, Injection, Surjection, IsInjective
<1> QED BY <1>1, FS_Bijection DEF ExistsBijection

LEMMA DisjointSize ==
    ASSUME NEW S, NEW T, IsFiniteSet(S), IsFiniteSet(T), S \cap T = {}
    PROVE  /\ IsFiniteSet(S \union T)
           /\ Cardinality(S \union T) = Cardinality(S) + Cardinality(T)
<1>1. Cardinality(S \cap T) = 0
  BY FS_EmptySet
<1>2. Cardinality(S) \in Nat /\ Cardinality(T) \in Nat
  BY FS_CardinalityType
<1>3. /\ IsFiniteSet(S \union T)
      /\ Cardinality(S \union T) = Cardinality(S) + Cardinality(T) - Cardinality(S \cap T)
  BY FS_Union
<1> QED BY <1>1, <1>2, <1>3

LEMMA OccurrencesAre ==
    ASSUME NEW S, NEW s \in Seq(S), NEW h
    PROVE  IsFiniteSet(Occurrences(s, h)) /\ Cardinality(Occurrences(s, h)) \in Nat
<1>1. DOMAIN s = 1..Len(s) /\ Len(s) \in Int
  OBVIOUS
<1>2. IsFiniteSet(DOMAIN s) /\ Occurrences(s, h) \in SUBSET DOMAIN s
  BY <1>1, FS_Interval DEF Occurrences
<1> QED BY <1>2, FS_Subset, FS_CardinalityType

LEMMA OccurrencesAppend ==
    ASSUME NEW S, NEW s \in Seq(S), NEW e \in S, NEW h
    PROVE  Cardinality(Occurrences(Append(s, e), h)) =
               Cardinality(Occurrences(s, h)) + IF e = h THEN 1 ELSE 0
<1> DEFINE n == Len(s) + 1
           x == Append(s, e)
<1>1. /\ Len(s) \in Nat /\ DOMAIN s = 1..Len(s) /\ DOMAIN x = 1..n
      /\ \A i \in 1..Len(s) : x[i] = s[i]
      /\ x[n] = e
  OBVIOUS
<1>2. DOMAIN x = DOMAIN s \union {n} /\ n \notin DOMAIN s
  BY <1>1
<1> HIDE DEF n, x
<1>3. Occurrences(x, h) = IF e = h THEN Occurrences(s, h) \union {n} ELSE Occurrences(s, h)
  BY <1>1, <1>2 DEF Occurrences
<1>4. IsFiniteSet(Occurrences(s, h)) /\ Cardinality(Occurrences(s, h)) \in Nat
  BY OccurrencesAre
<1>5. n \notin Occurrences(s, h)
  BY <1>2 DEF Occurrences
<1>6. Cardinality(Occurrences(s, h) \union {n}) = Cardinality(Occurrences(s, h)) + 1
  BY <1>4, <1>5, FS_AddElement
<1> QED BY <1>3, <1>4, <1>6 DEF x

LEMMA OccurrencesConcat ==
    ASSUME NEW S, NEW s \in Seq(S), NEW t \in Seq(S), NEW h
    PROVE  Cardinality(Occurrences(s \o t, h)) =
               Cardinality(Occurrences(s, h)) + Cardinality(Occurrences(t, h))
<1> DEFINE n == Len(s)
           x == s \o t
           A == Occurrences(s, h)
           B == Occurrences(t, h)
           C == {i + n : i \in B}
           f == [i \in B |-> i + n]
<1>1. /\ n \in Nat /\ Len(t) \in Nat /\ DOMAIN s = 1..n /\ DOMAIN t = 1..Len(t)
      /\ DOMAIN x = 1..(n + Len(t))
  OBVIOUS
<1>2. \A i \in 1..(n + Len(t)) : x[i] = IF i <= n THEN s[i] ELSE t[i - n]
  BY <1>1, ConcatProperties
<1> HIDE DEF n, x
<1>3. \A i \in B : i \in Int /\ 1 <= i
  BY <1>1 DEF Occurrences
<1>4. IsFiniteSet(A) /\ IsFiniteSet(B)
  BY OccurrencesAre
<1> HIDE DEF B
<1>5. f \in [B -> C] /\ (\A a, b \in B : f[a] = f[b] => a = b) /\ \A y \in C : \E a \in B : f[a] = y
  BY <1>1, <1>3
<1>6. IsFiniteSet(C) /\ Cardinality(C) = Cardinality(B)
  <2> HIDE DEF f, C
  <2> QED BY <1>4, <1>5, SameSize
<1>7. A \cap C = {}
  BY <1>1, <1>3 DEF Occurrences
<1>8. Occurrences(x, h) = A \union C
  <2>1. ASSUME NEW i \in DOMAIN x, x[i] = h
        PROVE  i \in A \union C
    <3>1. CASE i <= n
      BY <1>1, <1>2, <2>1, <3>1 DEF Occurrences
    <3>2. CASE ~(i <= n)
      <4>1. i - n \in DOMAIN t /\ t[i - n] = h /\ (i - n) + n = i
        BY <1>1, <1>2, <2>1, <3>2
      <4>2. i - n \in B
        BY <4>1 DEF Occurrences, B
      <4> QED BY <4>1, <4>2
    <3> QED BY <3>1, <3>2
  <2>2. ASSUME NEW i \in A
        PROVE  i \in DOMAIN x /\ x[i] = h
    BY <1>1, <1>2 DEF Occurrences
  <2>3. ASSUME NEW i \in B
        PROVE  i + n \in DOMAIN x /\ x[i + n] = h
    <3>1. i \in 1..Len(t) /\ t[i] = h
      BY <1>1 DEF Occurrences, B
    <3>2. i + n \in 1..(n + Len(t)) /\ ~(i + n <= n) /\ (i + n) - n = i
      BY <1>1, <3>1
    <3> QED BY <1>1, <1>2, <3>1, <3>2
  <2> QED BY <2>1, <2>2, <2>3 DEF Occurrences
<1> HIDE DEF A, C
<1> QED BY <1>4, <1>6, <1>7, <1>8, DisjointSize DEF x, A, B

LEMMA OccurrencesWithout ==
    ASSUME NEW S, NEW s \in Seq(S), NEW i \in 1..Len(s), NEW h
    PROVE  LET x == SubSeq(s, 1, i - 1) \o SubSeq(s, i + 1, Len(s))
           IN  Cardinality(Occurrences(x, h)) =
                   Cardinality(Occurrences(s, h)) - IF s[i] = h THEN 1 ELSE 0
<1> DEFINE n == Len(s)
           x == SubSeq(s, 1, i - 1) \o SubSeq(s, i + 1, Len(s))
           A == Occurrences(s, h)
           B == Occurrences(x, h)
           f == [k \in B |-> Skip(k, i)]
<1>1. x \in Seq(S) /\ Len(x) = n - 1 /\ \A k \in 1..Len(x) : x[k] = s[Skip(k, i)]
  BY WithoutIs
<1>2. DOMAIN s = 1..n /\ n \in Nat
  OBVIOUS
<1> HIDE DEF x, n
<1>3. DOMAIN x = 1..(n - 1) /\ \A k \in DOMAIN x : x[k] = s[Skip(k, i)]
  BY <1>1
<1>4. /\ \A k \in 1..(n - 1) : Skip(k, i) \in 1..n /\ Skip(k, i) # i
      /\ \A k, l \in 1..(n - 1) : Skip(k, i) = Skip(l, i) => k = l
      /\ \A j \in 1..n : j # i => \E k \in 1..(n - 1) : Skip(k, i) = j
  BY <1>2, SkipIs DEF n
<1>5. IsFiniteSet(A) /\ Cardinality(A) \in Nat /\ IsFiniteSet(B)
  BY <1>1, OccurrencesAre
<1>6. f \in [B -> A \ {i}]
  BY <1>2, <1>3, <1>4 DEF Occurrences
<1>7. \A a, b \in B : f[a] = f[b] => a = b
  BY <1>3, <1>4 DEF Occurrences
<1>8. \A y \in A \ {i} : \E a \in B : f[a] = y
  <2>1. ASSUME NEW y \in A \ {i}
        PROVE  \E a \in B : f[a] = y
    <3>1. y \in 1..n /\ s[y] = h /\ y # i
      BY <1>2 DEF Occurrences
    <3>2. PICK k \in 1..(n - 1) : Skip(k, i) = y
      BY <1>4, <3>1
    <3>3. k \in B
      BY <1>3, <3>1, <3>2 DEF Occurrences
    <3> QED BY <3>2, <3>3
  <2> QED BY <2>1
<1>9. Cardinality(A \ {i}) = Cardinality(B)
  <2> HIDE DEF f, A, B
  <2> QED BY <1>5, <1>6, <1>7, <1>8, SameSize
<1>10. Cardinality(A \ {i}) = IF i \in A THEN Cardinality(A) - 1 ELSE Cardinality(A)
  BY <1>5, FS_RemoveElement
<1>11. i \in A <=> s[i] = h
  BY <1>2 DEF Occurrences, n
<1> QED BY <1>5, <1>9, <1>10, <1>11 DEF x

-----------------------------------------------------------------------------
(* Induction and recursion.                                                 *)

\* A nonempty set of naturals has a least element.
LEMMA LeastNatural ==
    ASSUME NEW T, T \subseteq Nat, T # {}
    PROVE  \E m \in T : \A k \in T : m <= k
<1>1. PICK n : n \in T
  OBVIOUS
<1> DEFINE F == {0..m : m \in {k \in T : k <= n}}
<1>2. F \subseteq FiniteSubsetsOf(Nat)
  <2>1. ASSUME NEW m \in T
        PROVE  0..m \in FiniteSubsetsOf(Nat)
    <3>1. m \in Int /\ 0..m \subseteq Nat
      OBVIOUS
    <3> QED BY <3>1, FS_Interval DEF FiniteSubsetsOf
  <2> QED BY <2>1
<1>3. F # {}
  BY <1>1
<1>4. PICK x \in F : \A y \in F : <<y, x>> \notin StrictSubsetOrdering(Nat)
  <2> HIDE DEF F
  <2> QED BY <1>2, <1>3, FS_StrictSubsetOrderingWellFounded, WFMin
<1>5. PICK m \in T : x = 0..m /\ m <= n
  BY <1>4
<1>6. ASSUME NEW k \in T, k < m
      PROVE  FALSE
  <2>1. 0..k \in F
    <3>1. k <= n
      BY <1>1, <1>5, <1>6
    <3> QED BY <3>1
  <2>2. <<0..k, 0..m>> \in StrictSubsetOrdering(Nat)
    <3>1. k \in Nat /\ m \in Nat
      OBVIOUS
    <3>2. 0..k \subseteq 0..m /\ 0..k \subseteq Nat /\ 0..m \subseteq Nat
      BY <1>6, <3>1
    <3>3. m \in 0..m /\ m \notin 0..k
      BY <1>6, <3>1
    <3>4. 0..k # 0..m
      BY <3>3
    <3> QED BY <3>2, <3>4 DEF StrictSubsetOrdering
  <2> QED BY <1>4, <1>5, <2>1, <2>2
<1> QED BY <1>5, <1>6

\* A recursive definition: on the set B the function is b, elsewhere h computes its
\* value at x from its value at p[x], whose rank is less than that of x.
Recursive(S, V, B, p, rank, b, h) ==
    /\ p \in [S -> S] /\ rank \in [S -> Nat]
    /\ b \in [S -> V] /\ h \in [S -> [V -> V]]
    /\ \A x \in S : x \notin B => rank[p[x]] < rank[x]

\* A function defined by such a recursion exists.
LEMMA RecursionExists ==
    ASSUME NEW S, NEW V, NEW B, NEW p, NEW rank, NEW b, NEW h,
           Recursive(S, V, B, p, rank, b, h)
    PROVE  \E f \in [S -> V] :
               \A x \in S : f[x] = IF x \in B THEN b[x] ELSE h[x][f[p[x]]]
<1> USE DEF Recursive
<1> DEFINE Closed(r) ==
              /\ \A x \in S : x \in B => <<x, b[x]>> \in r
              /\ \A x \in S, v \in V : x \notin B /\ <<p[x], v>> \in r =>
                                        <<x, h[x][v]>> \in r
           R == {z \in S \X V : \A r \in SUBSET (S \X V) : Closed(r) => z \in r}
           Good(x) == \E v \in V : <<x, v>> \in R /\ \A w : <<x, w>> \in R => w = v
<1>1. R \subseteq S \X V /\ Closed(R)
  OBVIOUS
<1>2. \A r \in SUBSET (S \X V) : Closed(r) => R \subseteq r
  OBVIOUS
<1> HIDE DEF R
<1>3. ASSUME NEW x \in S, x \in B
      PROVE  Good(x)
  <2>1. b[x] \in V /\ <<x, b[x]>> \in R
    BY <1>1, <1>3
  <2>2. ASSUME NEW w, <<x, w>> \in R, w # b[x]
        PROVE  FALSE
    <3> DEFINE r == R \ {<<x, w>>}
    <3>1. r \in SUBSET (S \X V)
      BY <1>1
    <3>2. Closed(r)
      BY <1>1, <1>3, <2>2
    <3>3. R \subseteq r
      <4> HIDE DEF r, Closed
      <4> QED BY <1>2, <3>1, <3>2
    <3> QED BY <2>2, <3>3
  <2> QED BY <2>1, <2>2
<1>4. ASSUME NEW x \in S, x \notin B, Good(p[x])
      PROVE  Good(x)
  <2>1. PICK u \in V : <<p[x], u>> \in R /\ \A w : <<p[x], w>> \in R => w = u
    BY <1>4
  <2>2. h[x][u] \in V /\ <<x, h[x][u]>> \in R
    BY <1>1, <1>4, <2>1
  <2>3. ASSUME NEW w, <<x, w>> \in R, w # h[x][u]
        PROVE  FALSE
    <3> DEFINE r == R \ {<<x, w>>}
    <3>1. r \in SUBSET (S \X V)
      BY <1>1
    <3>2. Closed(r)
      BY <1>1, <1>4, <2>1, <2>3
    <3>3. R \subseteq r
      <4> HIDE DEF r, Closed
      <4> QED BY <1>2, <3>1, <3>2
    <3> QED BY <2>3, <3>3
  <2> QED BY <2>2, <2>3
<1>5. \A x \in S : Good(x)
  <2> DEFINE bad == {x \in S : ~Good(x)}
             T == {rank[x] : x \in bad}
  <2> HIDE DEF Good
  <2> SUFFICES ASSUME bad # {} PROVE FALSE
    OBVIOUS
  <2>1. T \subseteq Nat /\ T # {}
    OBVIOUS
  <2>2. PICK m \in T : \A k \in T : m <= k
    <3> HIDE DEF T
    <3> QED BY <2>1, LeastNatural
  <2>3. PICK x \in bad : \A y \in bad : rank[x] <= rank[y]
    BY <2>2
  <2>4. x \notin B /\ ~Good(p[x])
    BY <1>3, <1>4, <2>3
  <2>5. p[x] \in bad /\ rank[p[x]] < rank[x] /\ rank[x] \in Nat /\ rank[p[x]] \in Nat
    BY <2>4
  <2> QED BY <2>3, <2>5
<1> DEFINE f == [x \in S |-> CHOOSE v \in V : <<x, v>> \in R]
<1>6. \A x \in S : f[x] \in V /\ <<x, f[x]>> \in R /\ \A w : <<x, w>> \in R => w = f[x]
  BY <1>5
<1>7. f \in [S -> V]
  BY <1>6
<1> HIDE DEF f
<1>8. ASSUME NEW x \in S
      PROVE  f[x] = IF x \in B THEN b[x] ELSE h[x][f[p[x]]]
  <2>1. CASE x \in B
    BY <1>1, <1>6, <2>1
  <2>2. CASE x \notin B
    <3>1. p[x] \in S /\ f[p[x]] \in V /\ <<p[x], f[p[x]]>> \in R
      BY <1>6
    <3>2. <<x, h[x][f[p[x]]]>> \in R
      BY <1>1, <2>2, <3>1
    <3> QED BY <1>6, <2>2, <3>2
  <2> QED BY <2>1, <2>2
<1> QED BY <1>7, <1>8

-----------------------------------------------------------------------------
(* The greatest common divisor.                                             *)

\* Euclid's recursion unfolds.
LEMMA GcdUnfolds ==
    \A x \in Nat \X Nat :
        gcd[x] = IF x[2] = 0 THEN x[1] ELSE gcd[<<x[2], x[1] % x[2]>>]
<1> DEFINE S == Nat \X Nat
           B == {x \in S : x[2] = 0}
           p == [x \in S |-> IF x[2] = 0 THEN x ELSE <<x[2], x[1] % x[2]>>]
           rank == [x \in S |-> x[2]]
           b == [x \in S |-> x[1]]
           h == [x \in S |-> [v \in Nat |-> v]]
           Unfolds(g) ==
               g = [x \in S |-> IF x[2] = 0 THEN x[1] ELSE g[<<x[2], x[1] % x[2]>>]]
<1>1. /\ p \in [S -> S] /\ rank \in [S -> Nat] /\ b \in [S -> Nat]
      /\ h \in [S -> [Nat -> Nat]]
  OBVIOUS
<1>2. Recursive(S, Nat, B, p, rank, b, h)
  BY <1>1 DEF Recursive
<1>3. PICK f \in [S -> Nat] :
          \A x \in S : f[x] = IF x \in B THEN b[x] ELSE h[x][f[p[x]]]
  <2> HIDE DEF S, B, p, rank, b, h
  <2> QED BY <1>2, RecursionExists
<1>4. \A x \in S : f[x] = IF x[2] = 0 THEN x[1] ELSE f[<<x[2], x[1] % x[2]>>]
  <2> SUFFICES ASSUME NEW x \in S
               PROVE  f[x] = IF x[2] = 0 THEN x[1] ELSE f[<<x[2], x[1] % x[2]>>]
    OBVIOUS
  <2>1. CASE x[2] = 0
    BY <1>3, <2>1
  <2>2. CASE x[2] # 0
    <3>1. p[x] \in S /\ p[x] = <<x[2], x[1] % x[2]>>
      BY <2>2
    <3>2. f[p[x]] \in Nat
      BY <3>1
    <3>3. h[x][f[p[x]]] = f[p[x]]
      BY <3>2
    <3> QED BY <1>3, <2>2, <3>1, <3>3
  <2> QED BY <2>1, <2>2
<1>5. Unfolds(f)
  BY <1>4
<1>6. gcd = CHOOSE g : Unfolds(g)
  BY DEF gcd
<1>7. Unfolds(gcd)
  <2> HIDE DEF Unfolds
  <2> QED BY <1>5, <1>6
<1> QED BY <1>7

\* No common factor, in the form the proofs use.
Coprime(a, b) ==
    \A k, m \in Int : a * k = b * m => \E j \in Int : k = b * j /\ m = a * j

\* One step of Euclid's algorithm keeps cofactors coprime.
LEMMA EuclidStep ==
    ASSUME NEW q \in Int, NEW x \in Int, NEW y \in Int, Coprime(x, y)
    PROVE  Coprime(q * x + y, x)
<1> SUFFICES ASSUME NEW k \in Int, NEW m \in Int, (q * x + y) * k = x * m
             PROVE  \E j \in Int : k = x * j /\ m = (q * x + y) * j
  BY DEF Coprime
<1>1. x * (m - q * k) = y * k
  OBVIOUS
<1>2. PICK j \in Int : m - q * k = y * j /\ k = x * j
  BY <1>1, m - q * k \in Int DEF Coprime
<1>3. m = (q * x + y) * j
  <2>1. m = y * j + q * (x * j)
    BY <1>2
  <2> QED BY <2>1
<1> QED BY <1>2, <1>3

\* The quotients by the gcd.
Cofactors(a, b) ==
    /\ gcd[<<a, b>>] \in Nat \ {0}
    /\ \E x, y \in Nat : /\ a = x * gcd[<<a, b>>] /\ b = y * gcd[<<a, b>>]
                        /\ Coprime(x, y)

\* The gcd divides both numbers, and the quotients are coprime.
LEMMA GcdIs ==
    ASSUME NEW a \in Nat, NEW b \in Nat, a # 0 \/ b # 0
    PROVE  Cofactors(a, b)
<1> DEFINE T == {n \in Nat : \E m \in Nat : (m # 0 \/ n # 0) /\ ~Cofactors(m, n)}
<1> SUFFICES ASSUME T # {} PROVE FALSE
  OBVIOUS
<1>1. PICK n \in T : \A k \in T : n <= k
  <2>1. T \subseteq Nat
    OBVIOUS
  <2> HIDE DEF T
  <2> QED BY <2>1, LeastNatural
<1>2. PICK m \in Nat : (m # 0 \/ n # 0) /\ ~Cofactors(m, n)
  OBVIOUS
<1>3. CASE n = 0
  <2>1. gcd[<<m, n>>] = m
    BY <1>3, GcdUnfolds
  <2>2. m = 1 * m /\ n = 0 * m /\ m \in Nat \ {0}
    BY <1>2, <1>3
  <2>3. Coprime(1, 0)
    BY DEF Coprime
  <2> QED BY <1>2, <2>1, <2>2, <2>3 DEF Cofactors
<1>4. CASE n # 0
  <2> DEFINE r == m % n
             q == m \div n
             g == gcd[<<n, r>>]
  <2>1. n \in Nat \ {0} /\ r \in Nat /\ q \in Nat /\ r < n /\ m = q * n + r
    BY <1>4
  <2>2. gcd[<<m, n>>] = g
    BY <1>4, GcdUnfolds
  <2> HIDE DEF r, q
  <2>3. Cofactors(n, r)
    BY <1>1, <2>1
  <2>4. PICK x, y \in Nat : n = x * g /\ r = y * g /\ Coprime(x, y)
    BY <2>3 DEF Cofactors
  <2>5. g \in Nat \ {0}
    BY <2>3 DEF Cofactors
  <2> HIDE DEF g
  <2>6. m = (q * x + y) * g
    <3>1. q * (x * g) = (q * x) * g
      BY <2>1, <2>5
    <3>2. (q * x + y) * g = (q * x) * g + y * g
      BY <2>1, <2>5
    <3> QED BY <2>1, <2>4, <3>1, <3>2
  <2>7. q * x + y \in Nat
    BY <2>1
  <2>8. Coprime(q * x + y, x)
    <3>1. q \in Int /\ x \in Int /\ y \in Int
      BY <2>1
    <3> QED BY <2>4, <3>1, EuclidStep
  <2> QED BY <1>2, <2>2, <2>4, <2>5, <2>6, <2>7, <2>8 DEF Cofactors
<1> QED BY <1>3, <1>4

-----------------------------------------------------------------------------
(* Lowest terms.                                                            *)

\* The rationals: the pairs in lowest terms.
Rats == {x \in Pairs : Coprime(x[1], x[2])}

LEMMA CancelFactor ==
    ASSUME NEW a \in Int, NEW b \in Int, NEW c \in Int, c # 0, a * c = b * c
    PROVE  a = b
OBVIOUS

LEMMA DivExact ==
    ASSUME NEW x \in Int, NEW g \in Nat \ {0}
    PROVE  (x * g) \div g = x
<1> DEFINE q == (x * g) \div g
           r == (x * g) % g
<1>1. q \in Int /\ r \in Int /\ x * g = q * g + r /\ 0 <= r /\ r < g
  OBVIOUS
<1> HIDE DEF q, r
<1>2. (x - q) * g = r
  BY <1>1
<1>3. ~(x - q >= 1)
  <2> SUFFICES ASSUME x - q >= 1 PROVE FALSE
    OBVIOUS
  <2>1. (x - q) * g >= g
    BY <1>1
  <2> QED BY <1>1, <1>2, <2>1
<1>4. ~(x - q <= -1)
  <2> SUFFICES ASSUME x - q <= -1 PROVE FALSE
    OBVIOUS
  <2>1. (x - q) * g <= -g
    BY <1>1
  <2> QED BY <1>1, <1>2, <2>1
<1>5. q = x
  BY <1>1, <1>3, <1>4
<1> QED BY <1>5 DEF q

LEMMA CoprimeSign ==
    ASSUME NEW a \in Int, NEW b \in Int, Coprime(a, b)
    PROVE  Coprime(-a, b)
<1> SUFFICES ASSUME NEW k \in Int, NEW m \in Int, (-a) * k = b * m
             PROVE  \E j \in Int : k = b * j /\ m = (-a) * j
  BY DEF Coprime
<1>1. a * k = b * (-m)
  OBVIOUS
<1>2. PICK j \in Int : k = b * j /\ -m = a * j
  <2>1. -m \in Int
    OBVIOUS
  <2> QED BY <1>1, <2>1 DEF Coprime
<1>3. m = (-a) * j
  BY <1>2
<1> QED BY <1>2, <1>3

\* Lowest terms are unique.
LEMMA EqualRats ==
    ASSUME NEW x \in Rats, NEW y \in Rats, x[1] * y[2] = y[1] * x[2]
    PROVE  x = y
<1>1. /\ x = <<x[1], x[2]>> /\ y = <<y[1], y[2]>>
      /\ x[1] \in Int /\ y[1] \in Int /\ x[2] \in Nat \ {0} /\ y[2] \in Nat \ {0}
  BY DEF Rats, Pairs
<1>2. PICK j \in Int : y[2] = x[2] * j /\ y[1] = x[1] * j
  <2>1. x[1] * y[2] = x[2] * y[1] /\ x[2] \in Int /\ y[2] \in Int
    BY <1>1
  <2> QED BY <1>1, <2>1 DEF Rats, Coprime
<1>3. PICK i \in Int : x[2] = y[2] * i /\ x[1] = y[1] * i
  <2>1. y[1] * x[2] = y[2] * x[1] /\ x[2] \in Int /\ y[2] \in Int
    BY <1>1
  <2> QED BY <1>1, <2>1 DEF Rats, Coprime
<1>4. j >= 1
  BY <1>1, <1>2
<1>5. i >= 1
  BY <1>1, <1>3
<1>6. x[2] * j >= x[2]
  BY <1>1, <1>4
<1>7. y[2] * i >= y[2]
  BY <1>1, <1>5
<1>8. x[2] = y[2]
  BY <1>1, <1>2, <1>3, <1>6, <1>7
<1>9. j = 1
  <2>1. j * x[2] = 1 * x[2] /\ x[2] \in Int /\ x[2] # 0
    BY <1>1, <1>2, <1>8
  <2> QED BY <2>1, CancelFactor
<1> QED BY <1>1, <1>2, <1>8, <1>9

\* Ratio() reduces a fraction to lowest terms.
LEMMA RatioIs ==
    ASSUME NEW n \in Int, NEW d \in Int, d # 0
    PROVE  /\ Ratio(n, d) \in Rats
           /\ Ratio(n, d)[1] * d = n * Ratio(n, d)[2]
<1> DEFINE g == gcd[<<Abs(n), Abs(d)>>]
           s == IF d < 0 THEN -1 ELSE 1
<1>1. Abs(n) \in Nat /\ Abs(d) \in Nat \ {0}
  BY DEF Abs
<1>2. Cofactors(Abs(n), Abs(d))
  BY <1>1, GcdIs
<1>3. PICK x, y \in Nat : Abs(n) = x * g /\ Abs(d) = y * g /\ Coprime(x, y)
  BY <1>2 DEF Cofactors
<1>4. g \in Nat \ {0}
  BY <1>2 DEF Cofactors
<1>5. Ratio(n, d) = <<s * (n \div g), s * (d \div g)>>
  BY DEF Ratio
<1> HIDE DEF g
<1>6. y # 0
  BY <1>1, <1>3, <1>4
<1> DEFINE X == IF n < 0 THEN -x ELSE x
           Y == IF d < 0 THEN -y ELSE y
<1>7. X \in Int /\ Y \in Int
  OBVIOUS
<1>8. n = X * g
  BY <1>3, <1>4 DEF Abs
<1>9. d = Y * g
  BY <1>3, <1>4 DEF Abs
<1>10. n \div g = X
  BY <1>4, <1>7, <1>8, DivExact
<1>11. d \div g = Y
  BY <1>4, <1>7, <1>9, DivExact
<1>12. s * Y = y
  OBVIOUS
<1>13. Coprime(s * X, y)
  <2>1. Coprime(x, y) /\ Coprime(-x, y)
    BY <1>3, CoprimeSign
  <2>2. s * X = x \/ s * X = -x
    OBVIOUS
  <2> QED BY <2>1, <2>2
<1>14. Ratio(n, d) = <<s * X, y>>
  BY <1>5, <1>10, <1>11, <1>12
<1>15. s * X \in Int
  OBVIOUS
<1>16. (s * X) * d = n * y
  <2>1. (s * X) * (Y * g) = (X * g) * (s * Y)
    BY <1>4, <1>7
  <2> QED BY <1>8, <1>9, <1>12, <2>1
<1> HIDE DEF X, Y, s
<1> QED BY <1>6, <1>13, <1>14, <1>15, <1>16 DEF Rats, Pairs

\* The pairs of the module Rationals that are in lowest terms are the rationals.
LEMMA IsRatIs ==
    ASSUME NEW x
    PROVE  IsRat(x) <=> x \in Rats
<1>1. ASSUME x \in Pairs
      PROVE  gcd[<<Abs(x[1]), x[2]>>] = 1 <=> Coprime(x[1], x[2])
  <2> DEFINE n == x[1]
             d == x[2]
             g == gcd[<<Abs(n), d>>]
  <2>1. n \in Int /\ d \in Nat \ {0} /\ Abs(n) \in Nat
    BY <1>1 DEF Pairs, Abs
  <2> HIDE DEF n, d
  <2>2. Cofactors(Abs(n), d)
    BY <2>1, GcdIs
  <2>3. PICK a, b \in Nat : Abs(n) = a * g /\ d = b * g /\ Coprime(a, b)
    BY <2>2 DEF Cofactors
  <2>4. g \in Nat \ {0}
    BY <2>2 DEF Cofactors
  <2> HIDE DEF g
  <2>5. ASSUME g = 1
        PROVE  Coprime(n, d)
    <3>1. Coprime(Abs(n), d)
      BY <2>3, <2>5
    <3>2. n = Abs(n) \/ n = -Abs(n)
      BY <2>1 DEF Abs
    <3>3. Abs(n) \in Int /\ d \in Int
      BY <2>1
    <3> HIDE DEF Abs
    <3> QED BY <3>1, <3>2, <3>3, CoprimeSign
  <2>6. ASSUME Coprime(n, d)
        PROVE  g = 1
    <3> DEFINE m == IF n < 0 THEN -a ELSE a
    <3>1. m \in Int /\ b \in Int /\ n = m * g
      BY <2>1, <2>3, <2>4 DEF Abs
    <3> HIDE DEF m
    <3>2. n * b = d * m
      <4>1. (m * g) * b = (b * g) * m
        BY <2>4, <3>1
      <4> QED BY <2>3, <3>1, <4>1
    <3>3. PICK j \in Int : b = d * j
      BY <2>6, <3>1, <3>2 DEF Coprime
    <3>4. b * 1 = b * (g * j)
      BY <2>3, <2>4, <3>3
    <3>5. b # 0
      BY <2>1, <2>3, <2>4
    <3>6. g * j = 1
      BY <2>4, <3>4, <3>5, CancelFactor, g * j \in Int
    <3> QED BY <2>4, <3>6
  <2> QED BY <2>5, <2>6 DEF n, d, g
<1> QED BY <1>1 DEF IsRat, Rats

-----------------------------------------------------------------------------
(* The operations, on fractions.                                            *)

\* x is n / d.
Is(x, n, d) == x \in Rats /\ n \in Int /\ d \in Int /\ d # 0 /\ x[1] * d = n * x[2]

LEMMA RatIs ==
    ASSUME NEW x \in Rats
    PROVE  /\ x \in Pairs /\ x[1] \in Int /\ x[2] \in Int /\ x[2] > 0 /\ x = <<x[1], x[2]>>
           /\ Is(x, x[1], x[2])
BY DEF Rats, Pairs, Is

\* Two rationals that are the same fraction are equal.
LEMMA SameFraction ==
    ASSUME NEW x, NEW y, NEW n, NEW d, Is(x, n, d), Is(y, n, d)
    PROVE  x = y
<1>1. /\ x[1] \in Int /\ x[2] \in Int /\ y[1] \in Int /\ y[2] \in Int
      /\ n \in Int /\ d \in Int /\ d # 0 /\ x[1] * d = n * x[2] /\ y[1] * d = n * y[2]
  BY RatIs DEF Is
<1> DEFINE a == x[1]
           b == x[2]
           k == y[1]
           m == y[2]
<1> HIDE DEF a, b, k, m
<1>2. /\ a \in Int /\ b \in Int /\ k \in Int /\ m \in Int
      /\ n \in Int /\ d \in Int /\ d # 0 /\ a * d = n * b /\ k * d = n * m
  BY <1>1 DEF a, b, k, m
<1>3. (a * m) * d = (k * b) * d
  <2>1. (a * m) * d = m * (a * d) /\ (k * b) * d = b * (k * d)
    BY <1>2
  <2>2. m * (n * b) = b * (n * m)
    BY <1>2
  <2> QED BY <1>2, <2>1, <2>2
<1>4. a * m = k * b
  BY <1>2, <1>3, CancelFactor, a * m \in Int, k * b \in Int
<1>5. x[1] * y[2] = y[1] * x[2]
  BY <1>4 DEF a, b, k, m
<1> QED BY <1>5, EqualRats DEF Is

\* The sum of n / d and m / e.
LEMMA PlusIs ==
    ASSUME NEW x, NEW y, NEW n, NEW d, NEW m, NEW e, Is(x, n, d), Is(y, m, e)
    PROVE  Is(x ++ y, n * e + m * d, d * e)
<1> DEFINE a == x[1]
           b == x[2]
           p == y[1]
           q == y[2]
           z == Ratio(a * q + p * b, b * q)
           u == z[1]
           v == z[2]
<1>1. x ++ y = z
  BY RatIs DEF Is, ++, plus
<1>2. /\ n \in Int /\ d \in Int /\ d # 0 /\ a * d = n * b
      /\ m \in Int /\ e \in Int /\ e # 0 /\ p * e = m * q
  BY DEF Is
<1>3. a \in Int /\ b \in Int /\ b # 0 /\ p \in Int /\ q \in Int /\ q # 0
  BY RatIs DEF Is
<1> HIDE DEF a, b, p, q
<1>5. a * q + p * b \in Int /\ b * q \in Int /\ b * q # 0
  BY <1>3
<1>6. z \in Rats /\ u * (b * q) = (a * q + p * b) * v
  BY <1>5, RatioIs
<1> HIDE DEF z
<1>7. u \in Int /\ v \in Int
  BY <1>6, RatIs
<1> HIDE DEF u, v
<1>8. u * (d * e) = (n * e + m * d) * v
  <2>1. (u * (b * q)) * (d * e) = ((a * q + p * b) * v) * (d * e)
    BY <1>6
  <2>2. ((a * q + p * b) * v) * (d * e) = (a * d) * (q * e * v) + (p * e) * (b * d * v)
    BY <1>2, <1>3, <1>7
  <2>3. (n * b) * (q * e * v) + (m * q) * (b * d * v) = ((n * e + m * d) * v) * (b * q)
    BY <1>2, <1>3, <1>7
  <2>4. (u * (b * q)) * (d * e) = (u * (d * e)) * (b * q)
    BY <1>2, <1>3, <1>7
  <2>5. (u * (d * e)) * (b * q) = ((n * e + m * d) * v) * (b * q)
    BY <1>2, <2>1, <2>2, <2>3, <2>4
  <2>6. u * (d * e) \in Int /\ (n * e + m * d) * v \in Int
    BY <1>2, <1>7
  <2> QED BY <1>5, <2>5, <2>6, CancelFactor
<1>9. n * e + m * d \in Int /\ d * e \in Int /\ d * e # 0
  BY <1>2
<1> QED BY <1>1, <1>6, <1>8, <1>9 DEF Is, u, v

\* The product of n / d and m / e.
LEMMA TimesIs ==
    ASSUME NEW x, NEW y, NEW n, NEW d, NEW m, NEW e, Is(x, n, d), Is(y, m, e)
    PROVE  Is(x \otimes y, n * m, d * e)
<1> DEFINE a == x[1]
           b == x[2]
           p == y[1]
           q == y[2]
           z == Ratio(a * p, b * q)
           u == z[1]
           v == z[2]
<1>1. x \otimes y = z
  BY RatIs DEF Is, \otimes, times
<1>2. /\ n \in Int /\ d \in Int /\ d # 0 /\ a * d = n * b
      /\ m \in Int /\ e \in Int /\ e # 0 /\ p * e = m * q
  BY DEF Is
<1>3. a \in Int /\ b \in Int /\ b # 0 /\ p \in Int /\ q \in Int /\ q # 0
  BY RatIs DEF Is
<1> HIDE DEF a, b, p, q
<1>5. a * p \in Int /\ b * q \in Int /\ b * q # 0
  BY <1>3
<1>6. z \in Rats /\ u * (b * q) = (a * p) * v
  BY <1>5, RatioIs
<1> HIDE DEF z
<1>7. u \in Int /\ v \in Int
  BY <1>6, RatIs
<1> HIDE DEF u, v
<1>8. u * (d * e) = (n * m) * v
  <2>1. (u * (b * q)) * (d * e) = ((a * p) * v) * (d * e)
    BY <1>6
  <2>2. ((a * p) * v) * (d * e) = ((a * d) * (p * e)) * v
    BY <1>2, <1>3, <1>7
  <2>3. ((n * b) * (m * q)) * v = ((n * m) * v) * (b * q)
    BY <1>2, <1>3, <1>7
  <2>4. (u * (b * q)) * (d * e) = (u * (d * e)) * (b * q)
    BY <1>2, <1>3, <1>7
  <2>5. (u * (d * e)) * (b * q) = ((n * m) * v) * (b * q)
    BY <1>2, <2>1, <2>2, <2>3, <2>4
  <2>6. u * (d * e) \in Int /\ (n * m) * v \in Int
    BY <1>2, <1>7
  <2> QED BY <1>5, <2>5, <2>6, CancelFactor
<1>9. n * m \in Int /\ d * e \in Int /\ d * e # 0
  BY <1>2
<1> QED BY <1>1, <1>6, <1>8, <1>9 DEF Is, u, v

\* The quotient of n / d and m / e.
LEMMA OverIs ==
    ASSUME NEW x, NEW y, NEW n, NEW d, NEW m, NEW e, Is(x, n, d), Is(y, m, e), m # 0
    PROVE  Is(x \oslash y, n * e, d * m)
<1> DEFINE a == x[1]
           b == x[2]
           p == y[1]
           q == y[2]
           z == Ratio(a * q, b * p)
           u == z[1]
           v == z[2]
<1>1. x \oslash y = z
  BY RatIs DEF Is, \oslash, over
<1>2. /\ n \in Int /\ d \in Int /\ d # 0 /\ a * d = n * b
      /\ m \in Int /\ e \in Int /\ e # 0 /\ p * e = m * q
  BY DEF Is
<1>3. a \in Int /\ b \in Int /\ b # 0 /\ p \in Int /\ q \in Int /\ q # 0
  BY RatIs DEF Is
<1> HIDE DEF a, b, p, q
<1>4. p # 0
  BY <1>2, <1>3
<1>5. a * q \in Int /\ b * p \in Int /\ b * p # 0
  BY <1>3, <1>4
<1>6. z \in Rats /\ u * (b * p) = (a * q) * v
  BY <1>5, RatioIs
<1> HIDE DEF z
<1>7. u \in Int /\ v \in Int
  BY <1>6, RatIs
<1> HIDE DEF u, v
<1>8. u * (d * m) = (n * e) * v
  <2>1. (u * (b * p)) * (d * m) = ((a * q) * v) * (d * m)
    BY <1>6
  <2>2. ((a * q) * v) * (d * m) = ((a * d) * (m * q)) * v
    BY <1>2, <1>3, <1>7
  <2>3. ((n * b) * (p * e)) * v = ((n * e) * v) * (b * p)
    BY <1>2, <1>3, <1>7
  <2>4. (u * (b * p)) * (d * m) = (u * (d * m)) * (b * p)
    BY <1>2, <1>3, <1>7
  <2>5. (u * (d * m)) * (b * p) = ((n * e) * v) * (b * p)
    BY <1>2, <2>1, <2>2, <2>3, <2>4
  <2>6. u * (d * m) \in Int /\ (n * e) * v \in Int
    BY <1>2, <1>7
  <2> QED BY <1>5, <2>5, <2>6, CancelFactor
<1>9. n * e \in Int /\ d * m \in Int /\ d * m # 0
  BY <1>2
<1> QED BY <1>1, <1>6, <1>8, <1>9 DEF Is, u, v

\* The difference of n / d and m / e.
LEMMA MinusIs ==
    ASSUME NEW x, NEW y, NEW n, NEW d, NEW m, NEW e, Is(x, n, d), Is(y, m, e)
    PROVE  Is(x -- y, n * e - m * d, d * e)
<1> DEFINE w == <<-y[1], y[2]>>
<1>1. y \in Rats /\ y[1] \in Int /\ y[2] \in Int /\ y[2] > 0
  BY RatIs DEF Is
<1>2. w \in Rats
  <2>1. Coprime(-y[1], y[2])
    BY <1>1, CoprimeSign DEF Rats
  <2> QED BY <1>1, <2>1 DEF Rats, Pairs
<1>3. Is(w, -m, e)
  <2>1. m \in Int /\ e \in Int /\ e # 0 /\ y[1] * e = m * y[2]
    BY DEF Is
  <2>2. -m \in Int /\ (-y[1]) * e = (-m) * y[2]
    BY <1>1, <2>1
  <2> QED BY <1>2, <2>1, <2>2 DEF Is
<1>4. Is(x ++ w, n * e + (-m) * d, d * e)
  BY <1>3, PlusIs
<1>5. x ++ w = x -- y
  BY DEF ++, --
<1>6. n * e + (-m) * d = n * e - m * d
  BY DEF Is
<1> QED BY <1>4, <1>5, <1>6

-----------------------------------------------------------------------------
(* Over a common denominator sums are sums of integers.                     *)

LEMMA Scale ==
    ASSUME NEW x, NEW n, NEW d, Is(x, n, d), NEW k \in Int, k # 0
    PROVE  Is(x, n * k, d * k)
<1> DEFINE a == x[1]
           b == x[2]
<1>1. /\ a \in Int /\ b \in Int /\ n \in Int /\ d \in Int /\ d # 0 /\ a * d = n * b
  BY RatIs DEF Is
<1> HIDE DEF a, b
<1>2. a * (d * k) = (n * k) * b
  <2>1. a * (d * k) = (a * d) * k /\ (n * k) * b = (n * b) * k
    BY <1>1
  <2> QED BY <1>1, <2>1
<1>3. n * k \in Int /\ d * k \in Int /\ d * k # 0
  BY <1>1
<1> QED BY <1>2, <1>3 DEF Is, a, b

\* x is n over the positive denominator d.
Over(x, n, d) == Is(x, n, d) /\ d > 0

LEMMA OverAnother ==
    ASSUME NEW d \in Int, d > 0, NEW y \in Rats
    PROVE  \E e \in Int : /\ e > 0 /\ \E m : Over(y, m, e)
                          /\ \A x, n : Over(x, n, d) => \E k : Over(x, k, e)
<1> DEFINE q == y[2]
<1>1. q \in Int /\ q > 0 /\ Is(y, y[1], q)
  BY RatIs
<1> HIDE DEF q
<1>2. d * q \in Int /\ d * q > 0 /\ d # 0 /\ q # 0
  BY <1>1
<1>3. Is(y, y[1] * d, q * d) /\ q * d = d * q
  <2>1. Is(y, y[1] * d, q * d)
    BY <1>1, <1>2, Scale
  <2>2. q * d = d * q
    BY <1>1
  <2> QED BY <2>1, <2>2
<1>4. ASSUME NEW x, NEW n, Over(x, n, d)
      PROVE  Over(x, n * q, d * q)
  BY <1>1, <1>2, <1>4, Scale DEF Over
<1>5. Over(y, y[1] * d, d * q)
  BY <1>2, <1>3 DEF Over
<1> QED BY <1>2, <1>4, <1>5

\* Five rationals have a common denominator.
LEMMA CommonDenominator ==
    ASSUME NEW x1 \in Rats, NEW x2 \in Rats, NEW x3 \in Rats, NEW x4 \in Rats,
           NEW x5 \in Rats
    PROVE  \E d, n1, n2, n3, n4, n5 \in Int :
               /\ Over(x1, n1, d) /\ Over(x2, n2, d) /\ Over(x3, n3, d)
               /\ Over(x4, n4, d) /\ Over(x5, n5, d)
<1>1. Over(x1, x1[1], x1[2]) /\ x1[2] \in Int /\ x1[2] > 0
  BY RatIs DEF Over
<1>2. PICK d2 \in Int : /\ d2 > 0 /\ \E m : Over(x2, m, d2)
                        /\ \A x, n : Over(x, n, x1[2]) => \E k : Over(x, k, d2)
  BY <1>1, OverAnother
<1>3. PICK d3 \in Int : /\ d3 > 0 /\ \E m : Over(x3, m, d3)
                        /\ \A x, n : Over(x, n, d2) => \E k : Over(x, k, d3)
  BY <1>2, OverAnother
<1>4. PICK d4 \in Int : /\ d4 > 0 /\ \E m : Over(x4, m, d4)
                        /\ \A x, n : Over(x, n, d3) => \E k : Over(x, k, d4)
  BY <1>3, OverAnother
<1>5. PICK d5 \in Int : /\ d5 > 0 /\ \E m : Over(x5, m, d5)
                        /\ \A x, n : Over(x, n, d4) => \E k : Over(x, k, d5)
  BY <1>4, OverAnother
<1>6. /\ \E k : Over(x1, k, d5)
      /\ \E k : Over(x2, k, d5)
      /\ \E k : Over(x3, k, d5)
      /\ \E k : Over(x4, k, d5)
      /\ \E k : Over(x5, k, d5)
  BY <1>1, <1>2, <1>3, <1>4, <1>5
<1>7. \A x, k : Over(x, k, d5) => k \in Int
  BY DEF Over, Is
<1> QED BY <1>6, <1>7

LEMMA PlusOver ==
    ASSUME NEW x, NEW y, NEW n, NEW m, NEW d, Over(x, n, d), Over(y, m, d)
    PROVE  Over(x ++ y, n + m, d)
<1> DEFINE z == x ++ y
           a == z[1]
           b == z[2]
<1>1. Is(z, n * d + m * d, d * d)
  BY PlusIs DEF Over
<1>2. n \in Int /\ m \in Int /\ d \in Int /\ d > 0
  BY DEF Over, Is
<1>3. a \in Int /\ b \in Int /\ a * (d * d) = (n * d + m * d) * b
  BY <1>1, RatIs DEF Is
<1> HIDE DEF a, b
<1>4. (a * d) * d = ((n + m) * b) * d
  BY <1>2, <1>3
<1>5. a * d = (n + m) * b
  BY <1>2, <1>3, <1>4, CancelFactor, a * d \in Int, (n + m) * b \in Int
<1> QED BY <1>1, <1>2, <1>5 DEF Over, Is, a, b

LEMMA MinusOver ==
    ASSUME NEW x, NEW y, NEW n, NEW m, NEW d, Over(x, n, d), Over(y, m, d)
    PROVE  Over(x -- y, n - m, d)
<1> DEFINE z == x -- y
           a == z[1]
           b == z[2]
<1>1. Is(z, n * d - m * d, d * d)
  BY MinusIs DEF Over
<1>2. n \in Int /\ m \in Int /\ d \in Int /\ d > 0
  BY DEF Over, Is
<1>3. a \in Int /\ b \in Int /\ a * (d * d) = (n * d - m * d) * b
  BY <1>1, RatIs DEF Is
<1> HIDE DEF a, b
<1>4. (a * d) * d = ((n - m) * b) * d
  BY <1>2, <1>3
<1>5. a * d = (n - m) * b
  BY <1>2, <1>3, <1>4, CancelFactor, a * d \in Int, (n - m) * b \in Int
<1> QED BY <1>1, <1>2, <1>5 DEF Over, Is, a, b

LEMMA SameOver ==
    ASSUME NEW x, NEW y, NEW n, NEW m, NEW d, Over(x, n, d), Over(y, m, d)
    PROVE  x = y <=> n = m
<1>1. n = m => x = y
  BY SameFraction DEF Over
<1>2. ASSUME x = y
      PROVE  n = m
  <2> DEFINE a == x[1]
             b == x[2]
  <2>1. /\ a \in Int /\ b \in Int /\ b > 0 /\ n \in Int /\ m \in Int
        /\ a * d = n * b /\ a * d = m * b
    BY <1>2, RatIs DEF Over, Is
  <2> HIDE DEF a, b
  <2>2. n * b = m * b /\ b # 0
    BY <2>1
  <2> QED BY <2>1, <2>2, CancelFactor
<1> QED BY <1>1, <1>2

LEMMA ZeroOver ==
    /\ Zero \in Rats
    /\ \A d \in Int : d > 0 => Over(Zero, 0, d)
<1>1. Coprime(0, 1)
  BY DEF Coprime
<1>2. Zero \in Rats /\ Zero[1] = 0 /\ Zero[2] = 1
  BY <1>1 DEF Zero, Rat, Rats, Pairs
<1> QED BY <1>2 DEF Over, Is

LEMMA OrderOver ==
    ASSUME NEW x, NEW y, NEW n, NEW m, NEW d, Over(x, n, d), Over(y, m, d)
    PROVE  /\ x \preceq y <=> n <= m
           /\ x \prec y <=> n < m
<1> DEFINE a == x[1]
           b == x[2]
           p == y[1]
           q == y[2]
<1>1. /\ a \in Int /\ b \in Int /\ b > 0 /\ p \in Int /\ q \in Int /\ q > 0
      /\ n \in Int /\ m \in Int /\ d \in Int /\ d > 0 /\ a * d = n * b /\ p * d = m * q
  BY RatIs DEF Over, Is
<1>2. (x \preceq y <=> a * q <= p * b) /\ (x \prec y <=> a * q < p * b)
  BY DEF \preceq, \prec
<1> HIDE DEF a, b, p, q
<1>3. (p * b - a * q) * d = (m - n) * (b * q)
  <2>1. (p * b - a * q) * d = b * (p * d) - q * (a * d)
    BY <1>1
  <2>2. b * (m * q) - q * (n * b) = (m - n) * (b * q)
    BY <1>1
  <2> QED BY <1>1, <2>1, <2>2
<1>4. b * q > 0 /\ b * q \in Int
  BY <1>1
<1> DEFINE s == p * b - a * q
           t == m - n
           k == b * q
<1>5. s \in Int /\ t \in Int /\ k \in Int /\ k > 0 /\ s * d = t * k
  BY <1>1, <1>3, <1>4
<1> HIDE DEF s, t, k
<1>6. (s > 0 <=> t > 0) /\ (s >= 0 <=> t >= 0)
  <2>1. (s > 0 => s * d > 0) /\ (s = 0 => s * d = 0) /\ (s < 0 => s * d < 0)
    BY <1>1, <1>5
  <2>2. (t > 0 => t * k > 0) /\ (t = 0 => t * k = 0) /\ (t < 0 => t * k < 0)
    BY <1>5
  <2> QED BY <1>5, <2>1, <2>2
<1>7. (a * q <= p * b <=> s >= 0) /\ (a * q < p * b <=> s > 0)
  BY <1>1 DEF s
<1>8. (n <= m <=> t >= 0) /\ (n < m <=> t > 0)
  BY <1>1 DEF t
<1> QED BY <1>2, <1>6, <1>7, <1>8
-----------------------------------------------------------------------------
(* Sums, differences and products.                                          *)

LEMMA Closed ==
    ASSUME NEW x \in Rats, NEW y \in Rats
    PROVE  /\ x ++ y \in Rats /\ x -- y \in Rats /\ x \otimes y \in Rats
           /\ y # Zero => x \oslash y \in Rats
<1>1. Is(x, x[1], x[2]) /\ Is(y, y[1], y[2])
  BY RatIs
<1>2. x ++ y \in Rats
  BY <1>1, PlusIs DEF Is
<1>3. x -- y \in Rats
  BY <1>1, MinusIs DEF Is
<1>4. x \otimes y \in Rats
  BY <1>1, TimesIs DEF Is
<1>5. ASSUME y # Zero
      PROVE  x \oslash y \in Rats
  <2>1. y[1] # 0
    <3> SUFFICES ASSUME y[1] = 0 PROVE FALSE
      OBVIOUS
    <3>1. Over(y, 0, y[2]) /\ Over(Zero, 0, y[2])
      BY RatIs, ZeroOver DEF Over
    <3> QED BY <1>5, <3>1, SameOver
  <2> QED BY <1>1, <2>1, OverIs DEF Is
<1> QED BY <1>2, <1>3, <1>4, <1>5

LEMMA PlusLaws ==
    ASSUME NEW x \in Rats, NEW y \in Rats, NEW z \in Rats
    PROVE  /\ x ++ y = y ++ x
           /\ (x ++ y) ++ z = x ++ (y ++ z)
           /\ x ++ (y ++ z) = y ++ (x ++ z)
           /\ Zero ++ x = x /\ x ++ Zero = x /\ x -- Zero = x
           /\ x -- x = Zero
           /\ (x -- y) ++ y = x
           /\ (x ++ y) -- y = x
<1>1. PICK d, a, b, c \in Int : Over(x, a, d) /\ Over(y, b, d) /\ Over(z, c, d)
  BY CommonDenominator
<1>2. Over(Zero, 0, d)
  BY <1>1, ZeroOver DEF Over
<1>3. Over(x ++ y, a + b, d) /\ Over(y ++ x, b + a, d)
  BY <1>1, PlusOver
<1>4. /\ Over((x ++ y) ++ z, (a + b) + c, d)
      /\ Over(x ++ (y ++ z), a + (b + c), d)
      /\ Over(y ++ (x ++ z), b + (a + c), d)
  BY <1>1, PlusOver
<1>5. /\ Over(Zero ++ x, 0 + a, d) /\ Over(x ++ Zero, a + 0, d)
      /\ Over(x -- Zero, a - 0, d) /\ Over(x -- x, a - a, d)
  BY <1>1, <1>2, PlusOver, MinusOver
<1>6. /\ Over((x -- y) ++ y, (a - b) + b, d)
      /\ Over((x ++ y) -- y, (a + b) - b, d)
  BY <1>1, PlusOver, MinusOver
<1>7. /\ a + b = b + a /\ (a + b) + c = a + (b + c) /\ a + (b + c) = b + (a + c)
      /\ 0 + a = a /\ a + 0 = a /\ a - 0 = a /\ a - a = 0
      /\ (a - b) + b = a /\ (a + b) - b = a
  OBVIOUS
<1>8. x ++ y = y ++ x
  BY <1>3, <1>7, SameOver
<1>9. /\ (x ++ y) ++ z = x ++ (y ++ z)
      /\ x ++ (y ++ z) = y ++ (x ++ z)
  BY <1>4, <1>7, SameOver
<1>10. Zero ++ x = x /\ x ++ Zero = x /\ x -- Zero = x /\ x -- x = Zero
  BY <1>1, <1>2, <1>5, <1>7, SameOver
<1>11. (x -- y) ++ y = x /\ (x ++ y) -- y = x
  BY <1>1, <1>6, <1>7, SameOver
<1> QED BY <1>8, <1>9, <1>10, <1>11

LEMMA TimesLaws ==
    ASSUME NEW x \in Rats, NEW y \in Rats, NEW z \in Rats
    PROVE  /\ x \otimes y = y \otimes x
           /\ x \otimes (y ++ z) = (x \otimes y) ++ (x \otimes z)
           /\ x \otimes (y -- z) = (x \otimes y) -- (x \otimes z)
           /\ x \otimes Zero = Zero
           /\ y # Zero => y \otimes (x \oslash y) = x
<1> DEFINE a == x[1]
           b == x[2]
<1>1. PICK d, p, q \in Int : Over(y, p, d) /\ Over(z, q, d)
  BY CommonDenominator
<1>2. a \in Int /\ b \in Int /\ b > 0 /\ Is(x, a, b) /\ d > 0 /\ Is(y, p, d) /\ Is(z, q, d)
  BY <1>1, RatIs DEF Over
<1> HIDE DEF a, b
<1>3. x \otimes y = y \otimes x
  <2>1. Is(x \otimes y, a * p, b * d) /\ Is(y \otimes x, p * a, d * b)
    BY <1>2, TimesIs
  <2>2. p * a = a * p /\ d * b = b * d
    BY <1>2
  <2> QED BY <2>1, <2>2, SameFraction
<1>4. b * d \in Int /\ b * d > 0
  BY <1>2
<1>5. Over(x \otimes y, a * p, b * d) /\ Over(x \otimes z, a * q, b * d)
  BY <1>2, <1>4, TimesIs DEF Over
<1>6. /\ Over(x \otimes (y ++ z), a * (p + q), b * d)
      /\ Over(x \otimes (y -- z), a * (p - q), b * d)
  <2>1. Is(y ++ z, p + q, d) /\ Is(y -- z, p - q, d)
    BY <1>1, PlusOver, MinusOver DEF Over
  <2> QED BY <1>2, <1>4, <2>1, TimesIs DEF Over
<1>7. a * (p + q) = a * p + a * q /\ a * (p - q) = a * p - a * q
  BY <1>2
<1>8. x \otimes (y ++ z) = (x \otimes y) ++ (x \otimes z)
  <2>1. Over((x \otimes y) ++ (x \otimes z), a * p + a * q, b * d)
    BY <1>5, PlusOver
  <2> QED BY <1>6, <1>7, <2>1, SameOver
<1>9. x \otimes (y -- z) = (x \otimes y) -- (x \otimes z)
  <2>1. Over((x \otimes y) -- (x \otimes z), a * p - a * q, b * d)
    BY <1>5, MinusOver
  <2> QED BY <1>6, <1>7, <2>1, SameOver
<1>10. x \otimes Zero = Zero
  <2>1. Is(Zero, 0, 1) /\ Over(Zero, 0, b * 1)
    BY <1>2, ZeroOver DEF Over
  <2>2. Is(x \otimes Zero, a * 0, b * 1)
    BY <1>2, <2>1, TimesIs
  <2>3. a * 0 = 0
    BY <1>2
  <2> QED BY <2>1, <2>2, <2>3, SameFraction DEF Over
<1>11. ASSUME y # Zero
       PROVE  y \otimes (x \oslash y) = x
  <2>1. p # 0
    <3> SUFFICES ASSUME p = 0 PROVE FALSE
      OBVIOUS
    <3>1. Over(Zero, 0, d)
      BY <1>2, ZeroOver
    <3> QED BY <1>1, <1>11, <3>1, SameOver
  <2>2. Is(x \oslash y, a * d, b * p)
    BY <1>2, <2>1, OverIs
  <2>3. Is(y \otimes (x \oslash y), p * (a * d), d * (b * p))
    BY <1>2, <2>2, TimesIs
  <2>4. d * p \in Int /\ d * p # 0
    BY <1>2, <2>1
  <2>5. Is(x, a * (d * p), b * (d * p))
    BY <1>2, <2>4, Scale
  <2>6. p * (a * d) = a * (d * p) /\ d * (b * p) = b * (d * p)
    BY <1>2
  <2> QED BY <2>3, <2>5, <2>6, SameFraction
<1> QED BY <1>3, <1>8, <1>9, <1>10, <1>11
LEMMA TimesCommutes ==
    ASSUME NEW x \in Rats, NEW y \in Rats
    PROVE  x \otimes y = y \otimes x
BY TimesLaws

LEMMA PositiveSum ==
    ASSUME NEW x \in Rats, NEW y \in Rats, Zero \prec x, Zero \prec y
    PROVE  x ++ y \in Rats /\ Zero \prec (x ++ y) /\ x ++ y # Zero
<1>1. PICK d, a, b \in Int : Over(x, a, d) /\ Over(y, b, d)
  BY CommonDenominator
<1>2. Over(Zero, 0, d) /\ Over(x ++ y, a + b, d)
  BY <1>1, ZeroOver, PlusOver DEF Over
<1>3. 0 < a /\ 0 < b
  BY <1>1, <1>2, OrderOver
<1>4. 0 < a + b
  BY <1>3
<1>5. x ++ y \in Rats
  BY Closed
<1> QED BY <1>2, <1>4, <1>5, OrderOver, SameOver

\* An order of the rationals is total, and differences decide it.
LEMMA Compared ==
    ASSUME NEW x \in Rats, NEW y \in Rats
    PROVE  /\ x \preceq y <=> ~(y \prec x)
           /\ x \preceq y /\ y \preceq x => x = y
           /\ ~(x \prec x) /\ x \preceq x
           /\ x \prec y => x \preceq y /\ x # y
           /\ x \preceq y /\ x # y => x \prec y
           /\ x -- y \in Rats
           /\ (x -- y) \preceq Zero <=> x \preceq y
           /\ Zero \preceq (x -- y) <=> y \preceq x
           /\ Zero \prec (x -- y) <=> y \prec x
           /\ x -- y = Zero <=> x = y
           /\ Zero -- (x -- y) = y -- x
<1>1. PICK d, a, b \in Int : Over(x, a, d) /\ Over(y, b, d)
  BY CommonDenominator
<1>2. /\ Over(Zero, 0, d) /\ Over(x -- y, a - b, d)
      /\ Over(y -- x, b - a, d)
  BY <1>1, ZeroOver, MinusOver DEF Over
<1>3. Over(Zero -- (x -- y), 0 - (a - b), d)
  BY <1>2, MinusOver
<1>4. /\ (x \preceq y <=> a <= b) /\ (y \preceq x <=> b <= a)
      /\ (x \prec y <=> a < b) /\ (y \prec x <=> b < a) /\ (x = y <=> a = b)
      /\ (x \prec x <=> a < a) /\ (x \preceq x <=> a <= a)
  BY <1>1, OrderOver, SameOver
<1>5. /\ (x -- y) \preceq Zero <=> a - b <= 0
      /\ Zero \preceq (x -- y) <=> 0 <= a - b
      /\ Zero \prec (x -- y) <=> 0 < a - b
      /\ x -- y = Zero <=> a - b = 0
  BY <1>2, OrderOver, SameOver
<1>6. Zero -- (x -- y) = y -- x
  <2>1. 0 - (a - b) = b - a
    OBVIOUS
  <2> QED BY <1>2, <1>3, <2>1, SameOver
<1>7. x -- y \in Rats
  BY Closed
<1>8. /\ (a <= b <=> ~(b < a)) /\ (a <= b /\ b <= a => a = b) /\ ~(a < a) /\ a <= a
      /\ (a < b => a <= b /\ a # b) /\ (a <= b /\ a # b => a < b)
      /\ (a - b <= 0 <=> a <= b) /\ (0 <= a - b <=> b <= a) /\ (0 < a - b <=> b < a)
      /\ (a - b = 0 <=> a = b)
  OBVIOUS
<1> QED BY <1>4, <1>5, <1>6, <1>7, <1>8

\* What is left of x after y was taken.
LEMMA Remaining ==
    ASSUME NEW x \in Rats, NEW y \in Rats, y \preceq x
    PROVE  /\ x -- y \in Rats
           /\ x -- y # Zero => Zero \prec (x -- y)
           /\ x -- y = Zero => x = y
<1>1. PICK d, a, b \in Int : Over(x, a, d) /\ Over(y, b, d)
  BY CommonDenominator
<1>2. Over(Zero, 0, d) /\ Over(x -- y, a - b, d)
  BY <1>1, ZeroOver, MinusOver DEF Over
<1>3. b <= a
  BY <1>1, OrderOver
<1>4. /\ a - b # 0 => 0 < a - b
      /\ a - b = 0 => a = b
  BY <1>3
<1>5. x -- y \in Rats
  BY Closed
<1>6. x -- y = Zero <=> a - b = 0
  BY <1>2, SameOver
<1>7. Zero \prec (x -- y) <=> 0 < a - b
  BY <1>2, OrderOver
<1>8. x = y <=> a = b
  BY <1>1, SameOver
<1> QED BY <1>4, <1>5, <1>6, <1>7, <1>8

LEMMA Telescoped ==
    ASSUME NEW r \in Rats, NEW c \in Rats, NEW k \in Rats
    PROVE  /\ (r -- c) ++ (c -- k) = r -- k
           /\ (r ++ (Zero -- k)) = r -- k
<1>1. PICK d, x, y, z \in Int : Over(r, x, d) /\ Over(c, y, d) /\ Over(k, z, d)
  BY CommonDenominator
<1>2. Over(r -- k, x - z, d)
  BY <1>1, MinusOver
<1>3. Over(r -- c, x - y, d) /\ Over(c -- k, y - z, d)
  BY <1>1, MinusOver
<1>4. Over((r -- c) ++ (c -- k), (x - y) + (y - z), d)
  BY <1>3, PlusOver
<1>5. Over(Zero, 0, d)
  BY <1>1, ZeroOver DEF Over
<1>6. Over(r ++ (Zero -- k), x + (0 - z), d)
  BY <1>1, <1>5, MinusOver, PlusOver
<1>7. (x - y) + (y - z) = x - z /\ x + (0 - z) = x - z
  OBVIOUS
<1> QED BY <1>2, <1>4, <1>6, <1>7, SameOver

-----------------------------------------------------------------------------
(* The sum of the values of a function.                                     *)

\* A nonempty set of finite sets has a member none of whose elements can be removed.
LEMMA SmallestSet ==
    ASSUME NEW B, B # {}, \A s \in B : IsFiniteSet(s)
    PROVE  \E s \in B : \A x \in s : s \ {x} \notin B
<1> DEFINE U == UNION B
<1>1. B \subseteq FiniteSubsetsOf(U)
  BY DEF FiniteSubsetsOf
<1>2. PICK s \in B : \A t \in B : <<t, s>> \notin StrictSubsetOrdering(U)
  <2> HIDE DEF U
  <2> QED BY <1>1, FS_StrictSubsetOrderingWellFounded, WFMin
<1>3. ASSUME NEW x \in s, s \ {x} \in B
      PROVE  FALSE
  <2>1. s \ {x} \subseteq s /\ s \ {x} # s /\ s \in SUBSET U /\ s \ {x} \in SUBSET U
    OBVIOUS
  <2>2. <<s \ {x}, s>> \in StrictSubsetOrdering(U)
    BY <2>1 DEF StrictSubsetOrdering
  <2> QED BY <1>2, <1>3, <2>2
<1> QED BY <1>3

\* The element the fold takes next.
Taken(s) == CHOOSE x \in s : TRUE

\* it is the recursive function of the fold over the values of f.
IsFold(it, f) ==
    it = [s \in SUBSET DOMAIN f |->
             IF s = {} THEN Zero ELSE f[Taken(s)] ++ it[s \ {Taken(s)}]]

\* A function whose values can be added up.
Summable(f) ==
    /\ f = [i \in DOMAIN f |-> f[i]]
    /\ IsFiniteSet(DOMAIN f)
    /\ \A i \in DOMAIN f : f[i] \in Rats

\* The fold's recursion unfolds.
LEMMA SumIsFold ==
    ASSUME NEW f, Summable(f)
    PROVE  \E it : IsFold(it, f) /\ RatSum(f) = it[DOMAIN f]
<1> DEFINE S == SUBSET DOMAIN f
           B == {{}}
           p == [s \in S |-> s \ {Taken(s)}]
           rank == [s \in S |-> Cardinality(s)]
           b == [s \in S |-> Zero]
           h == [s \in S |-> [v \in Rats |->
                                 IF s = {} THEN Zero ELSE f[Taken(s)] ++ v]]
<1>1. \A s \in S : s # {} => Taken(s) \in s
  BY DEF Taken
<1>2. \A s \in S : IsFiniteSet(s) /\ Cardinality(s) \in Nat
  BY FS_Subset, FS_CardinalityType DEF Summable
<1>3. p \in [S -> S] /\ rank \in [S -> Nat]
  BY <1>2
<1>4. b \in [S -> Rats] /\ h \in [S -> [Rats -> Rats]]
  <2>1. ASSUME NEW s \in S, NEW v \in Rats
        PROVE  (IF s = {} THEN Zero ELSE f[Taken(s)] ++ v) \in Rats
    BY <1>1, Closed, ZeroOver DEF Summable
  <2> QED BY <2>1, ZeroOver
<1>5. \A s \in S : s \notin B => rank[p[s]] < rank[s]
  <2> SUFFICES ASSUME NEW s \in S, s # {}
               PROVE  Cardinality(s \ {Taken(s)}) < Cardinality(s)
    OBVIOUS
  <2>1. IsFiniteSet(s) /\ Cardinality(s) \in Nat /\ Taken(s) \in s
    BY <1>1, <1>2
  <2> DEFINE t == s \ {Taken(s)}
  <2>2. Cardinality(t) = Cardinality(s) - 1
    <3>1. Cardinality(t) = IF Taken(s) \in s THEN Cardinality(s) - 1 ELSE Cardinality(s)
      BY <2>1, FS_RemoveElement, Zenon
    <3> HIDE DEF t
    <3> QED BY <2>1, <3>1
  <2> HIDE DEF t
  <2>3. Cardinality(t) < Cardinality(s)
    BY <2>1, <2>2
  <2> QED BY <2>3 DEF t
<1>6. Recursive(S, Rats, B, p, rank, b, h)
  BY <1>3, <1>4, <1>5 DEF Recursive
<1>7. PICK it \in [S -> Rats] :
          \A s \in S : it[s] = IF s \in B THEN b[s] ELSE h[s][it[p[s]]]
  <2> HIDE DEF S, B, p, rank, b, h
  <2> QED BY <1>6, RecursionExists
<1>8. \A s \in S : it[s] = IF s = {} THEN Zero ELSE f[Taken(s)] ++ it[s \ {Taken(s)}]
  <2> SUFFICES ASSUME NEW s \in S
               PROVE  it[s] = IF s = {} THEN Zero
                              ELSE f[Taken(s)] ++ it[s \ {Taken(s)}]
    OBVIOUS
  <2>1. CASE s = {}
    BY <1>7, <2>1
  <2>2. CASE s # {}
    <3>1. p[s] \in S /\ it[p[s]] \in Rats
      OBVIOUS
    <3>2. h[s][it[p[s]]] = f[Taken(s)] ++ it[p[s]]
      BY <2>2, <3>1
    <3> QED BY <1>7, <2>2, <3>2
  <2> QED BY <2>1, <2>2
<1>9. IsFold(it, f)
  BY <1>8 DEF IsFold
<1> DEFINE iter == CHOOSE g : IsFold(g, f)
<1>10. RatSum(f) = iter[DOMAIN f]
  BY DEF RatSum, FoldFunction, FoldFunctionOnSet, MapThenFoldSet, IsFold, Taken
<1>11. IsFold(iter, f)
  BY <1>9
<1> QED BY <1>10, <1>11

\* The fold over a subset is the sum of the function restricted to it.
LEMMA FoldsAgree ==
    ASSUME NEW f, NEW g, NEW it, NEW ig, IsFold(it, f), IsFold(ig, g),
           Summable(f), Summable(g),
           NEW D, D \subseteq DOMAIN f, D \subseteq DOMAIN g,
           \A i \in D : f[i] = g[i]
    PROVE  it[D] = ig[D]
<1> DEFINE B == {s \in SUBSET D : it[s] # ig[s]}
<1> SUFFICES ASSUME B # {} PROVE FALSE
  OBVIOUS
<1>1. \A s \in B : IsFiniteSet(s)
  BY FS_Subset DEF Summable
<1>2. PICK s \in B : \A x \in s : s \ {x} \notin B
  <2> HIDE DEF B
  <2> QED BY <1>1, SmallestSet
<1>3. s \subseteq D /\ s \subseteq DOMAIN f /\ s \subseteq DOMAIN g /\ it[s] # ig[s]
  OBVIOUS
<1>4. /\ it[s] = IF s = {} THEN Zero ELSE f[Taken(s)] ++ it[s \ {Taken(s)}]
      /\ ig[s] = IF s = {} THEN Zero ELSE g[Taken(s)] ++ ig[s \ {Taken(s)}]
  BY <1>3 DEF IsFold
<1>5. s # {}
  BY <1>3, <1>4
<1>6. Taken(s) \in s
  BY <1>5 DEF Taken
<1>7. it[s \ {Taken(s)}] = ig[s \ {Taken(s)}]
  BY <1>2, <1>3, <1>6
<1>8. f[Taken(s)] = g[Taken(s)]
  BY <1>3, <1>6
<1> QED BY <1>3, <1>4, <1>5, <1>7, <1>8

\* The sum over part of a function's domain.
SumOver(s, f) == RatSum([i \in s |-> f[i]])

LEMMA RestrictionSummable ==
    ASSUME NEW f, Summable(f), NEW s \in SUBSET DOMAIN f
    PROVE  Summable([i \in s |-> f[i]])
BY FS_Subset DEF Summable

LEMMA SumTaken ==
    ASSUME NEW f, Summable(f), NEW s \in SUBSET DOMAIN f
    PROVE  SumOver(s, f) = IF s = {} THEN Zero
                           ELSE f[Taken(s)] ++ SumOver(s \ {Taken(s)}, f)
<1> DEFINE t == s \ {Taken(s)}
           fs == [i \in s |-> f[i]]
           ft == [i \in t |-> f[i]]
<1>1. Summable(fs) /\ Summable(ft)
  BY RestrictionSummable
<1>2. PICK is : IsFold(is, fs) /\ SumOver(s, f) = is[DOMAIN fs]
  BY <1>1, SumIsFold DEF SumOver
<1>3. PICK jt : IsFold(jt, ft) /\ SumOver(t, f) = jt[DOMAIN ft]
  BY <1>1, SumIsFold DEF SumOver
<1>4. is[t] = jt[t]
  BY <1>1, <1>2, <1>3, FoldsAgree
<1>5. is[s] = IF s = {} THEN Zero ELSE fs[Taken(s)] ++ is[t]
  BY <1>2 DEF IsFold
<1>6. s # {} => fs[Taken(s)] = f[Taken(s)]
  BY DEF Taken
<1> QED BY <1>2, <1>3, <1>4, <1>5, <1>6

\* A sum is a rational.
LEMMA SumOverIsRat ==
    ASSUME NEW f, Summable(f), NEW D \in SUBSET DOMAIN f
    PROVE  SumOver(D, f) \in Rats
<1> DEFINE B == {s \in SUBSET DOMAIN f : SumOver(s, f) \notin Rats}
<1> SUFFICES ASSUME B # {} PROVE FALSE
  OBVIOUS
<1>1. \A s \in B : IsFiniteSet(s)
  BY FS_Subset DEF Summable
<1>2. PICK s \in B : \A x \in s : s \ {x} \notin B
  <2> HIDE DEF B
  <2> QED BY <1>1, SmallestSet
<1>3. s \in SUBSET DOMAIN f /\ SumOver(s, f) \notin Rats
  OBVIOUS
<1>4. SumOver(s, f) = IF s = {} THEN Zero
                      ELSE f[Taken(s)] ++ SumOver(s \ {Taken(s)}, f)
  BY <1>3, SumTaken
<1>5. s # {}
  BY <1>3, <1>4, ZeroOver
<1>6. Taken(s) \in s
  BY <1>5 DEF Taken
<1>7. SumOver(s \ {Taken(s)}, f) \in Rats
  BY <1>2, <1>3, <1>6
<1>8. f[Taken(s)] \in Rats
  BY <1>3, <1>6 DEF Summable
<1> QED BY <1>3, <1>4, <1>5, <1>7, <1>8, Closed

\* Any element may be taken first.
LEMMA SumOverTakes ==
    ASSUME NEW f, Summable(f), NEW D \in SUBSET DOMAIN f, NEW e \in D
    PROVE  SumOver(D, f) = f[e] ++ SumOver(D \ {e}, f)
<1> DEFINE Fails(s) == \E a \in s : SumOver(s, f) # f[a] ++ SumOver(s \ {a}, f)
           B == {s \in SUBSET DOMAIN f : Fails(s)}
<1> SUFFICES ASSUME B # {} PROVE FALSE
  OBVIOUS
<1>1. \A s \in B : IsFiniteSet(s)
  BY FS_Subset DEF Summable
<1>2. PICK s \in B : \A x \in s : s \ {x} \notin B
  <2> HIDE DEF B
  <2> QED BY <1>1, SmallestSet
<1>3. PICK a \in s : SumOver(s, f) # f[a] ++ SumOver(s \ {a}, f)
  OBVIOUS
<1> DEFINE c == Taken(s)
<1>4. s \in SUBSET DOMAIN f /\ c \in s
  BY <1>3 DEF Taken
<1>5. SumOver(s, f) = f[c] ++ SumOver(s \ {c}, f)
  BY <1>3, <1>4, SumTaken
<1>6. c # a
  BY <1>3, <1>5
<1> HIDE DEF c
<1>7. ~Fails(s \ {a}) /\ ~Fails(s \ {c})
  <2>1. s \ {a} \in SUBSET DOMAIN f /\ s \ {c} \in SUBSET DOMAIN f
    BY <1>4
  <2> HIDE DEF Fails
  <2> QED BY <1>2, <1>4, <2>1
<1>8. SumOver(s \ {c}, f) = f[a] ++ SumOver((s \ {c}) \ {a}, f)
  BY <1>6, <1>7
<1>9. SumOver(s \ {a}, f) = f[c] ++ SumOver((s \ {a}) \ {c}, f)
  BY <1>4, <1>6, <1>7
<1>10. (s \ {c}) \ {a} = (s \ {a}) \ {c}
  OBVIOUS
<1> DEFINE r == SumOver((s \ {a}) \ {c}, f)
<1>11. r \in Rats /\ f[a] \in Rats /\ f[c] \in Rats
  BY <1>4, SumOverIsRat DEF Summable
<1> HIDE DEF r
<1>12. f[c] ++ (f[a] ++ r) = f[a] ++ (f[c] ++ r)
  BY <1>11, PlusLaws
<1> QED BY <1>3, <1>5, <1>8, <1>9, <1>10, <1>12 DEF r

LEMMA SumIs ==
    ASSUME NEW f, Summable(f)
    PROVE  /\ RatSum(f) \in Rats
           /\ RatSum(f) = SumOver(DOMAIN f, f)
           /\ DOMAIN f = {} => RatSum(f) = Zero
<1>1. RatSum(f) = SumOver(DOMAIN f, f)
  BY DEF Summable, SumOver
<1> QED BY <1>1, SumOverIsRat, SumTaken

\* A sum after one more value.
LEMMA SumGrows ==
    ASSUME NEW f, NEW g, Summable(f), Summable(g), NEW e, e \notin DOMAIN f,
           DOMAIN g = DOMAIN f \union {e}, \A i \in DOMAIN f : g[i] = f[i]
    PROVE  RatSum(g) = RatSum(f) ++ g[e]
<1>1. RatSum(g) = g[e] ++ SumOver(DOMAIN g \ {e}, g)
  BY SumIs, SumOverTakes
<1>2. DOMAIN g \ {e} = DOMAIN f
  OBVIOUS
<1>3. [i \in DOMAIN f |-> g[i]] = [i \in DOMAIN f |-> f[i]]
  OBVIOUS
<1>4. SumOver(DOMAIN g \ {e}, g) = RatSum(f)
  BY <1>2, <1>3 DEF SumOver, Summable
<1>5. g[e] \in Rats /\ RatSum(f) \in Rats
  BY SumIs DEF Summable
<1> QED BY <1>1, <1>4, <1>5, PlusLaws

\* A sum after one value was replaced.
LEMMA SumReplaced ==
    ASSUME NEW f, NEW g, Summable(f), Summable(g), NEW e \in DOMAIN f,
           DOMAIN g = DOMAIN f, \A i \in DOMAIN f : i # e => g[i] = f[i]
    PROVE  RatSum(g) = (RatSum(f) -- f[e]) ++ g[e]
<1> DEFINE D == DOMAIN f \ {e}
           r == SumOver(D, f)
<1>1. RatSum(g) = g[e] ++ SumOver(D, g) /\ RatSum(f) = f[e] ++ r
  BY SumIs, SumOverTakes
<1>2. [i \in D |-> g[i]] = [i \in D |-> f[i]]
  OBVIOUS
<1>3. SumOver(D, g) = r
  BY <1>2 DEF SumOver
<1>4. g[e] \in Rats /\ f[e] \in Rats /\ r \in Rats
  BY SumOverIsRat DEF Summable
<1> HIDE DEF r, D
<1>5. (f[e] ++ r) -- f[e] = r
  BY <1>4, PlusLaws
<1>6. g[e] ++ r = r ++ g[e]
  BY <1>4, PlusLaws
<1> QED BY <1>1, <1>3, <1>5, <1>6

\* An integer is a rational.
LEMMA RatIsRat ==
    ASSUME NEW n \in Int
    PROVE  Rat(n) \in Rats /\ Over(Rat(n), n, 1)
<1>1. Coprime(n, 1)
  <2> SUFFICES ASSUME NEW k \in Int, NEW m \in Int, n * k = 1 * m
               PROVE  \E j \in Int : k = 1 * j /\ m = n * j
    BY DEF Coprime
  <2>1. k = 1 * k /\ m = n * k
    OBVIOUS
  <2> QED BY <2>1
<1>2. Rat(n) \in Rats /\ Rat(n)[1] = n /\ Rat(n)[2] = 1
  BY <1>1 DEF Rat, Rats, Pairs
<1> QED BY <1>2 DEF Over, Is
-----------------------------------------------------------------------------
(* Loops over a sequence that collect what they keep.                        *)

\* A nonempty set of indices has a greatest element.
LEMMA GreatestIs ==
    ASSUME NEW n \in Nat, NEW s \in SUBSET (1..n), s # {}
    PROVE  Max(s) \in s
<1> DEFINE T == {n - i : i \in s}
<1>1. \A i \in s : i \in Int /\ n - i \in Nat
  OBVIOUS
<1>9. T \subseteq Nat /\ T # {}
  BY <1>1
<1>2. PICK m \in T : \A k \in T : m <= k
  <2> HIDE DEF T
  <2> QED BY <1>9, LeastNatural
<1>3. PICK i \in s : m = n - i
  BY <1>2
<1>4. \A j \in s : i >= j
  <2> SUFFICES ASSUME NEW j \in s PROVE i >= j
    OBVIOUS
  <2>1. n - j \in T /\ i \in Int /\ j \in Int
    BY <1>1
  <2>2. n - i <= n - j
    BY <1>2, <1>3, <2>1
  <2> QED BY <2>1, <2>2
<1> QED BY <1>4 DEF Max

\* f goes on from the value it has for all but the last index.
Carries(f, n, V) ==
    \A s \in SUBSET (1..n) :
        (s = {} \/ f[s \ {Max(s)}] \in V) => f[s] \in V

\* Then it has such a value for all of them.
LEMMA FoldStays ==
    ASSUME NEW f, NEW n \in Nat, NEW V, Carries(f, n, V)
    PROVE  f[1..n] \in V
<1> DEFINE Z == {s \in SUBSET (1..n) : f[s] \notin V}
<1>1. \A s \in Z : IsFiniteSet(s)
  <2>1. IsFiniteSet(1..n)
    BY FS_Interval
  <2> QED BY <2>1, FS_Subset
<1>2. ASSUME Z # {}
      PROVE  FALSE
  <2>1. PICK s \in Z : \A x \in s : s \ {x} \notin Z
    <3> HIDE DEF Z
    <3> QED BY <1>1, <1>2, SmallestSet
  <2>2. s \in SUBSET (1..n) /\ f[s] \notin V
    OBVIOUS
  <2>3. CASE s = {}
    BY <2>2, <2>3 DEF Carries
  <2>4. CASE s # {}
    <3>1. Max(s) \in s
      BY <2>2, <2>4, GreatestIs
    <3>2. f[s \ {Max(s)}] \in V
      BY <2>1, <2>2, <3>1
    <3> QED BY <2>2, <3>2 DEF Carries
  <2> QED BY <2>3, <2>4
<1> QED BY <1>2

\* The names of the entries that are on, collected one after the other.
Collects(f, n, on, name) ==
    f = [s \in SUBSET (1..n) |->
            IF s = {} THEN <<>>
            ELSE IF on[Max(s)] THEN Append(f[s \ {Max(s)}], name[Max(s)])
            ELSE f[s \ {Max(s)}]]

\* They are a sequence of names.
LEMMA CollectedAre ==
    ASSUME NEW n \in Nat, NEW on, NEW A, NEW name \in [1..n -> A],
           NEW f, Collects(f, n, on, name)
    PROVE  f[1..n] \in Seq(A)
<1>1. ASSUME NEW s \in SUBSET (1..n), s = {} \/ f[s \ {Max(s)}] \in Seq(A)
      PROVE  f[s] \in Seq(A)
  <2>1. CASE s = {}
    BY <2>1 DEF Collects
  <2>2. CASE s # {}
    <3>1. name[Max(s)] \in A
      BY <2>2, GreatestIs
    <3>2. f[s \ {Max(s)}] \in Seq(A)
      BY <1>1, <2>2
    <3>3. f[s] = IF on[Max(s)] THEN Append(f[s \ {Max(s)}], name[Max(s)])
                               ELSE f[s \ {Max(s)}]
      BY <2>2 DEF Collects
    <3> QED BY <3>1, <3>2, <3>3
  <2> QED BY <2>1, <2>2
<1>2. Carries(f, n, Seq(A))
  BY <1>1 DEF Carries
<1> QED BY <1>2, FoldStays

\* And there are such.
LEMMA CollectionExists ==
    ASSUME NEW n \in Nat, NEW on, NEW A, NEW name \in [1..n -> A]
    PROVE  \E f : Collects(f, n, on, name)
<1> DEFINE D == SUBSET (1..n)
           V == Seq(A)
           Z == {{}}
           p == [s \in D |-> s \ {Max(s)}]
           rank == [s \in D |-> Cardinality(s)]
           b == [s \in D |-> <<>>]
           h == [s \in D |-> [v \in V |->
                     IF s = {} THEN <<>>
                     ELSE IF on[Max(s)] THEN Append(v, name[Max(s)]) ELSE v]]
<1>1. \A s \in D : s # {} => Max(s) \in s
  BY GreatestIs
<1>9. IsFiniteSet(1..n)
  BY FS_Interval
<1>2. \A s \in D : IsFiniteSet(s) /\ Cardinality(s) \in Nat
  BY <1>9, FS_Subset, FS_CardinalityType
<1>3. p \in [D -> D] /\ rank \in [D -> Nat]
  BY <1>2
<1>4. b \in [D -> V] /\ h \in [D -> [V -> V]]
  <2>1. ASSUME NEW s \in D, NEW v \in V
        PROVE  (IF s = {} THEN <<>>
                ELSE IF on[Max(s)] THEN Append(v, name[Max(s)]) ELSE v) \in V
    <3>1. s # {} => name[Max(s)] \in A
      BY <1>1
    <3> QED BY <3>1
  <2> QED BY <2>1
<1>5. \A s \in D : s \notin Z => rank[p[s]] < rank[s]
  <2> SUFFICES ASSUME NEW s \in D, s # {}
               PROVE  Cardinality(s \ {Max(s)}) < Cardinality(s)
    OBVIOUS
  <2>1. IsFiniteSet(s) /\ Cardinality(s) \in Nat /\ Max(s) \in s
    BY <1>1, <1>2
  <2> DEFINE r == s \ {Max(s)}
  <2>2. Cardinality(r) = IF Max(s) \in s THEN Cardinality(s) - 1 ELSE Cardinality(s)
    BY <2>1, FS_RemoveElement, Zenon
  <2> HIDE DEF r
  <2>3. Cardinality(r) < Cardinality(s)
    BY <2>1, <2>2
  <2> QED BY <2>3 DEF r
<1>6. Recursive(D, V, Z, p, rank, b, h)
  BY <1>3, <1>4, <1>5 DEF Recursive
<1>7. PICK f \in [D -> V] :
          \A s \in D : f[s] = IF s \in Z THEN b[s] ELSE h[s][f[p[s]]]
  <2> HIDE DEF D, V, Z, p, rank, b, h
  <2> QED BY <1>6, RecursionExists
<1>8. \A s \in D : f[s] = IF s = {} THEN <<>>
                          ELSE IF on[Max(s)] THEN Append(f[s \ {Max(s)}], name[Max(s)])
                          ELSE f[s \ {Max(s)}]
  <2> SUFFICES ASSUME NEW s \in D
               PROVE  f[s] = IF s = {} THEN <<>>
                             ELSE IF on[Max(s)] THEN Append(f[s \ {Max(s)}], name[Max(s)])
                             ELSE f[s \ {Max(s)}]
    OBVIOUS
  <2>1. CASE s = {}
    BY <1>7, <2>1
  <2>2. CASE s # {}
    <3>1. p[s] \in D /\ f[p[s]] \in V
      OBVIOUS
    <3>2. h[s][f[p[s]]] = IF on[Max(s)] THEN Append(f[p[s]], name[Max(s)]) ELSE f[p[s]]
      BY <2>2, <3>1
    <3> QED BY <1>7, <2>2, <3>2
  <2> QED BY <2>1, <2>2
<1> QED BY <1>8 DEF Collects

-----------------------------------------------------------------------------
(* Induction up to a number, loops that take what they keep, walks.           *)

\* What holds of 0 and, up to n, of each number after one it holds of, holds up to n.
LEMMA InductionTo ==
    ASSUME NEW n \in Nat, NEW T, 0 \in T, \A k \in 1..n : k - 1 \in T => k \in T
    PROVE  \A k \in 0..n : k \in T
<1> DEFINE Out == {k \in 0..n : k \notin T}
<1> SUFFICES ASSUME Out # {} PROVE FALSE
  OBVIOUS
<1>1. Out \subseteq Nat
  OBVIOUS
<1>2. PICK m \in Out : \A k \in Out : m <= k
  <2> HIDE DEF Out
  <2> QED BY <1>1, LeastNatural
<1>3. m \in 1..n
  OBVIOUS
<1>4. m - 1 \in 0..n /\ m - 1 < m
  BY <1>3
<1>5. m - 1 \notin Out
  <2>1. m \in Int /\ m - 1 \in Int
    BY <1>3
  <2> HIDE DEF Out
  <2> QED BY <1>2, <1>4, <2>1
<1> QED BY <1>3, <1>4, <1>5

LEMMA MaxIs ==
    ASSUME NEW s, NEW m \in s, s \subseteq Int, \A j \in s : j <= m
    PROVE  Max(s) = m
<1>1. \A y \in s : m >= y
  OBVIOUS
<1>2. ASSUME NEW x \in s, \A y \in s : x >= y
      PROVE  x = m
  <2>1. x >= m /\ x <= m /\ x \in Int /\ m \in Int
    BY <1>2
  <2> QED BY <2>1
<1> QED BY <1>1, <1>2 DEF Max

\* g collects one name after the other.
Keeps(g, n, on, name) ==
    /\ g[0] = <<>>
    /\ \A k \in 1..n : g[k] = IF on[k] THEN Append(g[k - 1], name[k]) ELSE g[k - 1]

LEMMA KeptOneByOne ==
    ASSUME NEW n \in Nat, NEW on, NEW A, NEW name \in [1..n -> A],
           NEW f, Collects(f, n, on, name)
    PROVE  \E g \in [0..n -> Seq(A)] : Keeps(g, n, on, name) /\ f[1..n] = g[n]
<1> DEFINE g == [k \in 0..n |-> f[1..k]]
<1>1. ASSUME NEW k \in 1..n
      PROVE  g[k] = IF on[k] THEN Append(g[k - 1], name[k]) ELSE g[k - 1]
  <2>1. 1..k \in SUBSET (1..n) /\ 1..k # {} /\ k \in 1..k
    OBVIOUS
  <2>2. Max(1..k) = k
    <3>1. PICK s : s = 1..k
      OBVIOUS
    <3>2. k \in s /\ s \subseteq Int /\ \A j \in s : j <= k
      BY <3>1
    <3>3. Max(s) = k
      BY <3>2, MaxIs
    <3> QED BY <3>1, <3>3
  <2>3. (1..k) \ {k} = 1..(k - 1)
    OBVIOUS
  <2>4. k \in 0..n /\ k - 1 \in 0..n
    OBVIOUS
  <2>5. f[1..k] = IF on[k] THEN Append(f[1..(k - 1)], name[k]) ELSE f[1..(k - 1)]
    <3>1. PICK s : s = 1..k
      OBVIOUS
    <3>2. /\ s \in SUBSET (1..n) /\ s # {} /\ Max(s) = k
          /\ s \ {k} = 1..(k - 1)
      BY <2>1, <2>2, <2>3, <3>1
    <3>3. f[s] = IF on[Max(s)] THEN Append(f[s \ {Max(s)}], name[Max(s)])
                 ELSE f[s \ {Max(s)}]
      BY <3>2, Zenon DEF Collects
    <3>4. f[s] = IF on[k] THEN Append(f[s \ {k}], name[k]) ELSE f[s \ {k}]
      BY <3>2, <3>3
    <3> QED BY <3>1, <3>2, <3>4, Zenon
  <2> QED BY <2>4, <2>5
<1>2. g[0] = <<>>
  <2>1. 1..0 = {} /\ 0 \in 0..n /\ {} \in SUBSET (1..n)
    OBVIOUS
  <2>2. f[{}] = <<>>
    BY <2>1 DEF Collects
  <2> QED BY <2>1, <2>2
<1> DEFINE T == {k \in 0..n : g[k] \in Seq(A)}
<1>3. 0 \in T
  <2>1. <<>> \in Seq(A) /\ 0 \in 0..n
    OBVIOUS
  <2> HIDE DEF g
  <2> QED BY <1>2, <2>1
<1>4. \A k \in 1..n : k - 1 \in T => k \in T
  <2> SUFFICES ASSUME NEW k \in 1..n, k - 1 \in T PROVE k \in T
    OBVIOUS
  <2>1. name[k] \in A /\ g[k - 1] \in Seq(A)
    OBVIOUS
  <2> HIDE DEF g
  <2>2. Append(g[k - 1], name[k]) \in Seq(A)
    BY <2>1
  <2>3. g[k] \in Seq(A)
    BY <1>1, <2>1, <2>2, Zenon
  <2> QED BY <2>3
<1>5. \A k \in 0..n : k \in T
  <2> HIDE DEF T
  <2> QED BY <1>3, <1>4, InductionTo
<1>6. g \in [0..n -> Seq(A)]
  BY <1>5
<1>7. f[1..n] = g[n]
  OBVIOUS
<1> QED BY <1>1, <1>2, <1>6, <1>7 DEF Keeps

\* A value carried from 1 to n, h[i] making the i-th of the one before.
Walked(f, n, V, v0, h) ==
    f \in [0..n -> V] /\ f[0] = v0 /\ \A i \in 1..n : f[i] = h[i][f[i - 1]]

Walkable(n, V, v0, h) == n \in Nat /\ v0 \in V /\ h \in [1..n -> [V -> V]]

LEMMA WalkExists ==
    ASSUME NEW n, NEW V, NEW v0, NEW h, Walkable(n, V, v0, h)
    PROVE  \E f : Walked(f, n, V, v0, h)
<1> USE DEF Walkable
<1> DEFINE I == 0..n
           Z == {0}
           p == [i \in I |-> IF i = 0 THEN 0 ELSE i - 1]
           rank == [i \in I |-> i]
           b == [i \in I |-> v0]
           hh == [i \in I |-> IF i = 0 THEN [v \in V |-> v] ELSE h[i]]
<1>1. p \in [I -> I] /\ rank \in [I -> Nat] /\ b \in [I -> V]
  OBVIOUS
<1>2. hh \in [I -> [V -> V]]
  OBVIOUS
<1>3. \A i \in I : i \notin Z => rank[p[i]] < rank[i]
  OBVIOUS
<1>4. Recursive(I, V, Z, p, rank, b, hh)
  BY <1>1, <1>2, <1>3 DEF Recursive
<1>5. PICK f \in [I -> V] : \A i \in I : f[i] = IF i \in Z THEN b[i] ELSE hh[i][f[p[i]]]
  <2> HIDE DEF I, Z, p, rank, b, hh
  <2> QED BY <1>4, RecursionExists
<1>6. f[0] = v0
  BY <1>5
<1>7. \A i \in 1..n : f[i] = h[i][f[i - 1]]
  <2> SUFFICES ASSUME NEW i \in 1..n PROVE f[i] = h[i][f[i - 1]]
    OBVIOUS
  <2>1. i \in I /\ i \notin Z /\ p[i] = i - 1 /\ hh[i] = h[i]
    OBVIOUS
  <2> HIDE DEF I, Z, p, b, hh
  <2> QED BY <1>5, <2>1
<1> QED BY <1>5, <1>6, <1>7 DEF Walked

\* Sums of sequences.
LEMMA SeqSummable ==
    ASSUME NEW s \in Seq(Rats)
    PROVE  Summable(s) /\ RatSum(s) \in Rats /\ (s = <<>> => RatSum(s) = Zero)
<1>1. s = [i \in DOMAIN s |-> s[i]] /\ \A i \in DOMAIN s : s[i] \in Rats
  OBVIOUS
<1>2. IsFiniteSet(DOMAIN s)
  <2>1. DOMAIN s = 1..Len(s) /\ 1 \in Int /\ Len(s) \in Int
    OBVIOUS
  <2> QED BY <2>1, FS_Interval
<1>3. Summable(s)
  BY <1>1, <1>2 DEF Summable
<1>4. s = <<>> => DOMAIN s = {}
  OBVIOUS
<1> QED BY <1>3, <1>4, SumIs

LEMMA SeqSumAppend ==
    ASSUME NEW s \in Seq(Rats), NEW e \in Rats
    PROVE  Append(s, e) \in Seq(Rats) /\ RatSum(Append(s, e)) = RatSum(s) ++ e
<1>1. PICK x : x = Append(s, e)
  OBVIOUS
<1>2. /\ x \in Seq(Rats) /\ DOMAIN s = 1..Len(s) /\ DOMAIN x = 1..(Len(s) + 1)
      /\ \A i \in 1..Len(s) : x[i] = s[i]
      /\ x[Len(s) + 1] = e /\ Len(s) \in Nat
  BY <1>1
<1>3. Summable(x) /\ Summable(s)
  BY <1>2, SeqSummable
<1>4. DOMAIN x = DOMAIN s \union {Len(s) + 1} /\ Len(s) + 1 \notin DOMAIN s
  BY <1>2
<1>5. RatSum(x) = RatSum(s) ++ x[Len(s) + 1]
  <2> HIDE <1>1
  <2> QED BY <1>2, <1>3, <1>4, SumGrows
<1> QED BY <1>1, <1>2, <1>5

-----------------------------------------------------------------------------
(* Quotients.                                                                *)

\* A positive rational as a fraction.
LEMMA PositiveIs ==
    ASSUME NEW x \in Rats, Zero \prec x
    PROVE  /\ x # Zero /\ x[1] \in Int /\ x[1] > 0 /\ x[2] \in Int /\ x[2] > 0
           /\ Is(x, x[1], x[2])
<1>1. x[1] \in Int /\ x[2] \in Int /\ x[2] > 0 /\ Is(x, x[1], x[2])
  BY RatIs
<1>2. Over(x, x[1], x[2]) /\ Over(Zero, 0, x[2])
  BY <1>1, ZeroOver DEF Over
<1>3. 0 < x[1]
  BY <1>2, OrderOver
<1>4. x # Zero
  BY <1>1, <1>2, <1>3, SameOver
<1> QED BY <1>1, <1>3, <1>4

\* The fraction of an operand in a quotient.
LEMMA QuotientIs ==
    ASSUME NEW x, NEW n, NEW d, Over(x, n, d), NEW c \in Rats, Zero \prec c
    PROVE  Over(x \oslash c, n * c[2], d * c[1])
<1> DEFINE p == c[1]
           q == c[2]
<1>1. p \in Int /\ p > 0 /\ q \in Int /\ q > 0 /\ Is(c, p, q)
  BY PositiveIs
<1>2. n \in Int /\ d \in Int /\ d > 0 /\ Is(x, n, d)
  BY DEF Over, Is
<1> HIDE DEF p, q
<1>3. Is(x \oslash c, n * q, d * p)
  BY <1>1, <1>2, OverIs
<1>4. d * p > 0
  BY <1>1, <1>2
<1> QED BY <1>3, <1>4 DEF Over, p, q

\* Quotients by the same positive number: their order and difference.
LEMMA ScaledOrder ==
    ASSUME NEW x \in Rats, NEW y \in Rats, NEW c \in Rats, Zero \prec c
    PROVE  /\ x \oslash c \in Rats
           /\ (x \oslash c) \prec (y \oslash c) <=> x \prec y
           /\ (x \oslash c) -- (y \oslash c) = (x -- y) \oslash c
           /\ x -- y \in Rats
           /\ Zero \oslash c = Zero
           /\ c \oslash c = One
<1>1. PICK d, n, m \in Int : Over(x, n, d) /\ Over(y, m, d)
  BY CommonDenominator
<1> DEFINE p == c[1]
           q == c[2]
<1>2. p \in Int /\ p > 0 /\ q \in Int /\ q > 0 /\ Is(c, p, q)
  BY PositiveIs
<1>3. d > 0 /\ Over(x -- y, n - m, d) /\ Over(Zero, 0, d) /\ Over(c, p, q)
  BY <1>1, <1>2, MinusOver, ZeroOver DEF Over
<1>4. /\ Over(x \oslash c, n * q, d * p) /\ Over(y \oslash c, m * q, d * p)
      /\ Over((x -- y) \oslash c, (n - m) * q, d * p) /\ Over(Zero \oslash c, 0 * q, d * p)
      /\ Over(c \oslash c, p * q, q * p)
  BY <1>1, <1>3, QuotientIs
<1> HIDE DEF p, q
<1>5. n * q < m * q <=> n < m
  BY <1>2
<1>6. (x \oslash c) \prec (y \oslash c) <=> x \prec y
  BY <1>1, <1>4, <1>5, OrderOver
<1>7. n * q - m * q = (n - m) * q
  BY <1>2
<1>8. (x \oslash c) -- (y \oslash c) = (x -- y) \oslash c
  <2>1. Over((x \oslash c) -- (y \oslash c), n * q - m * q, d * p)
    BY <1>4, MinusOver
  <2> QED BY <1>4, <1>7, <2>1, SameOver
<1>9. Zero \oslash c = Zero
  <2>1. d * p \in Int /\ d * p > 0 /\ 0 * q = 0
    BY <1>2, <1>3
  <2>2. Over(Zero, 0, d * p)
    BY <2>1, ZeroOver
  <2> QED BY <1>4, <2>1, <2>2, SameOver
<1>10. c \oslash c = One
  <2>1. Is(One, 1, 1)
    BY RatIsRat DEF One, Over
  <2>2. q * p \in Int /\ q * p # 0 /\ 1 * (q * p) = p * q /\ 1 * (q * p) = q * p
    BY <1>2
  <2>3. Is(One, p * q, q * p)
    BY <2>1, <2>2, Scale
  <2> QED BY <1>4, <2>3, SameFraction DEF Over
<1> QED BY <1>4, <1>6, <1>8, <1>9, <1>10, Closed DEF Over, Is

\* Quotients of quotients by the same positive number, and what multiplies to one.
LEMMA ScaledQuotient ==
    ASSUME NEW x \in Rats, NEW y \in Rats, NEW c \in Rats, Zero \prec c, Zero \prec y
    PROVE  /\ (x \oslash c) \oslash (y \oslash c) = x \oslash y
           /\ (y \oslash c) \otimes (x \oslash y) = x \oslash c
           /\ One ++ ((x -- y) \oslash y) = x \oslash y
<1> DEFINE a == x[1]
           b == x[2]
           m == y[1]
           e == y[2]
           p == c[1]
           q == c[2]
<1>1. /\ a \in Int /\ b \in Int /\ b > 0 /\ Over(x, a, b)
      /\ m \in Int /\ m > 0 /\ e \in Int /\ e > 0 /\ Over(y, m, e)
      /\ p \in Int /\ p > 0 /\ q \in Int /\ q > 0
  BY PositiveIs, RatIs DEF Over
<1>2. /\ Over(x \oslash c, a * q, b * p) /\ Over(y \oslash c, m * q, e * p)
      /\ Over(x \oslash y, a * e, b * m)
  BY <1>1, QuotientIs
<1> HIDE DEF a, b, m, e, p, q
<1>3. (x \oslash c) \oslash (y \oslash c) = x \oslash y
  <2>1. m * q # 0
    BY <1>1
  <2>2. Is((x \oslash c) \oslash (y \oslash c), (a * q) * (e * p), (b * p) * (m * q))
    BY <1>2, <2>1, OverIs DEF Over
  <2>3. q * p \in Int /\ q * p # 0
    BY <1>1
  <2>4. Is(x \oslash y, (a * e) * (q * p), (b * m) * (q * p))
    BY <1>2, <2>3, Scale DEF Over
  <2>5. (a * q) * (e * p) = (a * e) * (q * p)
    BY <1>1
  <2>6. (b * p) * (m * q) = (b * m) * (q * p)
    BY <1>1
  <2> QED BY <2>2, <2>4, <2>5, <2>6, SameFraction
<1>4. (y \oslash c) \otimes (x \oslash y) = x \oslash c
  <2>1. Is((y \oslash c) \otimes (x \oslash y), (m * q) * (a * e), (e * p) * (b * m))
    BY <1>2, TimesIs DEF Over
  <2>2. m * e \in Int /\ m * e # 0
    BY <1>1
  <2>3. Is(x \oslash c, (a * q) * (m * e), (b * p) * (m * e))
    BY <1>2, <2>2, Scale DEF Over
  <2>4. (m * q) * (a * e) = (a * q) * (m * e)
    BY <1>1
  <2>5. (e * p) * (b * m) = (b * p) * (m * e)
    BY <1>1
  <2> QED BY <2>1, <2>3, <2>4, <2>5, SameFraction
<1>5. One ++ ((x -- y) \oslash y) = x \oslash y
  <2>1. x \oslash y \in Rats /\ y \oslash y = One /\ y \oslash y \in Rats
        /\ (x -- y) \oslash y = (x \oslash y) -- (y \oslash y)
    BY ScaledOrder
  <2>2. One ++ ((x \oslash y) -- One) = x \oslash y
    BY <2>1, PlusLaws, Closed
  <2> QED BY <2>1, <2>2
<1> QED BY <1>3, <1>4, <1>5

\* A share of a mean: w values out of n.
LEMMA ShareIs ==
    ASSUME NEW t \in Rats, NEW w \in Nat \ {0}, NEW n \in Nat \ {0}
    PROVE  /\ Ratio(w, n) \otimes (t \oslash Rat(w)) = t \oslash Rat(n)
           /\ Ratio(0, n) \otimes t = Zero
           /\ Zero \oslash Rat(n) = Zero
<1> DEFINE a == t[1]
           b == t[2]
<1>1. a \in Int /\ b \in Int /\ b > 0 /\ Is(t, a, b)
  BY RatIs
<1>2. Is(Rat(w), w, 1) /\ Is(Rat(n), n, 1) /\ Rat(n) \in Rats /\ Is(Zero, 0, 1)
  BY RatIsRat, ZeroOver DEF Over
<1> HIDE DEF a, b
<1>3. Is(Ratio(w, n), w, n) /\ Is(Ratio(0, n), 0, n)
  BY RatioIs DEF Is
<1>4. Is(t \oslash Rat(w), a * 1, b * w) /\ Is(t \oslash Rat(n), a * 1, b * n)
  BY <1>1, <1>2, OverIs
<1>5. Is(Ratio(w, n) \otimes (t \oslash Rat(w)), w * (a * 1), n * (b * w))
  BY <1>3, <1>4, TimesIs
<1>6. Is(t \oslash Rat(n), (a * 1) * w, (b * n) * w)
  BY <1>4, Scale
<1>7. w * (a * 1) = (a * 1) * w /\ n * (b * w) = (b * n) * w
  BY <1>1
<1>8. Ratio(w, n) \otimes (t \oslash Rat(w)) = t \oslash Rat(n)
  BY <1>5, <1>6, <1>7, SameFraction
<1>9. Ratio(0, n) \otimes t = Zero
  <2>1. Is(Ratio(0, n) \otimes t, 0 * a, n * b)
    BY <1>1, <1>3, TimesIs
  <2>2. n * b \in Int /\ n * b # 0 /\ 0 * a = 0 * (n * b) /\ n * b = 1 * (n * b)
    BY <1>1
  <2>3. Is(Zero, 0 * (n * b), 1 * (n * b))
    BY <1>2, <2>2, Scale
  <2> QED BY <2>1, <2>2, <2>3, SameFraction
<1>10. Zero \oslash Rat(n) = Zero
  <2>1. Is(Zero \oslash Rat(n), 0 * 1, 1 * n)
    BY <1>2, OverIs
  <2>2. Is(Zero, 0 * n, 1 * n)
    BY <1>2, Scale
  <2>3. 0 * 1 = 0 * n
    OBVIOUS
  <2> QED BY <2>1, <2>2, <2>3, SameFraction
<1> QED BY <1>8, <1>9, <1>10

\* The quotient of a sum.
LEMMA QuotientOfSum ==
    ASSUME NEW x \in Rats, NEW y \in Rats, NEW n \in Nat \ {0}
    PROVE  (x \oslash Rat(n)) ++ (y \oslash Rat(n)) = (x ++ y) \oslash Rat(n)
<1>1. PICK d, a, b \in Int : Over(x, a, d) /\ Over(y, b, d)
  BY CommonDenominator
<1>2. d > 0 /\ Over(x ++ y, a + b, d) /\ Is(Rat(n), n, 1)
  <2>1. Over(x ++ y, a + b, d)
    BY <1>1, PlusOver
  <2>2. d > 0
    BY <1>1 DEF Over
  <2>3. Is(Rat(n), n, 1)
    BY RatIsRat DEF Over
  <2> QED BY <2>1, <2>2, <2>3
<1>3. /\ Is(x \oslash Rat(n), a * 1, d * n) /\ Is(y \oslash Rat(n), b * 1, d * n)
      /\ Is((x ++ y) \oslash Rat(n), (a + b) * 1, d * n)
  BY <1>1, <1>2, OverIs DEF Over
<1>4. d * n > 0 /\ a * 1 + b * 1 = (a + b) * 1
  BY <1>1, <1>2
<1>5. Over((x \oslash Rat(n)) ++ (y \oslash Rat(n)), a * 1 + b * 1, d * n)
  BY <1>3, <1>4, PlusOver DEF Over
<1>6. Over((x ++ y) \oslash Rat(n), a * 1 + b * 1, d * n)
  BY <1>3, <1>4 DEF Over
<1> QED BY <1>5, <1>6, SameOver
=============================================================================
