-------------------------- MODULE BootstrapProofs --------------------------
(***************************************************************************)
(* The container and the bootstrap that fills it, for all programs and       *)
(* manifests.                                                                *)
(***************************************************************************)
EXTENDS Bootstrap, DataFacts

-----------------------------------------------------------------------------
(* Sequences: their last element.                                           *)

LEMMA LastIs ==
    ASSUME NEW s, IsSeq(s), s # <<>>
    PROVE  /\ IsSeq(Front(s)) /\ Len(s) \in Nat /\ Len(s) > 0
           /\ Len(Front(s)) = Len(s) - 1
           /\ \A i \in 1..(Len(s) - 1) : Front(s)[i] = s[i]
           /\ Last(s) = s[Len(s)]
<1> DEFINE S == {s[i] : i \in DOMAIN s}
<1>1. s \in Seq(S) /\ Len(s) \in Nat /\ Len(s) > 0
  BY DEF IsSeq
<1>2. \A i \in 1..(Len(s) - 1) : s[i] \in S
  <2> HIDE DEF S
  <2> QED BY <1>1
<1>3. /\ Front(s) \in Seq(S) /\ Len(Front(s)) = Len(s) - 1
      /\ \A i \in 1..(Len(s) - 1) : Front(s)[i] = s[i]
  <2> HIDE DEF S
  <2>1. /\ SubSeq(s, 1, Len(s) - 1) \in Seq(S)
        /\ Len(SubSeq(s, 1, Len(s) - 1)) = IF 1 <= Len(s) - 1 THEN Len(s) - 1 - 1 + 1 ELSE 0
        /\ \A i \in 1..(Len(s) - 1 - 1 + 1) : SubSeq(s, 1, Len(s) - 1)[i] = s[1 + i - 1]
    BY <1>1, <1>2, SubSeqProperties
  <2> DEFINE f == SubSeq(s, 1, Len(s) - 1)
  <2>2. Front(s) = f
    BY DEF Front
  <2> HIDE DEF f
  <2>3. f \in Seq(S) /\ Len(f) = Len(s) - 1 /\ \A i \in 1..(Len(s) - 1) : f[i] = s[i]
    <3>1. /\ f \in Seq(S) /\ Len(f) = IF 1 <= Len(s) - 1 THEN Len(s) - 1 - 1 + 1 ELSE 0
          /\ \A i \in 1..(Len(s) - 1 - 1 + 1) : f[i] = s[1 + i - 1]
      BY <2>1 DEF f
    <3>2. Len(f) = Len(s) - 1
      <4> DEFINE l == Len(s)
      <4>1. l \in Nat /\ l > 0 /\ Len(f) = IF 1 <= l - 1 THEN l - 1 - 1 + 1 ELSE 0
        BY <1>1, <3>1
      <4> HIDE DEF l
      <4>2. Len(f) = l - 1
        BY <4>1
      <4> QED BY <4>2 DEF l
    <3>3. ASSUME NEW i \in 1..(Len(s) - 1)
          PROVE  f[i] = s[i]
      <4>1. i \in 1..(Len(s) - 1 - 1 + 1) /\ 1 + i - 1 = i
        BY <1>1
      <4> QED BY <3>1, <4>1
    <3> QED BY <3>1, <3>2, <3>3
  <2> QED BY <2>2, <2>3
<1> HIDE DEF S
<1> QED BY <1>1, <1>3, IsSeqIntro DEF Last

\* A sequence whose last element is replaced.
Topped(s, e) == Append(Front(s), e)

LEMMA LastReplaced ==
    ASSUME NEW s, IsSeq(s), s # <<>>, NEW e, NEW x, x = Topped(s, e)
    PROVE  /\ IsSeq(x) /\ x # <<>> /\ Len(x) = Len(s) /\ Len(s) \in Nat /\ Len(s) > 0
           /\ \A i \in 1..(Len(s) - 1) : x[i] = s[i]
           /\ x[Len(s)] = e /\ Last(x) = e
<1>1. /\ IsSeq(Front(s)) /\ Len(s) \in Nat /\ Len(s) > 0
      /\ Len(Front(s)) = Len(s) - 1
      /\ \A i \in 1..(Len(s) - 1) : Front(s)[i] = s[i]
  BY LastIs
<1>2. /\ IsSeq(x) /\ Len(x) = Len(Front(s)) + 1 /\ x # <<>>
      /\ \A i \in 1..Len(Front(s)) : x[i] = Front(s)[i]
      /\ x[Len(Front(s)) + 1] = e
  BY <1>1, AppendIs DEF Topped
<1>3. Len(x) = Len(s) /\ x[Len(s)] = e
  BY <1>1, <1>2
<1> QED BY <1>1, <1>2, <1>3 DEF Last

-----------------------------------------------------------------------------
(* Manifests.                                                               *)

Identifiers(m) == ToSet(Ids(m))
WellFormed(m) == ManifestOK(m) /\ ~Malformed(m)

LEMMA RankIs ==
    ASSUME NEW c \in KNOWN_COMPONENT_IDS
    PROVE  Rank(c) \in Nat /\ SortedIds[Rank(c)] = c
<1>1. DOMAIN SortedIds \subseteq Nat
  BY DEF SortedIds
<1>2. \E i \in DOMAIN SortedIds : SortedIds[i] = c
  BY TablesAssumption DEF ToSet
<1> QED BY <1>1, <1>2 DEF Rank

\* What is listed once, and depends on what is listed.
LEMMA ManifestIs ==
    ASSUME NEW m, WellFormed(m)
    PROVE  /\ Identifiers(m) \subseteq KNOWN_COMPONENT_IDS /\ IsFiniteSet(Identifiers(m))
           /\ Len(m.components) \in Nat /\ DOMAIN m.components = 1..Len(m.components)
           /\ Cardinality(Identifiers(m)) = Len(m.components)
           /\ \A i \in DOMAIN m.components : Ids(m)[i] = m.components[i].component_id
           /\ Identifiers(m) = {m.components[i].component_id : i \in DOMAIN m.components}
           /\ \A id \in Identifiers(m) :
                  /\ SpecOf(m, id) \in [component_id : STRING, priority : Priority,
                                        required_service_keys : Seq(STRING)]
                  /\ \E i \in DOMAIN m.components :
                         SpecOf(m, id) = m.components[i] /\ m.components[i].component_id = id
           /\ Len(m.dependencies) \in Nat /\ DOMAIN m.dependencies = 1..Len(m.dependencies)
           /\ \A id : /\ Dependencies(m, id) \subseteq DOMAIN m.dependencies
                      /\ IsFiniteSet(Dependencies(m, id))
                      /\ Requires(m, id) \subseteq Identifiers(m)
           /\ \A id : id \notin Identifiers(m) => Dependencies(m, id) = {}
           /\ \A id : id \notin Requires(m, id)
<1> DEFINE C == [component_id : STRING, priority : Priority, required_service_keys : Seq(STRING)]
           D == [component_id : STRING, depends_on : STRING]
<1>1. m.components \in Seq(C) /\ m.dependencies \in Seq(D)
  BY DEF WellFormed, ManifestOK
<1> HIDE DEF C, D
<1>2. /\ Len(m.components) \in Nat /\ DOMAIN m.components = 1..Len(m.components)
      /\ Len(m.dependencies) \in Nat /\ DOMAIN m.dependencies = 1..Len(m.dependencies)
      /\ \A i \in DOMAIN m.components : m.components[i] \in C
      /\ \A i \in DOMAIN m.dependencies : m.dependencies[i] \in D
  BY <1>1
<1>3. /\ \A i \in DOMAIN m.components : Ids(m)[i] = m.components[i].component_id
      /\ DOMAIN Ids(m) = DOMAIN m.components
      /\ Identifiers(m) = {m.components[i].component_id : i \in DOMAIN m.components}
  BY DEF Ids, Identifiers, ToSet
<1>4. Len(Ids(m)) = Len(m.components)
  <2> DEFINE l == Len(m.components)
             e == [i \in 1..l |-> m.components[i].component_id]
  <2>1. Ids(m) = e
    BY <1>2 DEF Ids
  <2>2. l \in Nat
    BY <1>2
  <2> HIDE DEF l
  <2>3. e \in Seq({m.components[i].component_id : i \in 1..l}) /\ Len(e) = l
    BY <2>2
  <2> HIDE DEF e
  <2> QED BY <2>1, <2>3 DEF l
<1>5. /\ Identifiers(m) \subseteq KNOWN_COMPONENT_IDS
      /\ Cardinality(Identifiers(m)) = Len(m.components)
      /\ \A d \in ToSet(m.dependencies) :
             /\ d.component_id \in Identifiers(m) /\ d.depends_on \in Identifiers(m)
             /\ d.component_id # d.depends_on
  BY <1>4 DEF WellFormed, Malformed, Identifiers
<1>6. IsFiniteSet(Identifiers(m))
  <2>1. IsFiniteSet(1..Len(m.components))
    BY <1>2, FS_Interval
  <2> DEFINE f == [i \in 1..Len(m.components) |-> m.components[i].component_id]
  <2>2. f \in Surjection(1..Len(m.components), Identifiers(m))
    BY <1>2, <1>3 DEF Surjection
  <2> HIDE DEF f
  <2> QED BY <2>1, <2>2, FS_Surjection
<1>7. ASSUME NEW id \in Identifiers(m)
      PROVE  /\ SpecOf(m, id) \in C
             /\ \E i \in DOMAIN m.components :
                    SpecOf(m, id) = m.components[i] /\ m.components[i].component_id = id
  <2> DEFINE i == CHOOSE j \in DOMAIN m.components : Ids(m)[j] = id
  <2>1. i \in DOMAIN m.components /\ Ids(m)[i] = id
    BY <1>3
  <2> QED BY <1>2, <1>3, <2>1 DEF SpecOf
<1>8. ASSUME NEW id
      PROVE  /\ Dependencies(m, id) \subseteq DOMAIN m.dependencies
             /\ IsFiniteSet(Dependencies(m, id))
             /\ Requires(m, id) \subseteq Identifiers(m)
             /\ id \notin Identifiers(m) => Dependencies(m, id) = {}
             /\ id \notin Requires(m, id)
  <2>1. Dependencies(m, id) \subseteq 1..Len(m.dependencies)
    BY <1>2 DEF Dependencies
  <2>2. IsFiniteSet(Dependencies(m, id))
    <3> DEFINE I == 1..Len(m.dependencies)
    <3>1. IsFiniteSet(I)
      BY <1>2, FS_Interval
    <3> HIDE DEF I
    <3>2. Dependencies(m, id) \in SUBSET I
      BY <2>1 DEF I
    <3> QED BY <3>1, <3>2, FS_Subset
  <2>3. \A i \in Dependencies(m, id) :
            m.dependencies[i] \in ToSet(m.dependencies) /\ m.dependencies[i].component_id = id
    BY DEF Dependencies, ToSet
  <2> QED BY <1>2, <1>5, <2>1, <2>2, <2>3 DEF Requires
<1> QED BY <1>2, <1>3, <1>5, <1>6, <1>7, <1>8 DEF C

\* Between priorities that are numbers, the queue's order is strict and total.
Numbered(m) == {c \in Identifiers(m) : Numeric(SpecOf(m, c))}

LEMMA AheadIs ==
    ASSUME NEW m, WellFormed(m)
    PROVE  /\ \A c \in Numbered(m) : ~Ahead(m, c, c)
           /\ \A c, d \in Numbered(m) : c # d => Ahead(m, c, d) \/ Ahead(m, d, c)
           /\ \A c, d, e \in Numbered(m) :
                  Ahead(m, c, d) /\ Ahead(m, d, e) => Ahead(m, c, e)
<1>1. \A c \in Numbered(m) : SpecOf(m, c).priority \in Int /\ Rank(c) \in Nat
  <2> SUFFICES ASSUME NEW c \in Numbered(m)
               PROVE  SpecOf(m, c).priority \in Int /\ Rank(c) \in Nat
    OBVIOUS
  <2>1. /\ c \in Identifiers(m) /\ c \in KNOWN_COMPONENT_IDS
        /\ SpecOf(m, c) \in [component_id : STRING, priority : Priority,
                              required_service_keys : Seq(STRING)]
    BY ManifestIs DEF Numbered
  <2>2. SpecOf(m, c).priority \in Priority
    <3> HIDE DEF SpecOf
    <3> QED BY <2>1
  <2>3. SpecOf(m, c).priority \in Int
    BY <2>2 DEF Numbered, Numeric, Priority
  <2> QED BY <2>1, <2>3, RankIs
<1>2. \A c, d \in Numbered(m) : Rank(c) = Rank(d) => c = d
  <2>1. \A c \in Numbered(m) : c = SortedIds[Rank(c)]
    BY ManifestIs, RankIs DEF Numbered
  <2> QED BY <2>1
<1> HIDE DEF Rank, SpecOf
<1> QED BY <1>1, <1>2 DEF Ahead

\* What waits beside another has a number for a priority, or the queue raises.
LEMMA ComparableIs ==
    ASSUME NEW m, NEW ready, ready \subseteq Identifiers(m), ~Incomparable(m, ready)
    PROVE  /\ \A c \in ready : SpecOf(m, c).priority # SignalingNaN
           /\ \A c, d \in ready : c # d => c \in Numbered(m)
  BY DEF Incomparable, Numbered, Numeric

\* The queue has a first component.
LEMMA FirstIs ==
    ASSUME NEW m, WellFormed(m), NEW ready, ready \subseteq Identifiers(m), ready # {},
           ~Incomparable(m, ready)
    PROVE  LET next == CHOOSE c \in ready : \A d \in ready \ {c} : Ahead(m, c, d)
           IN  next \in ready /\ \A d \in ready \ {next} : Ahead(m, next, d)
<1> DEFINE Before(c) == {d \in ready : Ahead(m, d, c)}
           T == {Cardinality(Before(c)) : c \in ready}
<1>1. IsFiniteSet(ready)
  BY ManifestIs, FS_Subset
<1>2. \A c \in ready : IsFiniteSet(Before(c)) /\ Cardinality(Before(c)) \in Nat
  <2>1. \A c \in ready : Before(c) \subseteq ready
    OBVIOUS
  <2> HIDE DEF Before
  <2> QED BY <1>1, <2>1, FS_Subset, FS_CardinalityType
<1>3. PICK c \in ready : \A d \in ready : Cardinality(Before(c)) <= Cardinality(Before(d))
  <2>1. T \subseteq Nat /\ T # {}
    BY <1>2
  <2>2. PICK t \in T : \A k \in T : t <= k
    <3> HIDE DEF T
    <3> QED BY <2>1, LeastNatural
  <2> QED BY <2>2
<1>0. ready # {c} => ready \subseteq Numbered(m)
  BY <1>3, ComparableIs
<1>4. ASSUME ready # {c}, NEW d \in ready, Ahead(m, d, c)
      PROVE  FALSE
  <2>1. Before(d) \subseteq Before(c) /\ d \in Before(c) /\ d \notin Before(d)
    BY <1>0, <1>4, AheadIs
  <2>2. Cardinality(Before(d)) < Cardinality(Before(c))
    <3> HIDE DEF Before
    <3> DEFINE S == Before(c)
               R == Before(d)
    <3>1. /\ IsFiniteSet(S) /\ R \in SUBSET S /\ R # S
          /\ Cardinality(S) \in Nat /\ Cardinality(R) \in Nat
      BY <1>2, <2>1
    <3> HIDE DEF R, S
    <3>2. Cardinality(R) < Cardinality(S)
      BY <3>1, FS_Subset
    <3> QED BY <3>2 DEF R, S
  <2> QED BY <1>2, <1>3, <2>2
<1>5. \A d \in ready \ {c} : Ahead(m, c, d)
  BY <1>0, <1>3, <1>4, AheadIs
<1> QED BY <1>5

-----------------------------------------------------------------------------
(* Counting.                                                                *)

\* Induction up to N, over a set.
LEMMA CountedInduction ==
    ASSUME NEW N \in Nat, NEW T, 0 \in T,
           \A n \in 1..N : n - 1 \in T => n \in T
    PROVE  0..N \subseteq T
<1> DEFINE bad == {n \in 0..N : n \notin T}
<1> SUFFICES ASSUME bad # {} PROVE FALSE
  OBVIOUS
<1>1. PICK n \in bad : \A k \in bad : n <= k
  <2>1. bad \subseteq Nat
    OBVIOUS
  <2> HIDE DEF bad
  <2> QED BY <2>1, LeastNatural
<1>2. n \in 1..N /\ n - 1 \in 0..N /\ n - 1 < n
  OBVIOUS
<1>3. n - 1 \in T
  BY <1>1, <1>2
<1> QED BY <1>2, <1>3

\* A function defined by recursion on 0..N exists.
Iterates(N, first, step, f) ==
    f = [n \in 0..N |-> IF n = 0 THEN first ELSE step[n][f[n - 1]]]

LEMMA CountedRecursion ==
    ASSUME NEW N \in Nat, NEW V, NEW first, first \in V, NEW step, step \in [0..N -> [V -> V]]
    PROVE  \E f : Iterates(N, first, step, f) /\ f \in [0..N -> V]
<1> DEFINE S == 0..N
           p == [n \in S |-> IF n = 0 THEN 0 ELSE n - 1]
           rank == [n \in S |-> n]
           b == [n \in S |-> first]
<1>1. Recursive(S, V, {0}, p, rank, b, step)
  <2>1. p \in [S -> S] /\ rank \in [S -> Nat]
    OBVIOUS
  <2>2. b \in [S -> V] /\ step \in [S -> [V -> V]]
    OBVIOUS
  <2>3. \A n \in S : n \notin {0} => rank[p[n]] < rank[n]
    OBVIOUS
  <2> HIDE DEF S, p, rank, b
  <2> QED BY <2>1, <2>2, <2>3 DEF Recursive
<1>2. PICK f \in [S -> V] : \A n \in S : f[n] = IF n \in {0} THEN b[n] ELSE step[n][f[p[n]]]
  <2> HIDE DEF S, p, rank, b
  <2> QED BY <1>1, RecursionExists
<1>3. \A n \in 0..N : f[n] = IF n = 0 THEN first ELSE step[n][f[n - 1]]
  BY <1>2
<1> HIDE DEF S, p, rank, b
<1>4. Iterates(N, first, step, f)
  BY <1>2, <1>3 DEF Iterates, S
<1> QED BY <1>2, <1>4 DEF S

\* Sets that grow by their successors: what N steps reach is closed, if there are
\* no more than N nodes, and least.
Successors(S, E, X) == {l \in S : \E k \in X : <<k, l>> \in E}
Grows(S, E, A, N, L) ==
    L = [n \in 0..N |-> IF n = 0 THEN A ELSE L[n - 1] \union Successors(S, E, L[n - 1])]

LEMMA GrowthExists ==
    ASSUME NEW S, NEW E, NEW A \in SUBSET S, NEW N \in Nat
    PROVE  \E L : Grows(S, E, A, N, L)
<1> DEFINE step == [n \in 0..N |-> [X \in SUBSET S |-> X \union Successors(S, E, X)]]
<1>1. step \in [0..N -> [SUBSET S -> SUBSET S]]
  BY DEF Successors
<1>2. PICK f : Iterates(N, A, step, f) /\ f \in [0..N -> SUBSET S]
  <2> HIDE DEF step
  <2> QED BY <1>1, CountedRecursion
<1>3. \A n \in 0..N : f[n] = IF n = 0 THEN A ELSE f[n - 1] \union Successors(S, E, f[n - 1])
  <2>1. \A n \in 0..N : n # 0 => n - 1 \in 0..N
    OBVIOUS
  <2>2. \A n \in 0..N : f[n] = IF n = 0 THEN A ELSE step[n][f[n - 1]]
    <3> HIDE DEF step
    <3> QED BY <1>2, Zenon DEF Iterates
  <2> QED BY <1>2, <2>1, <2>2
<1>4. f = [n \in 0..N |-> f[n]]
  BY <1>2
<1> QED BY <1>3, <1>4 DEF Grows

LEMMA GrowthIs ==
    ASSUME NEW S, IsFiniteSet(S), NEW E, NEW A \in SUBSET S, NEW N \in Nat,
           Cardinality(S) <= N, NEW L, Grows(S, E, A, N, L)
    PROVE  /\ L[N] \subseteq S /\ A \subseteq L[N] /\ Successors(S, E, L[N]) \subseteq L[N]
           /\ \A C : A \subseteq C /\ Successors(S, E, C) \subseteq C => L[N] \subseteq C
<1>1. /\ L[0] = A
      /\ \A n \in 1..N : L[n] = L[n - 1] \union Successors(S, E, L[n - 1])
  <2>1. \A n \in 0..N : L[n] = IF n = 0 THEN A ELSE L[n - 1] \union Successors(S, E, L[n - 1])
    BY Zenon DEF Grows
  <2>2. 0 \in 0..N /\ \A n \in 1..N : n \in 0..N /\ n # 0
    OBVIOUS
  <2> QED BY <2>1, <2>2, Zenon
<1> DEFINE Full(n) == Successors(S, E, L[n]) \subseteq L[n]
           T == {n \in 0..N : /\ A \subseteq L[n] /\ L[n] \subseteq S
                              /\ Full(n) \/ Cardinality(L[n]) >= n + 1
                              /\ \A C : A \subseteq C /\ Successors(S, E, C) \subseteq C =>
                                            L[n] \subseteq C}
<1>2. \A X : X \subseteq S => IsFiniteSet(X) /\ Cardinality(X) \in Nat
  BY FS_Subset, FS_CardinalityType
<1>3. 0 \in T
  <2>1. A = {} \/ Cardinality(A) >= 1
    <3>1. Cardinality(A) \in Nat /\ IsFiniteSet(A)
      BY <1>2
    <3>2. Cardinality(A) = 0 => A = {}
      BY <3>1, FS_EmptySet
    <3> QED BY <3>1, <3>2
  <2>2. A = {} => Full(0)
    BY <1>1 DEF Successors
  <2> QED BY <1>1, <2>1, <2>2
<1>4. ASSUME NEW n \in 1..N, n - 1 \in T
      PROVE  n \in T
  <2> DEFINE X == L[n - 1]
             Y == L[n]
  <2>1. Y = X \union Successors(S, E, X) /\ A \subseteq X /\ X \subseteq S
    BY <1>1, <1>4
  <2>2. A \subseteq Y /\ Y \subseteq S
    BY <2>1 DEF Successors
  <2>3. ASSUME NEW C, A \subseteq C, Successors(S, E, C) \subseteq C
        PROVE  Y \subseteq C
    <3>1. X \subseteq C
      BY <1>4, <2>3
    <3> QED BY <2>1, <2>3, <3>1 DEF Successors
  <2>4. Full(n) \/ Cardinality(Y) >= n + 1
    <3>1. CASE Full(n - 1)
      BY <2>1, <3>1
    <3>2. CASE ~Full(n - 1)
      <4>1. X # Y /\ X \in SUBSET Y /\ IsFiniteSet(Y)
        BY <1>2, <2>1, <2>2, <3>2
      <4>2. Cardinality(X) >= n /\ Cardinality(X) \in Nat /\ Cardinality(Y) \in Nat
        <5>1. Cardinality(X) >= (n - 1) + 1
          BY <1>4, <3>2
        <5> QED BY <1>2, <2>1, <2>2, <5>1
      <4> HIDE DEF X, Y
      <4>3. Cardinality(X) <= Cardinality(Y) /\ Cardinality(X) # Cardinality(Y)
        BY <4>1, FS_Subset
      <4> QED BY <4>2, <4>3
    <3> QED BY <3>1, <3>2
  <2> QED BY <2>2, <2>3, <2>4
<1>5. N \in T
  <2> HIDE DEF T
  <2> QED BY <1>3, <1>4, CountedInduction
<1>6. Full(N)
  <2> SUFFICES ASSUME Cardinality(L[N]) >= N + 1
               PROVE  FALSE
    BY <1>5
  <2> DEFINE Y == L[N]
  <2>1. Y \in SUBSET S
    BY <1>5
  <2> HIDE DEF Y
  <2>2. Cardinality(Y) <= Cardinality(S)
    BY <2>1, FS_Subset
  <2>3. Cardinality(Y) \in Nat /\ Cardinality(S) \in Nat
    BY <1>2, <2>1, FS_CardinalityType
  <2> QED BY <2>2, <2>3 DEF Y
<1> QED BY <1>5, <1>6

-----------------------------------------------------------------------------
(* Chains of dependencies.                                                  *)

\* Upstream is the least set that is closed under the dependencies.
LEMMA UpstreamIs ==
    ASSUME NEW m, m = manifest, WellFormed(m), NEW id
    PROVE  /\ Requires(m, id) \subseteq Upstream(id) /\ Upstream(id) \subseteq Identifiers(m)
           /\ \A c \in Upstream(id) : Requires(m, c) \subseteq Upstream(id)
           /\ \A C : (Requires(m, id) \subseteq C /\ \A c \in C : Requires(m, c) \subseteq C) =>
                         Upstream(id) \subseteq C
<1> DEFINE S == Identifiers(m)
           E == {e \in S \X S : e[2] \in Requires(m, e[1])}
           A == Requires(m, id)
           N == Len(m.components)
           Level(L) == [i \in 0..N |->
                           IF i = 0 THEN Requires(m, id)
                           ELSE LET before == L[i - 1]
                                IN  before \union UNION {Requires(m, c) : c \in before}]
<1>1. /\ IsFiniteSet(S) /\ A \in SUBSET S /\ N \in Nat /\ Cardinality(S) <= N
      /\ \A c : Requires(m, c) \subseteq S
      /\ \A c : c \notin S => Requires(m, c) = {}
  <2>1. /\ IsFiniteSet(S) /\ N \in Nat /\ Cardinality(S) = N
        /\ \A c : Requires(m, c) \subseteq S
        /\ \A c : c \notin S => Dependencies(m, c) = {}
    BY ManifestIs
  <2>2. \A c : Dependencies(m, c) = {} => Requires(m, c) = {}
    BY DEF Requires
  <2> QED BY <2>1, <2>2
<1>2. \A X : Successors(S, E, X) = UNION {Requires(m, c) : c \in X}
  <2>1. \A k, l : <<k, l>> \in E <=> k \in S /\ l \in Requires(m, k)
    <3> HIDE DEF S
    <3> QED BY <1>1
  <2> HIDE DEF E, S
  <2>2. ASSUME NEW X, NEW l
        PROVE  l \in Successors(S, E, X) <=> l \in UNION {Requires(m, c) : c \in X}
    BY <1>1, <2>1, ZenonT(60) DEF Successors
  <2> QED BY <2>2
<1> HIDE DEF S, E, N
<1>3. \A L : Grows(S, E, A, N, L) <=> L = Level(L)
  BY <1>2 DEF Grows
<1>4. \E L : L = Level(L)
  BY <1>1, <1>3, GrowthExists
<1> DEFINE U == CHOOSE L : L = Level(L)
<1>5. U = Level(U)
  <2> HIDE DEF Level
  <2> QED BY <1>4
<1>6. Upstream(id) = U[N]
  BY DEF Upstream, N
<1> HIDE DEF U, Level
<1>7. Grows(S, E, A, N, U)
  BY <1>3, <1>5
<1>8. /\ U[N] \subseteq S /\ A \subseteq U[N] /\ Successors(S, E, U[N]) \subseteq U[N]
      /\ \A C : A \subseteq C /\ Successors(S, E, C) \subseteq C => U[N] \subseteq C
  <2> HIDE DEF A
  <2> QED BY <1>1, <1>7, GrowthIs
<1> QED BY <1>2, <1>6, <1>8 DEF S

-----------------------------------------------------------------------------
(* Kahn's algorithm.                                                        *)

OrderingStatesOf(m) ==
    [order : Seq(Identifiers(m)), degree : [Identifiers(m) -> Int],
     ready : SUBSET Identifiers(m)]

\* What the first n of an order are, and the dependencies that are not among them.
Among(order, n) == {order[k] : k \in 1..n}
Open(m, id, done) == {i \in Dependencies(m, id) : m.dependencies[i].depends_on \notin done}

\* Each component is ordered once, after what it depends on, and ahead of all that
\* could have been ordered instead, both having numbers for priorities; the queue
\* holds what could be ordered next.
Beats(m, c, d) == {c, d} \subseteq Numbered(m) /\ Ahead(m, c, d)

Ordered(m, order) ==
    /\ \A i, j \in 1..Len(order) : order[i] = order[j] => i = j
    /\ \A j \in 1..Len(order) : Requires(m, order[j]) \subseteq Among(order, j - 1)
    /\ \A i \in 1..Len(order), d \in Identifiers(m) :
           (Requires(m, d) \subseteq Among(order, i - 1) /\ d \notin Among(order, i)) =>
               Beats(m, order[i], d)
    /\ \A i \in 1..Len(order) : SpecOf(m, order[i]).priority # SignalingNaN

\* The dependencies of id on next, and what becomes of s when next leaves the queue.
On(m, id, next) == {i \in Dependencies(m, id) : m.dependencies[i].depends_on = next}

Popped(m, s, next, t) ==
    /\ \A d \in s.ready \ {next} : Beats(m, next, d)
    /\ SpecOf(m, next).priority # SignalingNaN
    /\ t.order = Append(s.order, next)
    /\ \A id \in Identifiers(m) : t.degree[id] = s.degree[id] - Cardinality(On(m, id, next))
    /\ t.ready = (s.ready \ {next}) \union
                 {id \in Identifiers(m) : t.degree[id] = 0 /\ s.degree[id] > 0}

KahnInv(m, n, s) ==
    /\ s \in OrderingStatesOf(m)
    /\ Ordered(m, s.order)
    /\ \A id \in Identifiers(m) :
           s.degree[id] = Cardinality(Open(m, id, Among(s.order, Len(s.order))))
    /\ s.ready = {id \in Identifiers(m) :
                     /\ id \notin Among(s.order, Len(s.order))
                     /\ Open(m, id, Among(s.order, Len(s.order))) = {}}
    /\ s.ready = {} \/ Incomparable(m, s.ready) \/ Len(s.order) = n

Stopped(m, s) == s.ready = {} \/ Incomparable(m, s.ready)

LEMMA OpenIs ==
    ASSUME NEW m, WellFormed(m), NEW id, NEW done
    PROVE  /\ IsFiniteSet(Open(m, id, done)) /\ Cardinality(Open(m, id, done)) \in Nat
           /\ Cardinality(Open(m, id, done)) = 0 <=> Open(m, id, done) = {}
           /\ Open(m, id, done) = {} <=> Requires(m, id) \subseteq done
           /\ \A next : next \notin done =>
                  Cardinality(Open(m, id, done \union {next})) =
                      Cardinality(Open(m, id, done)) - Cardinality(On(m, id, next))
<1>1. \A X : X \subseteq Dependencies(m, id) => IsFiniteSet(X) /\ Cardinality(X) \in Nat
  <2>1. IsFiniteSet(Dependencies(m, id))
    BY ManifestIs
  <2> QED BY <2>1, FS_Subset, FS_CardinalityType
<1>2. Open(m, id, done) \subseteq Dependencies(m, id)
  BY DEF Open
<1>3. Open(m, id, done) = {} <=> Requires(m, id) \subseteq done
  BY DEF Open, Requires
<1>4. ASSUME NEW next, next \notin done
      PROVE  Cardinality(Open(m, id, done \union {next})) =
                 Cardinality(Open(m, id, done)) - Cardinality(On(m, id, next))
  <2> DEFINE R == Open(m, id, done \union {next})
             X == On(m, id, next)
             O == Open(m, id, done)
  <2>1. /\ R \subseteq Dependencies(m, id) /\ X \subseteq Dependencies(m, id)
        /\ R \cap X = {} /\ R \union X = O
    BY <1>4 DEF Open, On
  <2> HIDE DEF R, X, O
  <2>2. IsFiniteSet(R) /\ IsFiniteSet(X) /\ Cardinality(R) \in Nat /\ Cardinality(X) \in Nat
    BY <1>1, <2>1
  <2>3. Cardinality(O) = Cardinality(R) + Cardinality(X)
    BY <2>1, <2>2, DisjointSize
  <2>4. Cardinality(R) = Cardinality(O) - Cardinality(X)
    BY <2>2, <2>3
  <2> QED BY <2>4 DEF R, X, O
<1>5. /\ IsFiniteSet(Open(m, id, done)) /\ Cardinality(Open(m, id, done)) \in Nat
      /\ Cardinality(Open(m, id, done)) = 0 <=> Open(m, id, done) = {}
  <2> DEFINE O == Open(m, id, done)
  <2>1. IsFiniteSet(O) /\ Cardinality(O) \in Nat
    BY <1>1, <1>2
  <2> HIDE DEF O
  <2>2. Cardinality(O) = 0 <=> O = {}
    BY <2>1, FS_EmptySet
  <2> QED BY <2>1, <2>2 DEF O
<1> QED BY <1>3, <1>4, <1>5

\* One component leaves the queue.
LEMMA PopIs ==
    ASSUME NEW m, WellFormed(m), NEW s, s \in OrderingStatesOf(m)
    PROVE  /\ Pop(m, s) \in OrderingStatesOf(m)
           /\ Stopped(m, s) => Pop(m, s) = s
           /\ ~Stopped(m, s) => \E next \in s.ready : Popped(m, s, next, Pop(m, s))
<1>1. CASE Stopped(m, s)
  BY <1>1 DEF Pop, Stopped
<1>2. CASE ~Stopped(m, s)
  <2> DEFINE next == CHOOSE c \in s.ready : \A d \in s.ready \ {c} : Ahead(m, c, d)
             Cut(id) == Cardinality(On(m, id, next))
             degree == [id \in Identifiers(m) |-> s.degree[id] - Cut(id)]
             ready == (s.ready \ {next}) \union
                      {id \in Identifiers(m) : degree[id] = 0 /\ s.degree[id] > 0}
  <2>1. s.ready \subseteq Identifiers(m) /\ s.order \in Seq(Identifiers(m))
        /\ s.degree \in [Identifiers(m) -> Int]
    BY DEF OrderingStatesOf
  <2>11. s.ready # {} /\ ~Incomparable(m, s.ready)
    BY <1>2 DEF Stopped
  <2>12. next \in s.ready /\ \A d \in s.ready \ {next} : Ahead(m, next, d)
    BY <2>1, <2>11, FirstIs
  <2>2. /\ next \in s.ready /\ \A d \in s.ready \ {next} : Beats(m, next, d)
        /\ SpecOf(m, next).priority # SignalingNaN
    <3> HIDE DEF next
    <3> QED BY <2>1, <2>11, <2>12, ComparableIs DEF Beats
  <2>3. Pop(m, s) = [order |-> Append(s.order, next), degree |-> degree, ready |-> ready]
    BY <2>11 DEF Pop, Identifiers, On
  <2> HIDE DEF next
  <2>4. \A id \in Identifiers(m) : Cut(id) \in Int
    <3> SUFFICES ASSUME NEW id \in Identifiers(m)
                 PROVE  Cut(id) \in Int
      OBVIOUS
    <3> DEFINE X == On(m, id, next)
               O == Dependencies(m, id)
    <3>1. X \in SUBSET O /\ IsFiniteSet(O)
      BY ManifestIs DEF On
    <3> HIDE DEF X, O
    <3>2. Cardinality(X) \in Nat
      BY <3>1, FS_Subset, FS_CardinalityType
    <3> QED BY <3>2 DEF X
  <2> HIDE DEF Cut
  <2>5. degree \in [Identifiers(m) -> Int] /\ ready \subseteq Identifiers(m)
    BY <2>1, <2>4
  <2>6. Append(s.order, next) \in Seq(Identifiers(m))
    <3> DEFINE S == Identifiers(m)
    <3>1. next \in S
      BY <2>1, <2>2
    <3> HIDE DEF S
    <3> QED BY <2>1, <3>1, AppendProperties DEF S
  <2> DEFINE order == Append(s.order, next)
  <2>7. /\ Pop(m, s).order = order /\ Pop(m, s).degree = degree /\ Pop(m, s).ready = ready
    BY <2>3
  <2>8. Pop(m, s) \in OrderingStatesOf(m)
    <3> HIDE DEF order, degree, ready
    <3>1. Pop(m, s) = [order |-> order, degree |-> degree, ready |-> ready]
      BY <2>3 DEF order
    <3> QED BY <2>5, <2>6, <3>1 DEF OrderingStatesOf, order
  <2>9. \A id \in Identifiers(m) : Pop(m, s).degree[id] = s.degree[id] - Cut(id)
    BY <2>7
  <2>10. Popped(m, s, next, Pop(m, s))
    <3> HIDE DEF SpecOf
    <3> QED BY <2>2, <2>7, <2>9 DEF Popped, Cut
  <2> QED BY <1>2, <2>2, <2>8, <2>10
<1> QED BY <1>1, <1>2

LEMMA KahnStep ==
    ASSUME NEW m, WellFormed(m), NEW n \in Nat, n > 0, NEW s, KahnInv(m, n - 1, s),
           ~Stopped(m, s)
    PROVE  KahnInv(m, n, Pop(m, s))
<1> DEFINE t == Pop(m, s)
           o == s.order
           x == t.order
           l == Len(o)
           done == Among(o, l)
<1>1. s \in OrderingStatesOf(m) /\ s.ready \subseteq Identifiers(m)
  BY DEF KahnInv, OrderingStatesOf
<1>2. PICK next \in s.ready : Popped(m, s, next, t)
  BY <1>1, PopIs
<1>3. t \in OrderingStatesOf(m)
  BY <1>1, PopIs
<1> HIDE DEF t
<1>4. /\ l \in Nat /\ Len(x) = l + 1 /\ x[l + 1] = next
      /\ \A i \in 1..l : x[i] = o[i] /\ o[i] \in Identifiers(m)
  <2>1. o \in Seq(Identifiers(m))
    BY <1>1 DEF OrderingStatesOf
  <2>2. IsSeq(o) /\ l \in Nat /\ \A i \in 1..l : o[i] \in Identifiers(m)
    BY <2>1, IsSeqIntro
  <2> HIDE DEF o, x
  <2>3. /\ Len(x) = Len(o) + 1 /\ x[Len(o) + 1] = next
        /\ \A i \in 1..Len(o) : x[i] = o[i]
    BY <1>2, <2>2, AppendIs DEF x, o, Popped
  <2> QED BY <2>2, <2>3
<1>5. /\ next \in Identifiers(m) /\ next \notin done /\ Open(m, next, done) = {}
      /\ l = n - 1
  BY <1>2 DEF KahnInv, Stopped
<1>6. /\ \A j \in 0..l : Among(x, j) = Among(o, j)
      /\ Among(x, l + 1) = done \union {next}
  <2> HIDE DEF o, x, l
  <2>1. \A j \in 0..l : \A i \in 1..j : i \in 1..l
    BY <1>4
  <2>2. \A j \in 0..l : Among(x, j) = Among(o, j)
    BY <1>4, <2>1 DEF Among
  <2>3. 1..(l + 1) = 1..l \union {l + 1}
    BY <1>4
  <2> QED BY <1>4, <2>2, <2>3 DEF Among
<1> HIDE DEF x
<1>7. Ordered(m, x)
  <2>1. \A i, j \in 1..Len(x) : x[i] = x[j] => i = j
    <3>1. \A i, j \in 1..l : o[i] = o[j] => i = j
      BY DEF KahnInv, Ordered
    <3>2. \A i \in 1..l : o[i] # next
      BY <1>5 DEF Among
    <3> HIDE DEF o, l
    <3> QED BY <1>4, <3>1, <3>2
  <2>2. ASSUME NEW j \in 1..Len(x)
        PROVE  Requires(m, x[j]) \subseteq Among(x, j - 1)
    <3>1. CASE j = l + 1
      <4>1. Requires(m, next) \subseteq done
        BY <1>5, OpenIs
      <4> HIDE DEF o, l
      <4>2. j - 1 = l /\ l \in 0..l
        BY <1>4, <3>1
      <4> QED BY <1>4, <1>6, <3>1, <4>1, <4>2
    <3>2. CASE j # l + 1
      <4>1. j \in 1..l /\ j - 1 \in 0..l
        BY <1>4, <3>2
      <4>2. Requires(m, o[j]) \subseteq Among(o, j - 1)
        BY <4>1 DEF KahnInv, Ordered
      <4> QED BY <1>4, <1>6, <4>1, <4>2
    <3> QED BY <3>1, <3>2
  <2>3. ASSUME NEW i \in 1..Len(x), NEW d \in Identifiers(m),
               Requires(m, d) \subseteq Among(x, i - 1), d \notin Among(x, i)
        PROVE  Beats(m, x[i], d)
    <3>1. CASE i = l + 1
      <4>1. /\ i - 1 = l /\ Among(x, l) = done /\ x[i] = next
            /\ d \notin done /\ d # next /\ Requires(m, d) \subseteq done
        <5> HIDE DEF o, l, done
        <5>1. i - 1 = l /\ l \in 0..l
          BY <1>4, <3>1
        <5> QED BY <1>4, <1>6, <2>3, <3>1, <5>1 DEF done
      <4>2. Open(m, d, done) = {}
        BY <4>1, OpenIs
      <4>3. d \in s.ready
        BY <4>1, <4>2 DEF KahnInv
      <4> QED BY <1>2, <4>1, <4>3 DEF Popped
    <3>2. CASE i # l + 1
      <4>1. i \in 1..l /\ i - 1 \in 0..l /\ i \in 0..l
        BY <1>4, <3>2
      <4>2. Requires(m, d) \subseteq Among(o, i - 1) /\ d \notin Among(o, i)
        BY <1>6, <2>3, <4>1
      <4>3. Beats(m, o[i], d)
        BY <4>1, <4>2 DEF KahnInv, Ordered
      <4> QED BY <1>4, <4>1, <4>3
    <3> QED BY <3>1, <3>2
  <2>4. ASSUME NEW i \in 1..Len(x)
        PROVE  SpecOf(m, x[i]).priority # SignalingNaN
    <3>1. \A j \in 1..l : SpecOf(m, o[j]).priority # SignalingNaN
      BY DEF KahnInv, Ordered
    <3>2. SpecOf(m, next).priority # SignalingNaN
      BY <1>2 DEF Popped
    <3> HIDE DEF SpecOf, o, l
    <3>3. i \in 1..l \/ i = l + 1
      BY <1>4
    <3> QED BY <1>4, <3>1, <3>2, <3>3
  <2> HIDE DEF SpecOf
  <2> QED BY <2>1, <2>2, <2>3, <2>4 DEF Ordered
<1>8. Among(x, Len(x)) = done \union {next}
  BY <1>4, <1>6
<1> HIDE DEF done, l, o
<1>9. \A id \in Identifiers(m) :
          t.degree[id] = Cardinality(Open(m, id, done \union {next}))
  BY <1>2, <1>5, OpenIs, SMTT(30) DEF KahnInv, Popped, done, o, l
<1>10. /\ \A id \in Identifiers(m) : s.degree[id] = Cardinality(Open(m, id, done))
       /\ s.ready = {id \in Identifiers(m) : id \notin done /\ Open(m, id, done) = {}}
       /\ \A j \in 1..l : Requires(m, o[j]) \subseteq Among(o, j - 1)
  BY DEF KahnInv, Ordered, done, o, l
<1>11. \A id \in done : Open(m, id, done) = {}
  <2> SUFFICES ASSUME NEW id \in done
               PROVE  Open(m, id, done) = {}
    OBVIOUS
  <2>1. PICK j \in 1..l : id = o[j]
    BY DEF done, Among
  <2>2. Among(o, j - 1) \subseteq done
    <3>1. 1..(j - 1) \subseteq 1..l
      BY <1>4
    <3> QED BY <3>1 DEF Among, done
  <2> QED BY <1>10, <2>1, <2>2, OpenIs
<1>12. t.ready = {id \in Identifiers(m) :
                     id \notin done \union {next} /\ Open(m, id, done \union {next}) = {}}
  <2>1. \A id \in Identifiers(m) :
            /\ t.degree[id] = 0 <=> Open(m, id, done \union {next}) = {}
            /\ s.degree[id] > 0 <=> Open(m, id, done) # {}
    <3>1. \A id : /\ Cardinality(Open(m, id, done)) \in Nat
                  /\ Cardinality(Open(m, id, done)) = 0 <=> Open(m, id, done) = {}
                  /\ Cardinality(Open(m, id, done \union {next})) = 0 <=>
                         Open(m, id, done \union {next}) = {}
      BY OpenIs
    <3> TAKE id \in Identifiers(m)
    <3>2. /\ t.degree[id] = Cardinality(Open(m, id, done \union {next}))
          /\ s.degree[id] = Cardinality(Open(m, id, done))
      BY <1>9, <1>10
    <3>3. t.degree[id] = 0 <=> Open(m, id, done \union {next}) = {}
      BY <3>1, <3>2
    <3>4. s.degree[id] \in Nat /\ (s.degree[id] = 0 <=> Open(m, id, done) = {})
      BY <3>1, <3>2
    <3> HIDE DEF done
    <3>5. s.degree[id] > 0 <=> s.degree[id] # 0
      BY <3>4
    <3> QED BY <3>3, <3>4, <3>5
  <2>2. \A id : Open(m, id, done) = {} => Open(m, id, done \union {next}) = {}
    BY DEF Open
  <2> QED BY <1>2, <1>5, <1>10, <1>11, <2>1, <2>2 DEF Popped
<1>13. Len(x) = n
  BY <1>4, <1>5
<1> QED BY <1>3, <1>7, <1>8, <1>9, <1>12, <1>13 DEF KahnInv, x, t

\* The queue before anything leaves it.
FirstState(m) ==
    LET degrees == [id \in Identifiers(m) |-> Cardinality(Dependencies(m, id))]
    IN  [order |-> <<>>, degree |-> degrees, ready |-> {id \in Identifiers(m) : degrees[id] = 0}]

LEMMA KahnStarts ==
    ASSUME NEW m, WellFormed(m)
    PROVE  KahnInv(m, 0, FirstState(m))
<1> DEFINE degrees == [id \in Identifiers(m) |-> Cardinality(Dependencies(m, id))]
           ready == {id \in Identifiers(m) : degrees[id] = 0}
           s == [order |-> <<>>, degree |-> degrees, ready |-> ready]
<1>1. \A id : Cardinality(Dependencies(m, id)) \in Nat
  <2> SUFFICES ASSUME NEW id PROVE Cardinality(Dependencies(m, id)) \in Nat
    OBVIOUS
  <2> DEFINE D == Dependencies(m, id)
  <2>1. IsFiniteSet(D)
    BY ManifestIs
  <2> HIDE DEF D
  <2>2. Cardinality(D) \in Nat
    BY <2>1, FS_CardinalityType
  <2> QED BY <2>2 DEF D
<1>2. degrees \in [Identifiers(m) -> Int] /\ ready \subseteq Identifiers(m)
  BY <1>1
<1>3. <<>> \in Seq(Identifiers(m)) /\ Len(<<>>) = 0
  OBVIOUS
<1>4. \A order : Among(order, 0) = {}
  BY DEF Among
<1>5. \A id : Open(m, id, {}) = Dependencies(m, id)
  BY DEF Open
<1>6. s.order = <<>> /\ s.degree = degrees /\ s.ready = ready
  OBVIOUS
<1>7. Ordered(m, <<>>)
  BY <1>3 DEF Ordered
<1>8. ready = {id \in Identifiers(m) :
                  id \notin Among(<<>>, 0) /\ Open(m, id, Among(<<>>, 0)) = {}}
  <2>1. \A id : Cardinality(Open(m, id, {})) = 0 <=> Open(m, id, {}) = {}
    BY OpenIs
  <2> QED BY <1>4, <1>5, <2>1
<1>9. s \in OrderingStatesOf(m)
  <2> HIDE DEF degrees, ready
  <2> QED BY <1>2, <1>3 DEF OrderingStatesOf
<1>10. FirstState(m) = s
  BY DEF FirstState
<1>11. \A id \in Identifiers(m) : s.degree[id] = Cardinality(Open(m, id, Among(<<>>, 0)))
  BY <1>4, <1>5, <1>6
<1> HIDE DEF degrees, ready, s
<1> QED BY <1>3, <1>6, <1>7, <1>8, <1>9, <1>10, <1>11 DEF KahnInv

\* What could come after an order.
Waiters(m, o) ==
    {id \in Identifiers(m) :
        id \notin Among(o, Len(o)) /\ Requires(m, id) \subseteq Among(o, Len(o))}

\* The order of the planner: as long as possible, or as long as the queue compares.
LEMMA OrderIs ==
    ASSUME NEW m, WellFormed(m), NEW o, o = TopologicalOrder(m)
    PROVE  /\ o \in Seq(Identifiers(m)) /\ Len(o) \in Nat /\ Ordered(m, o)
           /\ \/ Waiters(m, o) = {} \/ Incomparable(m, Waiters(m, o))
<1> DEFINE N == Cardinality(Identifiers(m))
           V == OrderingStatesOf(m)
           first == FirstState(m)
           step == [n \in 0..N |-> [s \in V |-> Pop(m, s)]]
           States(f) == [n \in 0..N |-> IF n = 0 THEN FirstState(m) ELSE Pop(m, f[n - 1])]
<1>1. N \in Nat
  BY ManifestIs
<1>2. KahnInv(m, 0, first) /\ first \in V
  BY KahnStarts DEF KahnInv
<1>3. \A s \in V : Pop(m, s) \in V
  BY PopIs
<1>4. \E f : f = States(f)
  <2>1. step \in [0..N -> [V -> V]]
    BY <1>3
  <2>2. PICK f : Iterates(N, first, step, f) /\ f \in [0..N -> V]
    <3> HIDE DEF N, step, V, first
    <3> QED BY <1>1, <1>2, <2>1, CountedRecursion
  <2>3. \A n \in 0..N : f[n] = IF n = 0 THEN first ELSE step[n][f[n - 1]]
    <3> HIDE DEF step, first, N
    <3> QED BY <2>2, Zenon DEF Iterates
  <2>4. \A n \in 0..N : n # 0 => n - 1 \in 0..N
    BY <1>1
  <2>5. \A n \in 0..N : f[n] = IF n = 0 THEN first ELSE Pop(m, f[n - 1])
    <3> HIDE DEF V, N, first
    <3> QED BY <2>2, <2>3, <2>4
  <2>6. f = [n \in 0..N |-> f[n]]
    BY <2>2
  <2> HIDE DEF N
  <2> QED BY <2>5, <2>6
<1> DEFINE U == CHOOSE f : f = States(f)
<1>5. U = States(U)
  <2> HIDE DEF States
  <2> QED BY <1>4
<1>6. OrderingStates(m) = U
  BY DEF OrderingStates, FirstState, Identifiers
<1> HIDE DEF U
<1>7. U[0] = first /\ \A n \in 1..N : U[n] = Pop(m, U[n - 1])
  <2>1. \A n \in 0..N : U[n] = IF n = 0 THEN first ELSE Pop(m, U[n - 1])
    <3> HIDE DEF N
    <3> QED BY <1>5, Zenon
  <2>2. 0 \in 0..N /\ \A n \in 1..N : n \in 0..N /\ n # 0
    BY <1>1
  <2> HIDE DEF N
  <2> QED BY <2>1, <2>2, Zenon
<1> DEFINE T == {n \in 0..N : KahnInv(m, n, U[n])}
<1>8. \A n \in 1..N : n - 1 \in T => n \in T
  <2> SUFFICES ASSUME NEW n \in 1..N, KahnInv(m, n - 1, U[n - 1])
               PROVE  KahnInv(m, n, U[n])
    OBVIOUS
  <2> DEFINE s == U[n - 1]
  <2>1. CASE Stopped(m, s)
    <3>1. U[n] = s
      BY <1>7, <2>1, PopIs DEF KahnInv
    <3> QED BY <2>1, <3>1 DEF KahnInv, Stopped
  <2>2. CASE ~Stopped(m, s)
    <3>1. n \in Nat /\ n > 0
      BY <1>1
    <3> HIDE DEF s
    <3>2. KahnInv(m, n, Pop(m, s))
      BY <2>2, <3>1, KahnStep DEF s
    <3> QED BY <1>7, <3>2 DEF s
  <2> QED BY <2>1, <2>2
<1>9. KahnInv(m, N, U[N])
  <2>1. 0 \in T
    BY <1>1, <1>2, <1>7
  <2>2. 0..N \subseteq T
    <3> HIDE DEF T, N
    <3> QED BY <1>1, <1>8, <2>1, CountedInduction
  <2> QED BY <1>1, <2>2
<1>10. o = U[N].order
  BY <1>6 DEF TopologicalOrder, Identifiers
<1>11. o \in Seq(Identifiers(m)) /\ Len(o) \in Nat /\ Ordered(m, o)
  BY <1>9, <1>10 DEF KahnInv, OrderingStatesOf
<1>12. U[N].ready = {id \in Identifiers(m) :
                        id \notin Among(o, Len(o)) /\ Open(m, id, Among(o, Len(o))) = {}}
  BY <1>9, <1>10 DEF KahnInv
<1>13. Stopped(m, U[N])
  <2> SUFFICES ASSUME ~Stopped(m, U[N])
               PROVE  FALSE
    OBVIOUS
  <2>1. Len(o) = N /\ U[N].ready # {}
    BY <1>9, <1>10 DEF KahnInv, Stopped
  <2> DEFINE S == Identifiers(m)
             f == [i \in 1..N |-> o[i]]
  <2>2. f \in Injection(1..N, S)
    <3>1. \A i \in 1..N : o[i] \in S
      BY <1>11, <2>1
    <3>2. \A i, j \in 1..N : o[i] = o[j] => i = j
      BY <1>11, <2>1 DEF Ordered
    <3> HIDE DEF S, N
    <3> QED BY <3>1, <3>2 DEF Injection, IsInjective
  <2>3. Among(o, N) = S
    <3> DEFINE R == Among(o, N)
    <3>1. IsFiniteSet(1..N) /\ Cardinality(1..N) = N
      <4> HIDE DEF N
      <4>1. IsFiniteSet(1..N) /\ Cardinality(1..N) = (IF 1 > N THEN 0 ELSE N - 1 + 1)
        BY <1>1, FS_Interval
      <4> QED BY <1>1, <4>1
    <3>2. f \in [1..N -> R] /\ \A y \in R : \E a \in 1..N : f[a] = y
      <4> HIDE DEF N
      <4> QED BY DEF Among
    <3>3. \A a, b \in 1..N : f[a] = f[b] => a = b
      BY <2>2 DEF Injection, IsInjective
    <3> HIDE DEF f
    <3>4. Cardinality(R) = N /\ IsFiniteSet(R)
      <4> DEFINE I == 1..N
      <4>1. /\ IsFiniteSet(I) /\ f \in [I -> R] /\ \A y \in R : \E a \in I : f[a] = y
            /\ \A a, b \in I : f[a] = f[b] => a = b
        BY <3>1, <3>2, <3>3
      <4> HIDE DEF R, N, I
      <4>2. Cardinality(R) = Cardinality(I) /\ IsFiniteSet(R)
        BY <4>1, SameSize
      <4> QED BY <3>1, <4>2 DEF I
    <3>5. R \in SUBSET S /\ IsFiniteSet(S)
      <4>1. \A i \in 1..N : o[i] \in S
        BY <1>11, <2>1
      <4> QED BY <4>1, ManifestIs DEF Among
    <3> HIDE DEF R, S
    <3> QED BY <3>4, <3>5, FS_Subset DEF R, S
  <2> QED BY <1>12, <2>1, <2>3
<1>14. U[N].ready = Waiters(m, o)
  BY <1>12, OpenIs DEF Waiters
<1> QED BY <1>11, <1>13, <1>14 DEF Stopped

\* An order without repetition that is as long as the manifest has all of it.
LEMMA FullOrder ==
    ASSUME NEW m, WellFormed(m), NEW o, o \in Seq(Identifiers(m)), Ordered(m, o)
    PROVE  Among(o, Len(o)) = Identifiers(m) <=> Len(o) = Len(m.components)
<1> DEFINE l == Len(o)
           I == 1..l
           R == Among(o, l)
           S == Identifiers(m)
           f == [i \in I |-> o[i]]
<1>1. l \in Nat /\ \A i \in I : o[i] \in S
  OBVIOUS
<1>2. IsFiniteSet(I) /\ Cardinality(I) = l
  <2> HIDE DEF l
  <2>1. IsFiniteSet(1..l) /\ Cardinality(1..l) = (IF 1 > l THEN 0 ELSE l - 1 + 1)
    BY <1>1, FS_Interval
  <2> QED BY <1>1, <2>1
<1>3. f \in [I -> R] /\ \A y \in R : \E a \in I : f[a] = y
  <2> HIDE DEF l
  <2> QED BY DEF Among
<1>4. \A a, b \in I : f[a] = f[b] => a = b
  BY DEF Ordered
<1>5. R \in SUBSET S
  BY <1>1 DEF Among
<1>6. IsFiniteSet(S) /\ Cardinality(S) = Len(m.components)
  BY ManifestIs
<1> HIDE DEF f, R, I, S, l
<1>7. IsFiniteSet(R) /\ Cardinality(R) = Cardinality(I)
  BY <1>2, <1>3, <1>4, SameSize
<1>8. R = S <=> Cardinality(R) = Cardinality(S)
  BY <1>5, <1>6, FS_Subset
<1>9. R = S <=> l = Len(m.components)
  BY <1>2, <1>6, <1>7, <1>8
<1> QED BY <1>9 DEF R, S, l

\* The planner leaves components out if there is a cycle or a signaling NaN, and
\* else only if there is a NaN that the dependencies leave unordered.
LEMMA AcceptedIs ==
    ASSUME NEW m, m = manifest, WellFormed(m)
    PROVE  /\ Cyclic \/ Signals => Len(TopologicalOrder(m)) # Len(m.components)
           /\ Len(TopologicalOrder(m)) # Len(m.components) => Cyclic \/ Signals \/ Unordered
<1> DEFINE S == Identifiers(m)
<1>0. PICK o : o = TopologicalOrder(m)
  OBVIOUS
<1> DEFINE R == Among(o, Len(o))
           W == Waiters(m, o)
<1>1. /\ o \in Seq(S) /\ Len(o) \in Nat /\ Ordered(m, o)
      /\ W = {} \/ Incomparable(m, W)
      /\ W = {id \in S : id \notin R /\ Requires(m, id) \subseteq R}
  BY <1>0, OrderIs DEF Waiters
<1>2. R = S <=> Len(o) = Len(m.components)
  BY <1>1, FullOrder
<1>3. R \subseteq S
  <2>1. \A i \in 1..Len(o) : o[i] \in S
    BY <1>1
  <2> QED BY <2>1 DEF Among
<1>4. Cyclic <=> \E id \in S : id \in Upstream(id)
  BY DEF Cyclic, Identifiers
<1>5. \A c : /\ Requires(m, c) \subseteq Upstream(c) /\ Upstream(c) \subseteq S
             /\ \A d \in Upstream(c) : Requires(m, d) \subseteq Upstream(c)
             /\ \A C : (Requires(m, c) \subseteq C /\ \A d \in C : Requires(m, d) \subseteq C) =>
                           Upstream(c) \subseteq C
  BY UpstreamIs
<1>6. ASSUME R = S, NEW id \in S, id \in Upstream(id)
      PROVE  FALSE
  <2>1. PICK j \in 1..Len(o) : id = o[j]
    BY <1>6 DEF Among
  <2> DEFINE C == Among(o, j - 1)
  <2>2. Requires(m, id) \subseteq C
    BY <1>1, <2>1 DEF Ordered
  <2>3. ASSUME NEW d \in C
        PROVE  Requires(m, d) \subseteq C
    <3>1. PICK i \in 1..(j - 1) : d = o[i]
      BY DEF Among
    <3>2. i \in 1..Len(o) /\ 1..(i - 1) \subseteq 1..(j - 1)
      BY <1>1, <2>1
    <3>3. Requires(m, d) \subseteq Among(o, i - 1)
      BY <1>1, <3>1, <3>2 DEF Ordered
    <3> QED BY <3>2, <3>3 DEF Among
  <2>4. id \in C
    <3> HIDE DEF C
    <3> QED BY <1>5, <1>6, <2>2, <2>3
  <2>5. PICK i \in 1..(j - 1) : id = o[i]
    BY <2>4 DEF Among
  <2>6. i \in 1..Len(o) /\ i # j
    BY <1>1, <2>1, <2>5
  <2> QED BY <1>1, <2>1, <2>5, <2>6 DEF Ordered
<1>7. ASSUME R # S, W = {}, \A id \in S : id \notin Upstream(id)
      PROVE  FALSE
  <2> DEFINE rest == S \ R
             T == {Cardinality(Upstream(u)) : u \in rest}
  <2>1. \A u : IsFiniteSet(Upstream(u)) /\ Cardinality(Upstream(u)) \in Nat
    <3>1. IsFiniteSet(S)
      BY ManifestIs
    <3> QED BY <1>5, <3>1, FS_Subset, FS_CardinalityType
  <2>2. PICK u \in rest : \A v \in rest : Cardinality(Upstream(u)) <= Cardinality(Upstream(v))
    <3>1. T \subseteq Nat /\ T # {}
      BY <1>3, <1>7, <2>1
    <3>2. PICK t \in T : \A k \in T : t <= k
      <4> HIDE DEF T
      <4> QED BY <3>1, LeastNatural
    <3> QED BY <3>2
  <2>3. PICK v : v \in Requires(m, u) /\ v \notin R
    BY <1>1, <1>7
  <2>4. v \in rest
    BY <1>5, <2>3
  <2>5. v \in Upstream(u) /\ Upstream(v) \subseteq Upstream(u)
    BY <1>5, <2>3
  <2>6. Upstream(v) # Upstream(u)
    BY <1>7, <2>4, <2>5
  <2> DEFINE X == Upstream(u)
             Y == Upstream(v)
  <2>7. IsFiniteSet(X) /\ Y \in SUBSET X /\ Y # X
        /\ Cardinality(X) \in Nat /\ Cardinality(Y) \in Nat
    BY <2>1, <2>5, <2>6
  <2>8. Cardinality(X) <= Cardinality(Y)
    BY <2>2, <2>4
  <2> HIDE DEF X, Y
  <2> QED BY <2>7, <2>8, FS_Subset
<1> HIDE DEF R, W
<1>8. ASSUME R = S, Signals
      PROVE  FALSE
  <2>1. PICK id \in S : SpecOf(m, id).priority = SignalingNaN
    BY <1>8 DEF Signals, Identifiers
  <2>2. PICK j \in 1..Len(o) : id = o[j]
    BY <1>8 DEF R, Among
  <2> QED BY <1>1, <2>1, <2>2 DEF Ordered
<1>9. ASSUME W # {}
      PROVE  Signals \/ Unordered
  <2>1. PICK c \in W : \/ SpecOf(m, c).priority = SignalingNaN
                       \/ SpecOf(m, c).priority = NaN /\ W # {c}
    BY <1>1, <1>9 DEF Incomparable
  <2>2. CASE SpecOf(m, c).priority = SignalingNaN
    <3>1. c \in ToSet(Ids(manifest))
      BY <1>1 DEF Identifiers
    <3> QED BY <2>2, <3>1 DEF Signals
  <2>3. CASE SpecOf(m, c).priority = NaN /\ W # {c}
    <3>1. PICK d \in W : d # c
      BY <2>3
    <3>2. \A v \in R : Requires(m, v) \subseteq R
      <4> SUFFICES ASSUME NEW v \in R
                   PROVE  Requires(m, v) \subseteq R
        OBVIOUS
      <4>1. PICK j \in 1..Len(o) : v = o[j]
        BY DEF R, Among
      <4>2. 1..(j - 1) \subseteq 1..Len(o)
        BY <1>1
      <4> QED BY <1>1, <4>1, <4>2 DEF Ordered, R, Among
    <3>3. \A v \in W : Upstream(v) \subseteq R
      BY <1>1, <1>5, <3>2
    <3>4. c \notin Upstream(d) /\ d \notin Upstream(c)
      BY <1>1, <3>3
    <3>5. c \in ToSet(Ids(manifest)) /\ d \in ToSet(Ids(manifest))
      BY <1>1 DEF Identifiers
    <3>6. ~Numeric(SpecOf(manifest, c))
      BY <2>3 DEF Numeric
    <3> QED BY <3>1, <3>4, <3>5, <3>6 DEF Unordered
  <2> QED BY <2>1, <2>2, <2>3
<1>10. ASSUME Cyclic \/ Signals, R = S
       PROVE  FALSE
  BY <1>4, <1>6, <1>8, <1>10
<1>11. ASSUME R # S
       PROVE  Cyclic \/ Signals \/ Unordered
  BY <1>4, <1>7, <1>9, <1>11
<1> QED BY <1>0, <1>2, <1>10, <1>11

\* The sorted dependencies are the dependencies.
LEMMA SortedIs ==
    ASSUME NEW m, WellFormed(m), NEW id
    PROVE  ToSet(SortedDependencies(m, id)) = Requires(m, id)
<1> DEFINE on(i) == m.dependencies[i].depends_on
           D == Dependencies(m, id)
           N == Cardinality(D)
           Upto(c) == {i \in D : Rank(on(i)) <= Rank(c)}
           Picked(n, c) == /\ n <= Cardinality(Upto(c))
                           /\ \A d \in Requires(m, id) :
                                  n <= Cardinality(Upto(d)) => Rank(c) <= Rank(d)
<1>1. IsFiniteSet(D) /\ N \in Nat /\ Requires(m, id) = {on(i) : i \in D}
  <2>1. IsFiniteSet(D) /\ Requires(m, id) = {on(i) : i \in D}
    BY ManifestIs DEF Requires
  <2> HIDE DEF D
  <2> QED BY <2>1, FS_CardinalityType
<1>2. /\ \A c \in Requires(m, id) : Rank(c) \in Nat
      /\ \A c, d \in Requires(m, id) : Rank(c) = Rank(d) => c = d
  <2>1. \A c \in Requires(m, id) : c \in KNOWN_COMPONENT_IDS
    BY ManifestIs
  <2>2. \A c \in Requires(m, id) : Rank(c) \in Nat /\ SortedIds[Rank(c)] = c
    BY <2>1, RankIs
  <2> HIDE DEF D
  <2> QED BY <2>2
<1> HIDE DEF D, on
<1>3. \A c : IsFiniteSet(Upto(c)) /\ Cardinality(Upto(c)) \in Nat
  <2> SUFFICES ASSUME NEW c PROVE IsFiniteSet(Upto(c)) /\ Cardinality(Upto(c)) \in Nat
    OBVIOUS
  <2> DEFINE X == Upto(c)
  <2>1. X \in SUBSET D
    OBVIOUS
  <2> HIDE DEF X
  <2>2. IsFiniteSet(X) /\ Cardinality(X) \in Nat
    BY <1>1, <2>1, FS_Subset, FS_CardinalityType
  <2> QED BY <2>2 DEF X
<1>4. ASSUME NEW n \in 1..N
      PROVE  \E c \in Requires(m, id) : Picked(n, c)
  <2> DEFINE T == {Rank(c) : c \in {d \in Requires(m, id) : n <= Cardinality(Upto(d))}}
  <2>1. \E c \in Requires(m, id) : n <= Cardinality(Upto(c))
    <3> DEFINE far == {Rank(c) : c \in Requires(m, id)}
    <3>1. Requires(m, id) # {}
      <4>1. D # {}
        <5>1. D = {} => N = 0
          BY FS_EmptySet
        <5> QED BY <1>1, <5>1
      <4> QED BY <1>1, <4>1
    <3>2. PICK c \in Requires(m, id) : \A d \in Requires(m, id) : Rank(d) <= Rank(c)
      <4> DEFINE back == {25 - r : r \in far}
      <4>1. \A d \in Requires(m, id) : Rank(d) \in 1..25
        <5>1. DOMAIN SortedIds = 1..25
          BY DEF SortedIds
        <5>2. \A d \in KNOWN_COMPONENT_IDS : \E i \in DOMAIN SortedIds : SortedIds[i] = d
          BY TablesAssumption DEF ToSet
        <5>3. \A d \in KNOWN_COMPONENT_IDS : Rank(d) \in 1..25
          BY <5>1, <5>2 DEF Rank
        <5> QED BY <5>3, ManifestIs
      <4>2. back \subseteq Nat /\ back # {}
        BY <3>1, <4>1
      <4>3. PICK b \in back : \A k \in back : b <= k
        <5> HIDE DEF back
        <5> QED BY <4>2, LeastNatural
      <4>4. PICK c \in Requires(m, id) : b = 25 - Rank(c)
        OBVIOUS
      <4>5. \A d \in Requires(m, id) : 25 - Rank(c) <= 25 - Rank(d)
        BY <4>3, <4>4
      <4> QED BY <4>1, <4>5
    <3> DEFINE X == Upto(c)
    <3>3. X = D
      BY <1>1, <3>2
    <3> HIDE DEF X
    <3>4. n <= Cardinality(X)
      BY <1>1, <3>3
    <3> QED BY <3>4 DEF X
  <2>2. T \subseteq Nat /\ T # {}
    BY <1>2, <2>1, ZenonT(60)
  <2>3. PICK t \in T : \A k \in T : t <= k
    <3> HIDE DEF T
    <3> QED BY <2>2, LeastNatural
  <2> QED BY <2>3
<1> DEFINE pick == [n \in 1..N |-> CHOOSE c \in Requires(m, id) : Picked(n, c)]
<1>5. SortedDependencies(m, id) = pick
  BY DEF SortedDependencies, D, on
<1>6. \A n \in 1..N : pick[n] \in Requires(m, id) /\ Picked(n, pick[n])
  BY <1>4
<1>7. ASSUME NEW c \in Requires(m, id)
      PROVE  \E n \in 1..N : pick[n] = c
  <2> DEFINE n == Cardinality(Upto(c))
  <2>1. n \in 1..N
    <3> DEFINE X == Upto(c)
    <3>1. X \in SUBSET D /\ X # {}
      BY <1>1, <1>2
    <3>2. IsFiniteSet(X) /\ Cardinality(X) \in Nat
      BY <1>3
    <3> HIDE DEF X
    <3>3. Cardinality(X) <= N /\ Cardinality(X) # 0
      BY <1>1, <3>1, <3>2, FS_Subset, FS_EmptySet
    <3>4. Cardinality(X) \in 1..N
      BY <1>1, <3>2, <3>3
    <3> QED BY <3>4 DEF X
  <2>2. ASSUME NEW d \in Requires(m, id), Rank(d) < Rank(c)
        PROVE  Cardinality(Upto(d)) < n
    <3> DEFINE X == Upto(c)
               Y == Upto(d)
    <3>1. PICK i \in D : on(i) = c
      BY <1>1
    <3>2. i \in X /\ i \notin Y /\ Y \subseteq X
      BY <1>1, <1>2, <2>2, <3>1
    <3>3. IsFiniteSet(X) /\ Cardinality(X) \in Nat /\ Cardinality(Y) \in Nat
      BY <1>3
    <3> HIDE DEF X, Y
    <3>4. Y \in SUBSET X /\ Y # X
      BY <3>2
    <3>5. Cardinality(Y) < Cardinality(X)
      BY <3>3, <3>4, FS_Subset
    <3> QED BY <3>5 DEF X, Y
  <2> DEFINE p == pick[n]
  <2>3. p \in Requires(m, id) /\ Picked(n, p)
    BY <1>6, <2>1
  <2> HIDE DEF p, pick
  <2>4. Rank(p) <= Rank(c)
    BY <1>3, <2>3
  <2>5. ~(Rank(p) < Rank(c))
    <3>1. n <= Cardinality(Upto(p)) /\ Cardinality(Upto(p)) \in Nat /\ n \in Nat
      BY <1>3, <2>3
    <3> HIDE DEF n
    <3> QED BY <2>2, <2>3, <3>1
  <2>6. p = c
    BY <1>2, <2>3, <2>4, <2>5
  <2> QED BY <2>1, <2>6 DEF p
<1>8. DOMAIN pick = 1..N
  OBVIOUS
<1> HIDE DEF pick, N
<1> QED BY <1>5, <1>6, <1>7, <1>8 DEF ToSet

\* The elements of two sequences in a row.
Joined(s, t) == s \o t

LEMMA ConcatSet ==
    ASSUME NEW S, NEW s \in Seq(S), NEW t \in Seq(S), NEW x, x = Joined(s, t)
    PROVE  x \in Seq(S) /\ ToSet(x) = ToSet(s) \union ToSet(t)
<1>1. /\ x \in Seq(S) /\ Len(x) = Len(s) + Len(t)
      /\ \A i \in 1..(Len(s) + Len(t)) : x[i] = IF i <= Len(s) THEN s[i] ELSE t[i - Len(s)]
  BY ConcatProperties DEF Joined
<1>2. /\ Len(s) \in Nat /\ Len(t) \in Nat
      /\ DOMAIN s = 1..Len(s) /\ DOMAIN t = 1..Len(t) /\ DOMAIN x = 1..(Len(s) + Len(t))
  BY <1>1
<1> DEFINE l == Len(s)
           k == Len(t)
<1> HIDE DEF l, k
<1>3. /\ l \in Nat /\ k \in Nat
      /\ DOMAIN s = 1..l /\ DOMAIN t = 1..k /\ DOMAIN x = 1..(l + k)
      /\ \A i \in 1..(l + k) : x[i] = IF i <= l THEN s[i] ELSE t[i - l]
  BY <1>1, <1>2 DEF l, k
<1>4. /\ \A i \in 1..l : i \in 1..(l + k) /\ x[i] = s[i]
      /\ \A i \in 1..k : i + l \in 1..(l + k) /\ x[i + l] = t[i]
      /\ \A i \in 1..(l + k) : i \in 1..l \/ (i - l \in 1..k /\ x[i] = t[i - l])
  BY <1>3
<1> HIDE DEF l, k
<1>5. ASSUME NEW e
      PROVE  e \in ToSet(x) <=> e \in ToSet(s) \/ e \in ToSet(t)
  <2>1. e \in ToSet(s) => e \in ToSet(x)
    BY <1>3, <1>4 DEF ToSet
  <2>2. e \in ToSet(t) => e \in ToSet(x)
    BY <1>3, <1>4 DEF ToSet
  <2>3. e \in ToSet(x) => e \in ToSet(s) \/ e \in ToSet(t)
    <3> SUFFICES ASSUME NEW i \in 1..(l + k), e = x[i]
                 PROVE  e \in ToSet(s) \/ e \in ToSet(t)
      BY <1>3 DEF ToSet
    <3>1. CASE i \in 1..l
      BY <1>3, <1>4, <3>1 DEF ToSet
    <3>2. CASE i \notin 1..l
      BY <1>3, <1>4, <3>2 DEF ToSet
    <3> QED BY <3>1, <3>2
  <2> QED BY <2>1, <2>2, <2>3
<1> QED BY <1>1, <1>5

\* The elements of a sequence of sequences.
LEMMA FlattenIs ==
    ASSUME NEW S, NEW N \in Nat, NEW q \in [1..N -> Seq(S)]
    PROVE  /\ FlattenSeq(q) \in Seq(S)
           /\ ToSet(FlattenSeq(q)) = UNION {ToSet(q[i]) : i \in 1..N}
<1>1. Len(q) = N
  OBVIOUS
<1>2. CASE N = 0
  <2>1. FlattenSeq(q) = q
    BY <1>1, <1>2 DEF FlattenSeq
  <2>2. DOMAIN q = {} /\ q = <<>>
    BY <1>2
  <2>3. <<>> \in Seq(S)
    OBVIOUS
  <2> QED BY <1>2, <2>1, <2>2, <2>3 DEF ToSet
<1>3. CASE N # 0
  <2> DEFINE I == 1..N
             V == Seq(S)
             p == [i \in I |-> IF i = 1 THEN 1 ELSE i - 1]
             rank == [i \in I |-> i]
             b == [i \in I |-> q[i]]
             h == [i \in I |-> [s \in V |-> s \o q[i]]]
             Flat(f) == [i \in I |-> IF i = 1 THEN q[i] ELSE f[i - 1] \o q[i]]
  <2>1. Recursive(I, V, {1}, p, rank, b, h)
    <3>1. p \in [I -> I] /\ rank \in [I -> Nat] /\ b \in [I -> V]
      BY <1>3
    <3>2. h \in [I -> [V -> V]]
      <4>1. \A i \in I, s \in V : s \o q[i] \in V
        BY ConcatProperties
      <4> QED BY <4>1
    <3>3. \A i \in I : i \notin {1} => rank[p[i]] < rank[i]
      OBVIOUS
    <3> HIDE DEF I, V, p, rank, b, h
    <3> QED BY <3>1, <3>2, <3>3 DEF Recursive
  <2>2. PICK f \in [I -> V] : \A i \in I : f[i] = IF i \in {1} THEN b[i] ELSE h[i][f[p[i]]]
    <3> HIDE DEF I, V, p, rank, b, h
    <3> QED BY <2>1, RecursionExists
  <2>3. f = Flat(f)
    <3>1. \A i \in I : f[i] = IF i = 1 THEN q[i] ELSE f[i - 1] \o q[i]
      <4> SUFFICES ASSUME NEW i \in I
                   PROVE  f[i] = IF i = 1 THEN q[i] ELSE f[i - 1] \o q[i]
        OBVIOUS
      <4>1. CASE i = 1
        BY <2>2, <4>1
      <4>2. CASE i # 1
        <5>1. p[i] = i - 1 /\ i - 1 \in I
          BY <4>2
        <5>2. f[i] = h[i][f[i - 1]] /\ f[i - 1] \in V
          BY <2>2, <4>2, <5>1
        <5> QED BY <4>2, <5>2
      <4> QED BY <4>1, <4>2
    <3> HIDE DEF I, V
    <3>2. f = [i \in I |-> f[i]]
      OBVIOUS
    <3> QED BY <3>1, <3>2
  <2> DEFINE U == CHOOSE g : g = Flat(g)
  <2>4. U = Flat(U)
    <3> HIDE DEF Flat
    <3> QED BY <2>3
  <2>5. FlattenSeq(q) = U[N]
    BY <1>1, <1>3 DEF FlattenSeq
  <2> HIDE DEF U
  <2>6. \A i \in I : U[i] = IF i = 1 THEN q[i] ELSE U[i - 1] \o q[i]
    <3> HIDE DEF I
    <3> QED BY <2>4, Zenon
  <2> DEFINE T == {n \in 0..N : n > 0 =>
                      /\ U[n] \in V
                      /\ ToSet(U[n]) = UNION {ToSet(q[i]) : i \in 1..n}}
  <2>7. ASSUME NEW n \in 1..N, n - 1 \in T
        PROVE  n \in T
    <3>1. CASE n = 1
      <4>1. U[n] = q[1]
        BY <2>6, <3>1
      <4>2. 1..n = {1}
        BY <3>1
      <4> QED BY <3>1, <4>1, <4>2
    <3>2. CASE n # 1
      <4>1. n - 1 > 0 /\ n - 1 \in 1..N /\ q[n] \in Seq(S) /\ n \in I
        BY <3>2
      <4>5. U[n] = U[n - 1] \o q[n]
        <5> HIDE DEF I
        <5> QED BY <2>6, <3>2, <4>1
      <4>2. U[n - 1] \in Seq(S) /\ ToSet(U[n - 1]) = UNION {ToSet(q[i]) : i \in 1..(n - 1)}
        BY <2>7, <4>1
      <4> HIDE DEF V
      <4>3. U[n] \in Seq(S) /\ ToSet(U[n]) = ToSet(U[n - 1]) \union ToSet(q[n])
        <5> DEFINE y == U[n - 1]
                   z == q[n]
                   x == U[n]
        <5>1. y \in Seq(S) /\ z \in Seq(S) /\ x = Joined(y, z)
          BY <4>1, <4>2, <4>5 DEF Joined
        <5> HIDE DEF x, y, z
        <5>2. x \in Seq(S) /\ ToSet(x) = ToSet(y) \union ToSet(z)
          BY <5>1, ConcatSet
        <5> QED BY <5>2 DEF x, y, z
      <4>4. 1..n = 1..(n - 1) \union {n}
        OBVIOUS
      <4> QED BY <4>2, <4>3, <4>4, SMTT(30) DEF V
    <3> QED BY <3>1, <3>2
  <2>8. N \in T
    <3>1. 0 \in T
      OBVIOUS
    <3>2. N \in 0..N
      OBVIOUS
    <3> HIDE DEF T
    <3>3. 0..N \subseteq T
      BY <2>7, <3>1, CountedInduction
    <3> QED BY <3>2, <3>3
  <2> QED BY <1>3, <2>5, <2>8
<1> QED BY <1>2, <1>3

-----------------------------------------------------------------------------
(* The inductive invariant of the container.                                *)

\* How many of its needs a provider has asked for, and the one it asked for last.
Consumed(f) == Len(f.provider.needs) - Len(f.todo)
Awaited(f) == f.provider.needs[Consumed(f)].key
Waiting(f) == Consumed(f) >= 1

\* The registry, and what was built for it.
RegistryOK ==
    /\ registrations = [k \in DOMAIN registrations |-> registrations[k]]
    /\ IsFiniteSet(DOMAIN registrations)
    /\ \A k \in DOMAIN registrations : ProviderOK(registrations[k])
    /\ IsSeq(made)
    /\ singletons = [k \in DOMAIN singletons |-> singletons[k]]
    /\ \A k \in DOMAIN singletons :
           /\ k \in DOMAIN registrations /\ singletons[k] \in 1..Len(made)
           /\ registrations[k].kind # "alias" =>
                  made[singletons[k]].provider = registrations[k]

\* A provider being called: what is left of its needs, and what it got.
FrameOK(f) ==
    /\ f = [key |-> f.key, provider |-> f.provider, todo |-> f.todo, got |-> f.got]
    /\ f.key \in DOMAIN registrations /\ f.provider = registrations[f.key]
    /\ IsSeq(f.todo) /\ Len(f.todo) <= Len(f.provider.needs)
    /\ \A j \in 1..Len(f.todo) : f.todo[j] = f.provider.needs[Consumed(f) + j]
    /\ f.got \in Seq(1..Len(made))

\* The stack: no key is on it twice or cached, and each frame waits for the next.
Frames(s) ==
    /\ IsSeq(s)
    /\ \A i \in 1..Len(s) : FrameOK(s[i]) /\ s[i].key \notin DOMAIN singletons
    /\ \A i, j \in 1..Len(s) : s[i].key = s[j].key => i = j
    /\ \A i \in 1..(Len(s) - 1) : Waiting(s[i]) /\ Awaited(s[i]) = s[i + 1].key
    /\ s # <<>> => s[1].key = Head(wanted)

KeysOf(s) == {s[i].key : i \in 1..Len(s)}

\* What was asked for, and what came back; an alias has what it hands on.
AnswerOK ==
    /\ wanted \in Seq(STRING)
    /\ answer.kind \in {"none", "value", "error"}
    /\ answer.kind = "none" <=> answer = NoAnswer
    /\ stack # <<>> \/ answer # NoAnswer => wanted # <<>>
    /\ answer.kind = "value" => /\ answer.object \in 1..Len(made)
                                /\ stack # <<>> => Waiting(Last(stack))
    /\ (stack # <<>> /\ answer = NoAnswer) =>
           (Last(stack).provider.kind = "alias" /\ Last(stack).todo = <<>> =>
                Last(stack).got # <<>>)

ContainerInv ==
    /\ RegistryOK
    /\ Frames(stack)
    /\ resolving = KeysOf(stack)
    /\ AnswerOK

-----------------------------------------------------------------------------
(* A resolution, step by step.                                              *)

\* The frame of a provider that is called.
Called(key) ==
    [key |-> key, provider |-> get(key), todo |-> get(key).needs, got |-> <<>>]
Pushed(s, key) == Append(s, Called(key))

\* One more frame on a stack.
LEMMA PushIs ==
    ASSUME RegistryOK, NEW s, Frames(s), NEW key, key \in DOMAIN registrations,
           key \notin DOMAIN singletons, key \notin KeysOf(s),
           s = <<>> => key = Head(wanted),
           s # <<>> => Waiting(Last(s)) /\ Awaited(Last(s)) = key,
           NEW x, x = Pushed(s, key)
    PROVE  /\ Frames(x) /\ x # <<>> /\ KeysOf(x) = KeysOf(s) \union {key}
           /\ Last(x).key = key /\ Last(x).provider = registrations[key]
           /\ Last(x).todo = registrations[key].needs /\ Last(x).got = <<>>
<1> DEFINE f == Called(key)
<1> USE DEF Called, Pushed
<1>1. /\ IsSeq(s) /\ IsSeq(x) /\ Len(s) \in Nat /\ Len(x) = Len(s) + 1 /\ x # <<>>
      /\ \A i \in 1..Len(s) : x[i] = s[i]
      /\ x[Len(s) + 1] = f
  BY AppendIs DEF Frames
<1>2. FrameOK(f) /\ f.key = key
  <2>1. registrations[key].needs \in Seq([key : STRING, optional : BOOLEAN])
    BY DEF RegistryOK, ProviderOK
  <2>2. IsSeq(f.todo) /\ f.todo = f.provider.needs /\ f.provider = registrations[key]
    BY <2>1, IsSeqIntro DEF get
  <2>3. Len(f.todo) \in Nat /\ Consumed(f) = 0
    BY <2>1, <2>2 DEF Consumed
  <2>4. f.got \in Seq(1..Len(made))
    OBVIOUS
  <2> QED BY <2>2, <2>3, <2>4 DEF FrameOK
<1>3. Last(x) = f
  BY <1>1 DEF Last
<1> HIDE DEF f, Called, Pushed
<1>4. Frames(x)
  <2>1. \A i \in 1..Len(x) : FrameOK(x[i]) /\ x[i].key \notin DOMAIN singletons
    BY <1>1, <1>2 DEF Frames
  <2>2. \A i, j \in 1..Len(x) : x[i].key = x[j].key => i = j
    BY <1>1, <1>2 DEF Frames, KeysOf
  <2>3. ASSUME NEW i \in 1..(Len(x) - 1)
        PROVE  Waiting(x[i]) /\ Awaited(x[i]) = x[i + 1].key
    <3>1. CASE i = Len(s)
      <4>1. s # <<>> /\ x[i] = Last(s) /\ x[i + 1] = f
        BY <1>1, <3>1 DEF Last
      <4> QED BY <1>2, <4>1
    <3>2. CASE i \in 1..(Len(s) - 1)
      <4>1. x[i] = s[i] /\ x[i + 1] = s[i + 1]
        BY <1>1, <3>2
      <4> QED BY <3>2, <4>1 DEF Frames
    <3> QED BY <1>1, <3>1, <3>2
  <2>4. x[1].key = Head(wanted)
    <3>1. CASE s = <<>>
      BY <1>1, <1>2, <3>1
    <3>2. CASE s # <<>>
      <4>1. 1 \in 1..Len(s)
        BY <1>1, <3>2, LastIs
      <4> QED BY <1>1, <3>2, <4>1 DEF Frames
    <3> QED BY <3>1, <3>2
  <2> QED BY <1>1, <2>1, <2>2, <2>3, <2>4 DEF Frames
<1>5. KeysOf(x) = KeysOf(s) \union {key}
  BY <1>1, <1>2 DEF KeysOf
<1> QED BY <1>1, <1>2, <1>3, <1>4, <1>5 DEF f, Called, get

\* resolve() up to the call of the provider.
LEMMA LookupStep ==
    ASSUME RegistryOK, NEW below, Frames(below), resolving = KeysOf(below),
           wanted \in Seq(STRING), wanted # <<>>, answer = NoAnswer,
           NEW key, below = <<>> => key = Head(wanted),
           below # <<>> => Waiting(Last(below)) /\ Awaited(Last(below)) = key,
           Lookup(key, below),
           UNCHANGED <<registrations, singletons, made, wanted>>
    PROVE  ContainerInv'
<1>1. RegistryOK'
  BY DEF RegistryOK, ProviderOK
<1>2. \A s : Frames(s)' <=> Frames(s)
  BY DEF Frames, FrameOK, Consumed, Awaited, Waiting
<1>3. CASE stack' = below /\ UNCHANGED resolving
  <2>1. answer' \in {Value(singletons[key]), Error("KeyError"), Error("Circular")}
        /\ (answer'.kind = "value" =>
               key \in DOMAIN singletons /\ answer' = Value(singletons[key]))
    <3>1. \/ key \in DOMAIN singletons /\ answer' = Value(singletons[key])
          \/ answer' = Error("KeyError")
          \/ answer' = Error("Circular")
          \/ stack' = Append(below, Called(key))
      BY DEF Lookup, Called
    <3>2. stack' # Append(below, Called(key))
      <4>1. IsSeq(below)
        BY DEF Frames
      <4> QED BY <1>3, <4>1, AppendIs
    <3> QED BY <3>1, <3>2 DEF Value, Error
  <2>2. AnswerOK'
    <3>1. singletons[key] \in 1..Len(made) \/ answer'.kind = "error"
      BY <2>1 DEF RegistryOK, Value, Error
    <3>2. /\ answer'.kind \in {"value", "error"} /\ answer' # NoAnswer
          /\ answer'.kind = "value" => answer'.object \in 1..Len(made)
      <4>1. CASE answer'.kind = "value"
        <5>1. answer' = [kind |-> "value", object |-> singletons[key]]
          BY <2>1, <4>1 DEF Value
        <5> QED BY <3>1, <4>1, <5>1 DEF NoAnswer
      <4>2. CASE answer'.kind # "value"
        <5>1. answer'.kind = "error"
          BY <2>1, <4>2 DEF Value, Error
        <5> QED BY <5>1 DEF NoAnswer
      <4> QED BY <4>1, <4>2
    <3>3. Waiting(Last(stack))' <=> Waiting(Last(stack'))
      BY DEF Waiting, Consumed
    <3> QED BY <1>3, <3>2, <3>3 DEF AnswerOK
  <2> QED BY <1>1, <1>2, <1>3, <2>2 DEF ContainerInv, KeysOf
<1>4. CASE /\ key \notin DOMAIN singletons /\ contains(key) /\ key \notin resolving
           /\ resolving' = resolving \union {key}
           /\ stack' = Append(below, Called(key))
           /\ UNCHANGED answer
  <2>1. /\ Frames(stack') /\ stack' # <<>> /\ KeysOf(stack') = KeysOf(below) \union {key}
        /\ Last(stack').provider = registrations[key]
        /\ Last(stack').todo = registrations[key].needs
    <3>1. key \in DOMAIN registrations /\ key \notin DOMAIN singletons /\ key \notin KeysOf(below)
      BY <1>4 DEF contains
    <3> DEFINE x == Pushed(below, key)
    <3>2. stack' = x
      BY <1>4 DEF Pushed
    <3>3. /\ Frames(x) /\ x # <<>> /\ KeysOf(x) = KeysOf(below) \union {key}
          /\ Last(x).key = key /\ Last(x).provider = registrations[key]
          /\ Last(x).todo = registrations[key].needs /\ Last(x).got = <<>>
      BY <3>1, PushIs
    <3> HIDE DEF x
    <3> QED BY <3>2, <3>3
  <2>2. registrations[key].kind = "alias" => registrations[key].needs # <<>>
    BY <1>4 DEF contains, RegistryOK, ProviderOK
  <2>3. AnswerOK'
    <3>1. answer' = NoAnswer /\ answer'.kind = "none" /\ wanted' = wanted
      BY <1>4 DEF NoAnswer
    <3>2. (Last(stack).provider.kind = "alias")' => (Last(stack).todo # <<>>)'
      BY <2>1, <2>2
    <3> QED BY <3>1, <3>2 DEF AnswerOK
  <2> QED BY <1>1, <1>2, <1>4, <2>1, <2>3 DEF ContainerInv, KeysOf
<1> QED BY <1>3, <1>4 DEF Lookup, Called

\* The frame on top is replaced by one of the same key.
LEMMA TopReplaced ==
    ASSUME NEW s, Frames(s), s # <<>>, NEW g, FrameOK(g), g.key = Last(s).key,
           NEW x, x = Topped(s, g)
    PROVE  Frames(x) /\ x # <<>> /\ KeysOf(x) = KeysOf(s) /\ Last(x) = g
<1>1. /\ IsSeq(s) /\ IsSeq(x) /\ x # <<>> /\ Len(x) = Len(s) /\ Len(s) \in Nat /\ Len(s) > 0
      /\ \A i \in 1..(Len(s) - 1) : x[i] = s[i]
      /\ x[Len(s)] = g /\ Last(x) = g
  <2>1. IsSeq(s)
    BY DEF Frames
  <2> QED BY <2>1, LastReplaced
<1>2. Last(s) = s[Len(s)]
  BY DEF Last
<1>3. \A i \in 1..Len(s) : x[i].key = s[i].key
  BY <1>1, <1>2
<1>4. \A i \in 1..Len(s) : FrameOK(x[i]) /\ x[i].key \notin DOMAIN singletons
  BY <1>1, <1>3 DEF Frames
<1>5. ASSUME NEW i \in 1..(Len(s) - 1)
      PROVE  Waiting(x[i]) /\ Awaited(x[i]) = x[i + 1].key
  <2>1. i + 1 \in 1..Len(s)
    BY <1>1
  <2> QED BY <1>1, <1>3, <2>1 DEF Frames
<1>6. x[1].key = Head(wanted)
  <2>1. 1 \in 1..Len(s)
    BY <1>1
  <2> QED BY <1>3, <2>1 DEF Frames
<1>7. \A i, j \in 1..Len(x) : x[i].key = x[j].key => i = j
  BY <1>1, <1>3 DEF Frames
<1>8. KeysOf(x) = KeysOf(s)
  BY <1>1, <1>3 DEF KeysOf
<1> QED BY <1>1, <1>4, <1>5, <1>6, <1>7, <1>8 DEF Frames

\* The frame on top is removed: the one below waits for it.
LEMMA TopRemoved ==
    ASSUME NEW s, Frames(s), s # <<>>, NEW x, x = Front(s)
    PROVE  /\ Frames(x) /\ KeysOf(x) = KeysOf(s) \ {Last(s).key}
           /\ Last(s).key \in KeysOf(s) /\ FrameOK(Last(s))
           /\ Last(s).key \notin DOMAIN singletons
           /\ x # <<>> => Waiting(Last(x)) /\ Awaited(Last(x)) = Last(s).key
           /\ x = <<>> => Last(s).key = Head(wanted)
<1>1. /\ IsSeq(s) /\ IsSeq(x) /\ Len(s) \in Nat /\ Len(s) > 0 /\ Len(x) = Len(s) - 1
      /\ \A i \in 1..(Len(s) - 1) : x[i] = s[i]
      /\ Last(s) = s[Len(s)]
  <2>1. IsSeq(s)
    BY DEF Frames
  <2> QED BY <2>1, LastIs
<1>2. Len(s) \in 1..Len(s)
  BY <1>1
<1>3. \A i \in 1..Len(x) : x[i] = s[i] /\ i \in 1..Len(s) /\ i # Len(s)
  BY <1>1
<1>4. ASSUME NEW i \in 1..(Len(x) - 1)
      PROVE  Waiting(x[i]) /\ Awaited(x[i]) = x[i + 1].key
  <2>1. i \in 1..Len(x) /\ i + 1 \in 1..Len(x) /\ i \in 1..(Len(s) - 1)
    BY <1>1
  <2> QED BY <1>3, <2>1 DEF Frames
<1>5. x # <<>> => 1 \in 1..Len(x) /\ Len(x) \in 1..(Len(s) - 1) /\ Last(x) = s[Len(s) - 1]
  <2>1. x # <<>> => Len(x) \in Nat /\ Len(x) > 0
    BY <1>1, LastIs
  <2> QED BY <1>1, <2>1 DEF Last
<1>6. x # <<>> => Waiting(Last(x)) /\ Awaited(Last(x)) = Last(s).key
  <2> SUFFICES ASSUME x # <<>>
               PROVE  Waiting(Last(x)) /\ Awaited(Last(x)) = Last(s).key
    OBVIOUS
  <2>1. Len(s) - 1 \in 1..(Len(s) - 1) /\ (Len(s) - 1) + 1 = Len(s)
    BY <1>1, <1>5
  <2> QED BY <1>1, <1>5, <2>1 DEF Frames
<1>7. x = <<>> => Last(s).key = Head(wanted)
  <2>1. x = <<>> => Len(s) = 1
    <3>1. x = <<>> => Len(x) = 0
      OBVIOUS
    <3> QED BY <1>1, <3>1
  <2> QED BY <1>1, <2>1 DEF Frames
<1>8. KeysOf(x) = KeysOf(s) \ {Last(s).key}
  <2>1. \A i \in 1..Len(x) : s[i].key # Last(s).key
    BY <1>1, <1>2, <1>3 DEF Frames
  <2>2. \A i \in 1..Len(s) : i = Len(s) \/ i \in 1..Len(x)
    BY <1>1
  <2> QED BY <1>1, <1>3, <2>1, <2>2, SMTT(30) DEF KeysOf
<1>9. Frames(x)
  <2>1. \A i \in 1..Len(x) : FrameOK(x[i]) /\ x[i].key \notin DOMAIN singletons
    BY <1>3 DEF Frames
  <2>2. \A i, j \in 1..Len(x) : x[i].key = x[j].key => i = j
    BY <1>3 DEF Frames
  <2>3. x # <<>> => x[1].key = Head(wanted)
    BY <1>3, <1>5 DEF Frames
  <2> QED BY <1>1, <1>4, <2>1, <2>2, <2>3 DEF Frames
<1> QED BY <1>1, <1>2, <1>6, <1>7, <1>8, <1>9 DEF Frames, KeysOf

\* The stack stays as good when objects are added and none of its keys is cached.
LEMMA FramesStay ==
    ASSUME NEW s, Frames(s), UNCHANGED registrations, s # <<>> => wanted' = wanted,
           Len(made) \in Nat, Len(made') \in Nat, Len(made) <= Len(made'),
           \A k \in KeysOf(s) : k \notin DOMAIN singletons',
           stack' = s
    PROVE  Frames(stack)'
<1>1. \A f : FrameOK(f) => FrameOK(f)'
  <2>1. 1..Len(made) \subseteq 1..Len(made')
    OBVIOUS
  <2> QED BY <2>1 DEF FrameOK, Consumed
<1>2. \A i \in 1..Len(s) : s[i].key \notin DOMAIN singletons'
  BY DEF KeysOf
<1> QED BY <1>1, <1>2 DEF Frames, Waiting, Awaited, Consumed

LEMMA EmptyStack ==
    /\ Frames(<<>>) /\ KeysOf(<<>>) = {}
<1>1. IsSeq(<<>>) /\ Len(<<>>) = 0
  BY DEF IsSeq
<1>2. 1..0 = {} /\ 1..(0 - 1) = {}
  OBVIOUS
<1> QED BY <1>1, <1>2 DEF Frames, KeysOf

LEMMA ResolveIs ==
    ASSUME ContainerInv, Resolve
    PROVE  ContainerInv'
<1> DEFINE key == Head(wanted)
<1>1. /\ RegistryOK /\ resolving = KeysOf(<<>>) /\ wanted \in Seq(STRING) /\ wanted # <<>>
      /\ answer = NoAnswer
  BY DEF ContainerInv, AnswerOK, Resolve, Idle
<1>2. Lookup(key, <<>>) /\ UNCHANGED <<registrations, singletons, made, wanted>>
  BY DEF Resolve
<1>4. PICK below : below = <<>>
  OBVIOUS
<1>5. Frames(below) /\ resolving = KeysOf(below) /\ Lookup(key, below)
  BY <1>1, <1>2, <1>4, EmptyStack
<1> QED BY <1>1, <1>2, <1>4, <1>5, LookupStep

\* What a frame becomes when the provider asks for its next dependency.
Asked(f) == [f EXCEPT !.todo = Tail(@)]

LEMMA AskedIs ==
    ASSUME RegistryOK, NEW f, FrameOK(f), f.todo # <<>>, NEW g, g = Asked(f)
    PROVE  /\ FrameOK(g) /\ g.key = f.key /\ g.provider = f.provider /\ g.got = f.got
           /\ g.todo = Tail(f.todo)
           /\ Consumed(g) = Consumed(f) + 1
           /\ Consumed(g) \in 1..Len(f.provider.needs)
           /\ Waiting(g) /\ Awaited(g) = Head(f.todo).key
           /\ f.todo[1] = f.provider.needs[Consumed(g)]
<1>1. g = [key |-> f.key, provider |-> f.provider, todo |-> Tail(f.todo), got |-> f.got]
  BY DEF FrameOK, Asked
<1>2. /\ g.key = f.key /\ g.provider = f.provider /\ g.got = f.got /\ g.todo = Tail(f.todo)
      /\ g = [key |-> g.key, provider |-> g.provider, todo |-> g.todo, got |-> g.got]
  BY <1>1
<1>3. Len(f.provider.needs) \in Nat
  BY DEF FrameOK, RegistryOK, ProviderOK
<1>4. /\ IsSeq(g.todo) /\ Len(f.todo) \in Nat /\ Len(f.todo) > 0 /\ Len(g.todo) = Len(f.todo) - 1
      /\ \A i \in 1..(Len(f.todo) - 1) : g.todo[i] = f.todo[i + 1]
      /\ Head(f.todo) = f.todo[1]
  BY <1>2, TailIs DEF FrameOK
<1>5. /\ Consumed(g) = Consumed(f) + 1 /\ Consumed(f) \in Int
      /\ Consumed(f) >= 0 /\ Consumed(g) \in 1..Len(f.provider.needs)
  BY <1>2, <1>3, <1>4 DEF Consumed, FrameOK
<1>6. f.todo[1] = f.provider.needs[Consumed(g)]
  <2>1. 1 \in 1..Len(f.todo)
    BY <1>4
  <2> QED BY <1>5, <2>1 DEF FrameOK
<1>7. ASSUME NEW j \in 1..Len(g.todo)
      PROVE  g.todo[j] = g.provider.needs[Consumed(g) + j]
  <2>1. j \in 1..(Len(f.todo) - 1) /\ j + 1 \in 1..Len(f.todo)
    BY <1>4
  <2>2. g.todo[j] = f.provider.needs[Consumed(f) + (j + 1)]
    BY <1>4, <2>1 DEF FrameOK
  <2>3. Consumed(f) + (j + 1) = Consumed(g) + j
    BY <1>5
  <2> QED BY <1>2, <2>2, <2>3
<1>8. FrameOK(g)
  BY <1>2, <1>3, <1>4, <1>7 DEF FrameOK
<1> QED BY <1>2, <1>4, <1>5, <1>6, <1>8 DEF Waiting, Awaited

LEMMA NextNeedIs ==
    ASSUME ContainerInv, NextNeed
    PROVE  ContainerInv'
<1> DEFINE f == Last(stack)
           g == Asked(f)
           rest == Topped(stack, g)
           need == Head(f.todo)
<1>1. /\ stack # <<>> /\ answer = NoAnswer /\ f.todo # <<>>
      /\ UNCHANGED <<registrations, singletons, made, wanted>>
      /\ \/ need.optional /\ ~has(need.key) /\ stack' = rest /\ UNCHANGED <<resolving, answer>>
         \/ Lookup(need.key, rest)
  BY DEF NextNeed, Asked, Topped
<1>2. RegistryOK /\ Frames(stack) /\ resolving = KeysOf(stack) /\ FrameOK(f)
  BY <1>1, TopRemoved DEF ContainerInv
<1>3. /\ FrameOK(g) /\ g.key = f.key /\ g.provider = f.provider /\ g.got = f.got
      /\ Consumed(g) \in 1..Len(f.provider.needs)
      /\ Waiting(g) /\ Awaited(g) = need.key
      /\ need = f.provider.needs[Consumed(g)]
  <2>1. need = f.todo[1]
    <3>1. IsSeq(f.todo)
      BY <1>2 DEF FrameOK
    <3> QED BY <1>1, <3>1, TailIs
  <2> QED BY <1>1, <1>2, <2>1, AskedIs
<1> HIDE DEF g, f, need
<1>4. Frames(rest) /\ rest # <<>> /\ KeysOf(rest) = KeysOf(stack) /\ Last(rest) = g
  BY <1>1, <1>2, <1>3, TopReplaced DEF f
<1>5. wanted \in Seq(STRING) /\ wanted # <<>>
  BY <1>1 DEF ContainerInv, AnswerOK
<1> HIDE DEF rest
<1>6. CASE Lookup(need.key, rest)
  BY <1>1, <1>2, <1>3, <1>4, <1>5, <1>6, LookupStep
<1>7. CASE need.optional /\ stack' = rest /\ UNCHANGED <<resolving, answer>>
  <2>1. RegistryOK'
    BY <1>1, <1>2 DEF RegistryOK, ProviderOK
  <2>2. Frames(stack)'
    <3>1. Len(made) \in Nat
      BY <1>2, SeqIs DEF RegistryOK
    <3>2. \A k \in KeysOf(rest) : k \notin DOMAIN singletons
      BY <1>4 DEF Frames, KeysOf
    <3>3. \A s : s = rest => Frames(stack)'
      BY <1>1, <1>4, <1>7, <3>1, <3>2, FramesStay
    <3> QED BY <3>3
  <2>3. resolving' = KeysOf(stack)'
    BY <1>2, <1>4, <1>7 DEF KeysOf
  <2>4. g.provider.kind # "alias"
    <3>1. f.provider = registrations[f.key] /\ f.key \in DOMAIN registrations
      BY <1>2 DEF FrameOK
    <3>2. registrations[f.key].kind = "alias" =>
              \A i \in DOMAIN registrations[f.key].needs : ~registrations[f.key].needs[i].optional
      BY <1>2, <3>1 DEF RegistryOK, ProviderOK
    <3>3. DOMAIN f.provider.needs = 1..Len(f.provider.needs)
      BY <1>2, <3>1 DEF RegistryOK, ProviderOK
    <3> QED BY <1>3, <1>7, <3>1, <3>2, <3>3
  <2>5. AnswerOK'
    <3>1. Last(stack') = g
      BY <1>4, <1>7
    <3>2. (Last(stack).provider.kind # "alias")'
      BY <2>4, <3>1
    <3>3. answer'.kind = "none" /\ answer' = NoAnswer
      BY <1>1, <1>7 DEF NoAnswer
    <3> QED BY <1>1, <1>5, <3>2, <3>3 DEF AnswerOK
  <2> QED BY <2>1, <2>2, <2>3, <2>5 DEF ContainerInv
<1> QED BY <1>1, <1>6, <1>7

LEMMA InjectedIs ==
    ASSUME ContainerInv, Injected
    PROVE  ContainerInv'
<1> DEFINE f == Last(stack)
           g == [f EXCEPT !.got = Append(@, answer.object)]
           x == Topped(stack, g)
<1>1. /\ stack # <<>> /\ answer.kind = "value" /\ stack' = x /\ answer' = NoAnswer
      /\ UNCHANGED <<registrations, singletons, resolving, made, wanted>>
  BY DEF Injected, Topped
<1>2. RegistryOK /\ Frames(stack) /\ resolving = KeysOf(stack) /\ FrameOK(f)
  BY <1>1, TopRemoved DEF ContainerInv
<1>3. answer.object \in 1..Len(made) /\ wanted \in Seq(STRING) /\ wanted # <<>>
  BY <1>1 DEF ContainerInv, AnswerOK
<1>4. FrameOK(g) /\ g.key = f.key /\ g.got # <<>>
  <2>1. g = [key |-> f.key, provider |-> f.provider, todo |-> f.todo,
             got |-> Append(f.got, answer.object)]
    <3> DEFINE got == Append(f.got, answer.object)
    <3>1. g = [f EXCEPT !.got = got]
      OBVIOUS
    <3> HIDE DEF got, f, g
    <3>2. g = [key |-> f.key, provider |-> f.provider, todo |-> f.todo, got |-> got]
      BY <1>2, <3>1 DEF FrameOK
    <3> QED BY <3>2 DEF got
  <2>2. /\ g.key = f.key /\ g.provider = f.provider /\ g.todo = f.todo
        /\ g.got = Append(f.got, answer.object)
        /\ g = [key |-> g.key, provider |-> g.provider, todo |-> g.todo, got |-> g.got]
    BY <2>1
  <2> HIDE DEF f, g
  <2>3. g.got \in Seq(1..Len(made)) /\ g.got # <<>>
    <3>1. f.got \in Seq(1..Len(made))
      BY <1>2 DEF FrameOK
    <3>2. ASSUME NEW S, NEW q \in Seq(S), NEW e \in S
          PROVE  Append(q, e) \in Seq(S) /\ Append(q, e) # <<>>
      BY AppendProperties
    <3> QED BY <1>3, <2>2, <3>1, <3>2
  <2> QED BY <1>2, <2>2, <2>3 DEF FrameOK, Consumed
<1> HIDE DEF g
<1>5. Frames(x) /\ x # <<>> /\ KeysOf(x) = KeysOf(stack) /\ Last(x) = g
  BY <1>1, <1>2, <1>4, TopReplaced
<1> HIDE DEF f, x
<1>6. RegistryOK'
  BY <1>1, <1>2 DEF RegistryOK, ProviderOK
<1>7. Frames(stack)'
  <2>1. Len(made) \in Nat
    BY <1>2, SeqIs DEF RegistryOK
  <2>2. \A k \in KeysOf(x) : k \notin DOMAIN singletons
    BY <1>5 DEF Frames, KeysOf
  <2>3. \A s : s = x => Frames(stack)'
    BY <1>1, <1>5, <2>1, <2>2, FramesStay
  <2> QED BY <2>3
<1>8. resolving' = KeysOf(stack)'
  BY <1>1, <1>2, <1>5 DEF KeysOf
<1>9. AnswerOK'
  <2>1. (Last(stack).got # <<>>)'
    <3>1. Last(stack') = g
      BY <1>1, <1>5
    <3> QED BY <1>4, <3>1
  <2>2. answer'.kind = "none" /\ answer' = NoAnswer
    BY <1>1 DEF NoAnswer
  <2> QED BY <1>1, <1>3, <2>1, <2>2 DEF AnswerOK
<1> QED BY <1>6, <1>7, <1>8, <1>9 DEF ContainerInv

LEMMA UnwindIs ==
    ASSUME ContainerInv, Unwind
    PROVE  ContainerInv'
<1> DEFINE f == Last(stack)
           x == Front(stack)
<1>1. /\ stack # <<>> /\ answer.kind = "error" /\ stack' = x
      /\ resolving' = resolving \ {f.key}
      /\ UNCHANGED <<registrations, singletons, answer, made, wanted>>
  BY DEF Unwind
<1>2. RegistryOK /\ Frames(stack) /\ resolving = KeysOf(stack)
  BY DEF ContainerInv
<1>3. Frames(x) /\ KeysOf(x) = KeysOf(stack) \ {f.key}
  BY <1>1, <1>2, TopRemoved
<1> HIDE DEF f, x
<1>4. RegistryOK'
  BY <1>1, <1>2 DEF RegistryOK, ProviderOK
<1>5. Frames(stack)'
  <2>1. Len(made) \in Nat
    BY <1>2, SeqIs DEF RegistryOK
  <2>2. \A k \in KeysOf(x) : k \notin DOMAIN singletons
    BY <1>3 DEF Frames, KeysOf
  <2>3. \A s : s = x => Frames(stack)'
    BY <1>1, <1>3, <2>1, <2>2, FramesStay
  <2> QED BY <2>3
<1>6. resolving' = KeysOf(stack)'
  BY <1>1, <1>2, <1>3 DEF KeysOf
<1>7. AnswerOK'
  BY <1>1 DEF ContainerInv, AnswerOK, NoAnswer
<1> QED BY <1>4, <1>5, <1>6, <1>7 DEF ContainerInv

\* What the provider on top hands to the container.
Object == IF Last(stack).provider.kind = "alias" THEN Last(Last(stack).got)
          ELSE Len(made) + 1

ProvidedCases ==
    \/ /\ Last(stack).provider.kind = "raises"
       /\ answer' = Error("Raised")
       /\ UNCHANGED <<singletons, made>>
    \/ /\ Last(stack).provider.kind # "raises"
       /\ answer' = Value(Object)
       /\ Cache(Last(stack), Object)
       /\ made' = IF Last(stack).provider.kind = "alias" THEN made
                  ELSE Append(made, [provider |-> Last(stack).provider, got |-> Last(stack).got])

\* The object is cached for the key of the frame, and of what was made all stays.
LEMMA ProvidedObject ==
    ASSUME ContainerInv, Provided
    PROVE  /\ RegistryOK'
           /\ ProvidedCases
           /\ Len(made) \in Nat /\ Len(made') \in Nat /\ Len(made) <= Len(made')
           /\ DOMAIN singletons' \subseteq DOMAIN singletons \union {Last(stack).key}
           /\ answer'.kind \in {"value", "error"} /\ answer' # NoAnswer
           /\ answer'.kind = "value" => answer' = Value(Object) /\ Object \in 1..Len(made')
           /\ \A k \in DOMAIN singletons : singletons'[k] = singletons[k]
           /\ \A i \in 1..Len(made) : made'[i] = made[i]
<1> DEFINE f == Last(stack)
           built == [provider |-> f.provider, got |-> f.got]
<1>1. /\ stack # <<>> /\ answer = NoAnswer /\ f.todo = <<>>
      /\ UNCHANGED registrations
      /\ ProvidedCases
  BY DEF Provided, ProvidedCases, Object
<1>2. /\ RegistryOK /\ Frames(stack) /\ FrameOK(f) /\ f.key \notin DOMAIN singletons
  BY <1>1, TopRemoved DEF ContainerInv
<1>3. IsSeq(made) /\ Len(made) \in Nat
  BY <1>2, SeqIs DEF RegistryOK
<1>4. /\ f.key \in DOMAIN registrations /\ f.provider = registrations[f.key]
      /\ f.got \in Seq(1..Len(made))
  BY <1>2 DEF FrameOK
<1>5. f.provider.kind = "alias" => Object \in 1..Len(made)
  <2> SUFFICES ASSUME f.provider.kind = "alias"
               PROVE  Object \in 1..Len(made)
    OBVIOUS
  <2>1. f.got # <<>>
    BY <1>1 DEF ContainerInv, AnswerOK
  <2>2. Object = f.got[Len(f.got)]
    BY DEF Last, Object
  <2> HIDE DEF f
  <2>3. Len(f.got) \in 1..Len(f.got)
    BY <1>4, <2>1
  <2> QED BY <1>4, <2>2, <2>3
<1>6. CASE f.provider.kind = "raises"
  <2>1. answer' = Error("Raised") /\ UNCHANGED <<singletons, made>>
    BY <1>1, <1>6 DEF ProvidedCases
  <2>2. RegistryOK'
    BY <1>1, <1>2, <2>1 DEF RegistryOK, ProviderOK
  <2>3. answer'.kind = "error" /\ answer' # NoAnswer
    BY <2>1 DEF Error, NoAnswer
  <2> QED BY <1>1, <1>3, <2>1, <2>2, <2>3
<1>7. CASE f.provider.kind # "raises"
  <2>1. /\ answer' = Value(Object)
        /\ singletons' = IF f.provider.lifetime = "singleton"
                         THEN Updated(singletons, [k \in {f.key} |-> Object]) ELSE singletons
        /\ made' = IF f.provider.kind = "alias" THEN made ELSE Append(made, built)
    BY <1>1, <1>7 DEF ProvidedCases, Cache
  <2>2. /\ Len(made') \in Nat /\ Len(made) <= Len(made') /\ IsSeq(made')
        /\ \A i \in 1..Len(made) : made'[i] = made[i]
        /\ Object \in 1..Len(made')
        /\ f.provider.kind # "alias" => made'[Object].provider = f.provider
    <3>1. CASE f.provider.kind = "alias"
      BY <1>3, <1>5, <2>1, <3>1
    <3>2. CASE f.provider.kind # "alias"
      <4>1. /\ IsSeq(made') /\ Len(made') = Len(made) + 1 /\ made'[Len(made) + 1] = built
            /\ \A i \in 1..Len(made) : made'[i] = made[i]
        <5> HIDE DEF built
        <5> QED BY <1>3, <2>1, <3>2, AppendIs
      <4>2. Object = Len(made) + 1
        BY <3>2 DEF Object
      <4>3. built.provider = f.provider
        OBVIOUS
      <4> HIDE DEF f, built
      <4> QED BY <1>3, <4>1, <4>2, <4>3
    <3> QED BY <3>1, <3>2
  <2>3. /\ singletons' = [k \in DOMAIN singletons' |-> singletons'[k]]
        /\ DOMAIN singletons' \subseteq DOMAIN singletons \union {f.key}
        /\ \A k \in DOMAIN singletons : singletons'[k] = singletons[k]
        /\ f.key \in DOMAIN singletons' => singletons'[f.key] = Object
    <3> HIDE DEF f
    <3>1. CASE f.provider.lifetime = "singleton"
      <4>1. singletons' = [k \in DOMAIN singletons \union {f.key} |->
                              IF k \in {f.key} THEN Object ELSE singletons[k]]
        BY <2>1, <3>1 DEF Updated
      <4> QED BY <1>2, <4>1
    <3>2. CASE f.provider.lifetime # "singleton"
      BY <1>2, <2>1, <3>2 DEF RegistryOK
    <3> QED BY <3>1, <3>2
  <2>4. ASSUME NEW k \in DOMAIN singletons'
        PROVE  /\ k \in DOMAIN registrations /\ singletons'[k] \in 1..Len(made')
               /\ registrations[k].kind # "alias" =>
                      made'[singletons'[k]].provider = registrations[k]
    <3> HIDE DEF f
    <3>1. CASE k = f.key
      BY <1>4, <2>2, <2>3, <3>1
    <3>2. CASE k \in DOMAIN singletons
      BY <1>2, <1>3, <2>2, <2>3, <3>2 DEF RegistryOK
    <3> QED BY <2>3, <3>1, <3>2
  <2>5. RegistryOK'
    <3> HIDE DEF f
    <3> QED BY <1>1, <1>2, <2>2, <2>3, <2>4 DEF RegistryOK, ProviderOK
  <2>6. answer'.kind = "value" /\ answer' # NoAnswer
    BY <2>1 DEF Value, NoAnswer
  <2> QED BY <1>1, <1>3, <2>1, <2>2, <2>3, <2>5, <2>6
<1> QED BY <1>6, <1>7

LEMMA ProvidedIs ==
    ASSUME ContainerInv, Provided
    PROVE  ContainerInv'
<1> DEFINE f == Last(stack)
           x == Front(stack)
<1>1. /\ stack # <<>> /\ answer = NoAnswer /\ stack' = x
      /\ resolving' = resolving \ {f.key} /\ UNCHANGED <<registrations, wanted>>
  BY DEF Provided
<1>2. RegistryOK /\ Frames(stack) /\ resolving = KeysOf(stack)
  BY DEF ContainerInv
<1>3. /\ Frames(x) /\ KeysOf(x) = KeysOf(stack) \ {f.key}
      /\ x # <<>> => Waiting(Last(x))
  BY <1>1, <1>2, TopRemoved
<1>4. /\ RegistryOK'
      /\ Len(made) \in Nat /\ Len(made') \in Nat /\ Len(made) <= Len(made')
      /\ DOMAIN singletons' \subseteq DOMAIN singletons \union {f.key}
      /\ answer'.kind \in {"value", "error"} /\ answer' # NoAnswer
      /\ answer'.kind = "value" => answer'.object \in 1..Len(made')
  <2>1. \A object : Value(object).object = object
    BY DEF Value
  <2> QED BY <2>1, ProvidedObject
<1> HIDE DEF f, x
<1>5. \A k \in KeysOf(x) : k \notin DOMAIN singletons'
  <2>1. \A k \in KeysOf(x) : k \notin DOMAIN singletons
    BY <1>3 DEF Frames, KeysOf
  <2> QED BY <1>3, <1>4, <2>1
<1>6. Frames(stack)'
  <2>1. \A s : s = x => Frames(stack)'
    BY <1>1, <1>3, <1>4, <1>5, FramesStay
  <2> QED BY <2>1
<1>7. resolving' = KeysOf(stack)'
  BY <1>1, <1>2, <1>3 DEF KeysOf
<1>8. AnswerOK'
  <2>1. Waiting(Last(stack))' <=> Waiting(Last(stack'))
    BY DEF Waiting, Consumed
  <2>2. wanted \in Seq(STRING) /\ wanted # <<>>
    BY <1>1 DEF ContainerInv, AnswerOK
  <2>3. answer'.kind # "none"
    BY <1>4
  <2> QED BY <1>1, <1>3, <1>4, <2>1, <2>2, <2>3 DEF AnswerOK
<1> QED BY <1>4, <1>6, <1>7, <1>8 DEF ContainerInv

LEMMA ResolveStepIs ==
    ASSUME ContainerInv, ResolveStep
    PROVE  ContainerInv'
BY ResolveIs, NextNeedIs, InjectedIs, ProvidedIs, UnwindIs DEF ResolveStep

-----------------------------------------------------------------------------
(* Registrations.                                                           *)

\* register() with well-formed providers.
LEMMA RegisterIs ==
    ASSUME RegistryOK, NEW new, RegistrarOK(new), register(new)
    PROVE  /\ RegistryOK'
           /\ registrations' = Updated(registrations, new)
           /\ DOMAIN registrations' = DOMAIN registrations \union DOMAIN new
           /\ Len(made) \in Nat /\ Len(made') \in Nat /\ Len(made) <= Len(made')
           /\ \A i \in 1..Len(made) : made'[i] = made[i]
           /\ \A i \in 1..Len(made') : i > Len(made) =>
                  made'[i].got = <<>> /\ \E k \in DOMAIN new :
                                             /\ new[k].kind = "instance"
                                             /\ made'[i].provider = new[k]
<1> DEFINE instances == {k \in DOMAIN new : new[k].kind = "instance"}
           objects == [k \in instances |-> Len(made) + 1]
           old == Without(singletons, DOMAIN new)
           one == CHOOSE k \in instances : TRUE
           object == [provider |-> new[one], got |-> <<>>]
<1>1. /\ registrations' = Updated(registrations, new)
      /\ singletons' = Updated(old, objects)
      /\ made' = IF instances = {} THEN made ELSE Append(made, object)
  BY DEF register, Recorded
<1>2. IsSeq(made) /\ Len(made) \in Nat
  BY SeqIs DEF RegistryOK
<1>3. /\ DOMAIN registrations' = DOMAIN registrations \union DOMAIN new
      /\ registrations' = [k \in DOMAIN registrations' |-> registrations'[k]]
      /\ \A k \in DOMAIN registrations' :
             registrations'[k] = IF k \in DOMAIN new THEN new[k] ELSE registrations[k]
  BY <1>1 DEF Updated
<1>4. /\ DOMAIN singletons' = (DOMAIN singletons \ DOMAIN new) \union instances
      /\ singletons' = [k \in DOMAIN singletons' |-> singletons'[k]]
      /\ \A k \in DOMAIN singletons' :
             singletons'[k] = IF k \in instances THEN Len(made) + 1 ELSE singletons[k]
  <2>1. singletons' = [k \in (DOMAIN singletons \ DOMAIN new) \union instances |->
                          IF k \in instances THEN Len(made) + 1 ELSE singletons[k]]
    BY <1>1 DEF Updated, Without
  <2> HIDE DEF instances
  <2> QED BY <2>1
<1>5. /\ Len(made') \in Nat /\ IsSeq(made') /\ Len(made) <= Len(made')
      /\ \A i \in 1..Len(made) : made'[i] = made[i]
      /\ instances = {} => made' = made
      /\ instances # {} => /\ Len(made') = Len(made) + 1
                           /\ made'[Len(made) + 1] = object
  <2>1. CASE instances = {}
    BY <1>1, <1>2, <2>1
  <2>2. CASE instances # {}
    <3>1. made' = Append(made, object)
      BY <1>1, <2>2
    <3> HIDE DEF object, instances
    <3> QED BY <1>2, <2>2, <3>1, AppendIs
  <2> QED BY <2>1, <2>2
<1>6. \A k \in instances : one = k
  BY DEF RegistrarOK
<1>7. \A k \in instances : one \in instances
  OBVIOUS
<1>8. object.provider = new[one] /\ object.got = <<>>
  OBVIOUS
<1> HIDE DEF object, one
<1>9. IsFiniteSet(DOMAIN registrations')
  <2>1. IsFiniteSet(DOMAIN registrations) /\ IsFiniteSet(DOMAIN new)
    BY DEF RegistrarOK, RegistryOK
  <2>2. IsFiniteSet(DOMAIN registrations \union DOMAIN new)
    BY <2>1, FS_Union
  <2> QED BY <1>3, <2>1, <2>2
<1>10. \A k \in DOMAIN registrations' : ProviderOK(registrations'[k])
  BY <1>3 DEF RegistrarOK, RegistryOK
<1>11. ASSUME NEW k \in DOMAIN singletons'
       PROVE  /\ k \in DOMAIN registrations' /\ singletons'[k] \in 1..Len(made')
              /\ registrations'[k].kind # "alias" =>
                     made'[singletons'[k]].provider = registrations'[k]
  <2>1. CASE k \in instances
    <3>1. singletons'[k] = Len(made) + 1 /\ Len(made') = Len(made) + 1
          /\ made'[Len(made) + 1].provider = new[k]
      BY <1>4, <1>5, <1>6, <1>8, <2>1
    <3> QED BY <1>2, <1>3, <2>1, <3>1
  <2>2. CASE k \in DOMAIN singletons \ DOMAIN new /\ k \notin instances
    <3>1. singletons'[k] = singletons[k] /\ k \in DOMAIN registrations
          /\ singletons[k] \in 1..Len(made) /\ registrations'[k] = registrations[k]
      BY <1>3, <1>4, <2>2 DEF RegistryOK
    <3> QED BY <1>2, <1>3, <1>5, <2>2, <3>1 DEF RegistryOK
  <2> QED BY <1>4, <2>1, <2>2
<1>12. RegistryOK'
  BY <1>3, <1>4, <1>5, <1>9, <1>10, <1>11 DEF RegistryOK, ProviderOK
<1>13. ASSUME NEW i \in 1..Len(made'), i > Len(made)
       PROVE  made'[i].got = <<>> /\ \E k \in DOMAIN new :
                                         /\ new[k].kind = "instance"
                                         /\ made'[i].provider = new[k]
  <2>1. instances # {} /\ i = Len(made) + 1
    BY <1>2, <1>5, <1>13
  <2> QED BY <1>5, <1>7, <1>8, <2>1
<1> QED BY <1>1, <1>2, <1>3, <1>5, <1>12, <1>13

\* With the event bus, if it is not there yet.
LEMMA WithBusIs ==
    ASSUME NEW new, RegistrarOK(new)
    PROVE  /\ RegistrarOK(WithBus(new))
           /\ DOMAIN new \subseteq DOMAIN WithBus(new)
           /\ \A k \in DOMAIN new : WithBus(new)[k] = new[k]
           /\ \A k \in DOMAIN WithBus(new) :
                  k \in DOMAIN new \/ (k = "EventBus" /\ WithBus(new)[k] = EventBus["EventBus"])
           /\ has("EventBus") \/ "EventBus" \in DOMAIN WithBus(new)
<1>1. /\ EventBus = [k \in {"EventBus"} |->
                        [kind |-> "build", needs |-> <<>>, lifetime |-> "singleton"]]
      /\ DOMAIN EventBus = {"EventBus"}
      /\ EventBus["EventBus"] = [kind |-> "build", needs |-> <<>>, lifetime |-> "singleton"]
  BY DEF EventBus, Classes
<1>2. ProviderOK(EventBus["EventBus"]) /\ EventBus["EventBus"].kind = "build"
  <2>1. <<>> \in Seq([key : STRING, optional : BOOLEAN])
    OBVIOUS
  <2> QED BY <1>1, <2>1 DEF ProviderOK
<1>3. IsFiniteSet({"EventBus"} \union DOMAIN new)
  BY FS_Singleton, FS_Union DEF RegistrarOK
<1> DEFINE both == Updated(EventBus, new)
<1>4. /\ DOMAIN both = {"EventBus"} \union DOMAIN new
      /\ \A k \in DOMAIN both : both[k] = IF k \in DOMAIN new THEN new[k] ELSE EventBus["EventBus"]
  BY <1>1 DEF Updated
<1> HIDE DEF both
<1>5. RegistrarOK(both)
  <2>1. IsFiniteSet(DOMAIN both)
    <3> DEFINE D == DOMAIN both
    <3>1. D = {"EventBus"} \union DOMAIN new
      BY <1>4
    <3> HIDE DEF D
    <3>2. IsFiniteSet(D)
      BY <1>3, <3>1
    <3> QED BY <3>2 DEF D
  <2>2. \A k \in DOMAIN both : ProviderOK(both[k])
    BY <1>2, <1>4 DEF RegistrarOK
  <2>3. ASSUME NEW k \in DOMAIN both, both[k].kind = "instance"
        PROVE  k \in DOMAIN new /\ new[k].kind = "instance"
    BY <1>2, <1>4, <2>3
  <2>4. \A k, l \in DOMAIN both :
            both[k].kind = "instance" /\ both[l].kind = "instance" => k = l
    BY <2>3 DEF RegistrarOK
  <2> QED BY <2>1, <2>2, <2>4 DEF RegistrarOK
<1>6. WithBus(new) \in {new, both} /\ (~has("EventBus") => WithBus(new) = both)
  BY DEF WithBus, both
<1> QED BY <1>4, <1>5, <1>6

\* A program registers with nothing on the stack.
LEMMA RegisteredIs ==
    ASSUME ContainerInv, stack = <<>>, answer = NoAnswer, NEW new, RegistrarOK(new),
           register(new), wanted' \in Seq(STRING), UNCHANGED <<resolving, stack, answer>>
    PROVE  ContainerInv'
<1>1. RegistryOK'
  BY RegisterIs DEF ContainerInv
<1>2. (Frames(<<>>) /\ KeysOf(<<>>) = {})'
  BY EmptyStack, PTL
<1>3. \A s : s = <<>> /\ stack' = s => Frames(stack)' /\ KeysOf(stack)' = {}
  BY <1>2 DEF Frames, KeysOf, FrameOK, Consumed, Waiting, Awaited
<1>4. resolving' = {}
  BY EmptyStack DEF ContainerInv
<1>5. AnswerOK'
  BY DEF ContainerInv, AnswerOK, NoAnswer
<1> QED BY <1>1, <1>3, <1>4, <1>5 DEF ContainerInv

LEMMA RunIs ==
    ASSUME ContainerInv, NEW program \in Programs, Run(program)
    PROVE  ContainerInv'
<1> DEFINE new == IF program.bus THEN WithBus(program.registrar) ELSE program.registrar
<1>1. RegistrarOK(program.registrar) /\ program.resolves \in Seq(STRING)
  BY ProgramsAssumption
<1>2. RegistrarOK(new)
  BY <1>1, WithBusIs
<1>3. /\ stack = <<>> /\ answer = NoAnswer /\ register(new)
      /\ wanted' \in {program.resolves, <<>>}
      /\ UNCHANGED <<resolving, stack, answer>>
  BY DEF Run, Idle
<1>4. wanted' \in Seq(STRING)
  <2>1. <<>> \in Seq(STRING)
    OBVIOUS
  <2> QED BY <1>1, <1>3, <2>1
<1> HIDE DEF new
<1>5. \A n : n = new => ContainerInv'
  BY <1>2, <1>3, <1>4, RegisteredIs
<1> QED BY <1>5

LEMMA ResetIs ==
    ASSUME ContainerInv, reset
    PROVE  ContainerInv'
<1>1. /\ stack = <<>> /\ singletons' = <<>>
      /\ UNCHANGED <<registrations, resolving, stack, answer, made, wanted>>
  BY DEF reset, Idle
<1>2. DOMAIN singletons' = {} /\ singletons' = [k \in {} |-> singletons'[k]]
  BY <1>1
<1>3. RegistryOK'
  BY <1>1, <1>2 DEF ContainerInv, RegistryOK, ProviderOK
<1>4. Frames(stack)'
  BY <1>1, <1>2 DEF ContainerInv, Frames, FrameOK, Consumed, Waiting, Awaited
<1>5. resolving' = KeysOf(stack)'
  BY <1>1 DEF ContainerInv, KeysOf
<1>6. AnswerOK'
  BY <1>1 DEF ContainerInv, AnswerOK, NoAnswer
<1> QED BY <1>3, <1>4, <1>5, <1>6 DEF ContainerInv

\* One resolution is over.
LEMMA EndedIs ==
    ASSUME ContainerInv, stack = <<>>, answer # NoAnswer, answer' = NoAnswer,
           wanted' \in {<<>>, Tail(wanted)},
           UNCHANGED <<registrations, singletons, resolving, stack, made>>
    PROVE  ContainerInv'
<1>1. RegistryOK'
  BY DEF ContainerInv, RegistryOK, ProviderOK
<1>2. (Frames(<<>>) /\ KeysOf(<<>>) = {})'
  BY EmptyStack, PTL
<1>3. Frames(stack)' /\ resolving' = KeysOf(stack)'
  <2>1. \A s : s = <<>> /\ stack' = s => Frames(stack)' /\ KeysOf(stack)' = {}
    BY <1>2 DEF Frames, KeysOf, FrameOK, Consumed, Waiting, Awaited
  <2>2. resolving' = {}
    BY EmptyStack DEF ContainerInv
  <2> QED BY <2>1, <2>2
<1>4. wanted' \in Seq(STRING)
  <2>1. wanted \in Seq(STRING) /\ wanted # <<>>
    BY DEF ContainerInv, AnswerOK
  <2>2. Tail(wanted) \in Seq(STRING) /\ <<>> \in Seq(STRING)
    BY <2>1
  <2> QED BY <2>2
<1>5. AnswerOK'
  BY <1>4 DEF AnswerOK, NoAnswer
<1> QED BY <1>1, <1>3, <1>5 DEF ContainerInv

LEMMA HostStep ==
    ASSUME ContainerInv, ContainerNext
    PROVE  ContainerInv'
<1>1. ASSUME Resolved
      PROVE  ContainerInv'
  BY <1>1, EndedIs DEF Resolved
<1> QED BY <1>1, RunIs, ResetIs, ResolveStepIs DEF ContainerNext

-----------------------------------------------------------------------------
(* The pipeline.                                                            *)

NoManifest == ComponentManifest(<<>>, <<>>)
PlanOf(m) ==
    [i \in DOMAIN m.components |-> BootstrapPlanEntry(m, i - 1, TopologicalOrder(m)[i])]
Accepted(m) == WellFormed(m) /\ Len(TopologicalOrder(m)) = Len(m.components)
Refused == Failed("component graph validation failed")
KeysKnown(p) ==
    \A i \in DOMAIN p : ToSet(p[i].required_service_keys) \subseteq DOMAIN SAFE_SERVICE_KEYS

Pipeline == {"validate", "create", "register", "preflight"}

\* How far the pipeline is says what it has found.
PhaseInv ==
    /\ ManifestOK(manifest)
    /\ phase \in {"plan", "host", "process", "done"} \union Pipeline
    /\ phase \notin {"preflight", "host"} => stack = <<>> /\ answer = NoAnswer
    /\ phase \in {"plan", "host", "process"} => plan = <<>> /\ result = NoResult
    /\ phase \in {"host", "process"} => manifest = NoManifest
    /\ phase \in Pipeline => /\ Accepted(manifest) /\ plan = PlanOf(manifest)
                             /\ result = NoResult
    /\ phase \in {"create", "register", "preflight"} => KeysKnown(plan)
    /\ phase = "done" =>
           \/ Accepted(manifest) /\ plan = PlanOf(manifest) /\ result # Refused
           \/ ~Accepted(manifest) /\ plan = <<>> /\ result = Refused
           \/ manifest = NoManifest /\ plan = <<>> /\ result = NoResult

\* The plan lists the components in the order of the planner.
LEMMA PlanIs ==
    ASSUME NEW m, Accepted(m), NEW o, o = TopologicalOrder(m), NEW p, p = PlanOf(m)
    PROVE  /\ o \in Seq(Identifiers(m)) /\ Ordered(m, o)
           /\ Len(o) \in Nat /\ Len(o) = Len(m.components)
           /\ Among(o, Len(o)) = Identifiers(m)
           /\ DOMAIN p = 1..Len(o) /\ Len(p) = Len(o)
           /\ \A i \in 1..Len(o) :
                  /\ o[i] \in Identifiers(m) /\ o[i] \in KNOWN_COMPONENT_IDS
                  /\ p[i].component_id = o[i]
                  /\ p[i].priority = SpecOf(m, o[i]).priority
                  /\ p[i].required_service_keys = SpecOf(m, o[i]).required_service_keys
                  /\ p[i].required_service_keys \in Seq(STRING)
                  /\ p[i].dependencies = SortedDependencies(m, o[i])
<1>1. /\ o \in Seq(Identifiers(m)) /\ Ordered(m, o) /\ Len(o) \in Nat /\ WellFormed(m)
      /\ Len(o) = Len(m.components)
  BY OrderIs DEF Accepted
<1>2. Among(o, Len(o)) = Identifiers(m)
  BY <1>1, FullOrder
<1>3. /\ DOMAIN m.components = 1..Len(o) /\ Identifiers(m) \subseteq KNOWN_COMPONENT_IDS
  BY <1>1, ManifestIs
<1>4. DOMAIN p = 1..Len(o)
  BY <1>3 DEF PlanOf
<1>5. Len(p) = Len(o)
  <2> DEFINE l == Len(o)
  <2>1. p = [i \in 1..l |-> BootstrapPlanEntry(m, i - 1, o[i])] /\ l \in Nat
    BY <1>1, <1>3 DEF PlanOf
  <2> HIDE DEF l
  <2>2. Len(p) = l
    BY <2>1
  <2> QED BY <2>2 DEF l
<1>6. ASSUME NEW i \in 1..Len(o)
      PROVE  /\ o[i] \in Identifiers(m) /\ o[i] \in KNOWN_COMPONENT_IDS
             /\ p[i].component_id = o[i]
             /\ p[i].priority = SpecOf(m, o[i]).priority
             /\ p[i].required_service_keys = SpecOf(m, o[i]).required_service_keys
             /\ p[i].required_service_keys \in Seq(STRING)
             /\ p[i].dependencies = SortedDependencies(m, o[i])
  <2>1. o[i] \in Identifiers(m)
    BY <1>1
  <2>2. p[i] = BootstrapPlanEntry(m, i - 1, o[i])
    BY <1>3 DEF PlanOf
  <2>3. SpecOf(m, o[i]) \in [component_id : STRING, priority : Priority,
                             required_service_keys : Seq(STRING)]
    BY <1>1, <2>1, ManifestIs
  <2> HIDE DEF SpecOf
  <2> QED BY <1>3, <2>1, <2>2, <2>3 DEF BootstrapPlanEntry
<1> QED BY <1>1, <1>2, <1>4, <1>5, <1>6

LEMMA NoManifestIs ==
    ManifestOK(NoManifest) /\ ~Malformed(NoManifest) /\ DOMAIN NoManifest.components = {}
<1>1. NoManifest = [components |-> <<>>, dependencies |-> <<>>]
  BY DEF NoManifest, ComponentManifest
<1>2. <<>> \in Seq([component_id : STRING, priority : Priority, required_service_keys : Seq(STRING)])
      /\ <<>> \in Seq([component_id : STRING, depends_on : STRING])
  OBVIOUS
<1>3. ManifestOK(NoManifest)
  BY <1>1, <1>2 DEF ManifestOK
<1>4. NoManifest.components = <<>> /\ NoManifest.dependencies = <<>>
  BY <1>1
<1>5. DOMAIN Ids(NoManifest) = {} /\ Ids(NoManifest) = <<>>
  BY <1>4 DEF Ids
<1>6. ToSet(Ids(NoManifest)) = {} /\ ToSet(NoManifest.dependencies) = {}
  BY <1>4, <1>5 DEF ToSet
<1>7. Cardinality({}) = 0 /\ Len(<<>>) = 0
  BY FS_EmptySet
<1>8. ~Malformed(NoManifest)
  BY <1>4, <1>5, <1>6, <1>7 DEF Malformed
<1> QED BY <1>3, <1>4, <1>8

\* The failures are told apart.
LEMMA ResultsDiffer ==
    /\ NoResult # Refused
    /\ \A e : e # "component graph validation failed" => Failed(e) # Refused
    /\ \A p, r, s, l :
           [status |-> "success", plan |-> p, preflight_report |-> r,
            runtime_snapshot |-> s, lifecycle_plan |-> l] # Refused
    /\ \A p, r, s, l :
           [status |-> "success", plan |-> p, preflight_report |-> r,
            runtime_snapshot |-> s, lifecycle_plan |-> l] # NoResult
<1>1. Refused.status = "failed" /\ NoResult.status = "none"
      /\ Refused.errors = <<"component graph validation failed">>
  BY DEF Refused, NoResult, Failed
<1>2. \A e : Failed(e).errors = <<e>>
  BY DEF Failed
<1>3. \A e, f : <<e>> = <<f>> => e = f
  <2> TAKE e, f
  <2>1. <<e>>[1] = e /\ <<f>>[1] = f
    OBVIOUS
  <2> QED BY <2>1
<1>4. NoResult # Refused
  <2>1. "none" # "failed"
    OBVIOUS
  <2> QED BY <1>1, <2>1
<1>5. ASSUME NEW e, e # "component graph validation failed"
      PROVE  Failed(e) # Refused
  <2>1. Failed(e).errors = <<e>>
    BY <1>2
  <2>2. <<e>> # <<"component graph validation failed">>
    BY <1>3, <1>5
  <2> QED BY <1>1, <2>1, <2>2
<1>6. ASSUME NEW p, NEW r, NEW s, NEW l, NEW x,
             x = [status |-> "success", plan |-> p, preflight_report |-> r,
                  runtime_snapshot |-> s, lifecycle_plan |-> l]
      PROVE  x # Refused /\ x # NoResult
  <2>1. x.status = "success"
    BY <1>6
  <2> QED BY <1>1, <2>1
<1> QED BY <1>4, <1>5, <1>6

-----------------------------------------------------------------------------
(* The first state, and the steps of the pipeline.                          *)

LEMMA ContainerStarts == ContainerInit => ContainerInv
<1> SUFFICES ASSUME ContainerInit PROVE ContainerInv
  OBVIOUS
<1>1. DOMAIN registrations = {} /\ DOMAIN singletons = {} /\ IsFiniteSet({})
  BY FS_EmptySet DEF ContainerInit
<1>2. /\ registrations = [k \in {} |-> registrations[k]]
      /\ singletons = [k \in {} |-> singletons[k]]
      /\ made = <<>> /\ stack = <<>> /\ resolving = {} /\ answer = NoAnswer /\ wanted = <<>>
  BY DEF ContainerInit
<1>3. IsSeq(made)
  BY <1>2 DEF IsSeq
<1>4. RegistryOK
  BY <1>1, <1>2, <1>3 DEF RegistryOK
<1>5. Frames(stack) /\ KeysOf(stack) = {}
  BY <1>2, EmptyStack
<1>6. AnswerOK
  <2>1. <<>> \in Seq(STRING)
    OBVIOUS
  <2>2. answer.kind = "none"
    BY <1>2 DEF NoAnswer
  <2> QED BY <1>2, <2>1, <2>2 DEF AnswerOK
<1> QED BY <1>2, <1>4, <1>5, <1>6 DEF ContainerInv

LEMMA PhaseStarts == Init => PhaseInv
<1>1. ASSUME NEW m, ManifestOK(m), NEW first \in {"plan", "host", "process"}, Fresh(first, m),
             first # "plan" => m = NoManifest
      PROVE  PhaseInv
  BY <1>1 DEF Fresh, ContainerInit, PhaseInv, Pipeline
<1>2. ManifestOK(ComponentManifest(<<>>, <<>>)) /\ ComponentManifest(<<>>, <<>>) = NoManifest
  BY NoManifestIs DEF NoManifest
<1> QED BY <1>1, <1>2, ManifestsAssumption DEF Init, BootstrapInit, HostInit, ProcessInit

LEMMA PlanKeepsPhase ==
    ASSUME PhaseInv, Plan
    PROVE  PhaseInv'
<1>1. /\ phase = "plan" /\ plan = <<>> /\ result = NoResult /\ stack = <<>> /\ answer = NoAnswer
      /\ ManifestOK(manifest)
      /\ UNCHANGED <<stack, answer, manifest>>
  BY DEF PhaseInv, Plan, container
<1>2. CASE Accepted(manifest)
  <2>1. plan' = PlanOf(manifest) /\ phase' = "validate" /\ result' = NoResult
    BY <1>1, <1>2 DEF Plan, Accepted, WellFormed, PlanOf
  <2>2. Accepted(manifest)' /\ PlanOf(manifest)' = PlanOf(manifest) /\ ManifestOK(manifest)'
    BY <1>1, <1>2
  <2> QED BY <1>1, <2>1, <2>2 DEF PhaseInv, Pipeline
<1>3. CASE ~Accepted(manifest)
  <2>1. plan' = <<>> /\ phase' = "done" /\ result' = Refused
    BY <1>1, <1>3 DEF Plan, Accepted, WellFormed, End, Refused
  <2>2. ~Accepted(manifest)' /\ ManifestOK(manifest)'
    BY <1>1, <1>3
  <2> QED BY <1>1, <2>1, <2>2 DEF PhaseInv, Pipeline
<1> QED BY <1>2, <1>3

\* The actions after the plan leave it alone, and fail in their own ways.
LEMMA LaterKeepsPhase ==
    ASSUME PhaseInv, phase \in Pipeline, UNCHANGED <<manifest, plan>>,
           phase' \in {"create", "register", "preflight", "done"},
           phase' \in {"create", "register", "preflight"} => KeysKnown(plan) /\ result' = NoResult,
           phase' # "preflight" => stack' = <<>> /\ answer' = NoAnswer,
           phase' = "done" => result' # Refused
    PROVE  PhaseInv'
<1>1. Accepted(manifest)' /\ PlanOf(manifest)' = PlanOf(manifest) /\ ManifestOK(manifest)'
      /\ plan' = PlanOf(manifest)'
  BY DEF PhaseInv
<1>2. KeysKnown(plan) => KeysKnown(plan)'
  BY DEF KeysKnown
<1> QED BY <1>1, <1>2 DEF PhaseInv, Pipeline

LEMMA StepKeepsPhase ==
    ASSUME PhaseInv, Next
    PROVE  PhaseInv'
<1>1. ASSUME validate_service_keys
      PROVE  PhaseInv'
  <2>1. phase = "validate" /\ UNCHANGED <<manifest, plan, stack, answer>>
        /\ stack = <<>> /\ answer = NoAnswer /\ result = NoResult
    BY <1>1 DEF validate_service_keys, PhaseInv, container, Pipeline
  <2>2. \/ phase' = "done" /\ result' = Failed("service key validation failed")
        \/ phase' = "create" /\ result' = result /\ KeysKnown(plan)
    BY <1>1 DEF validate_service_keys, End, KeysKnown
  <2>3. Failed("service key validation failed") # Refused
    BY ResultsDiffer
  <2> QED BY <2>1, <2>2, <2>3, LaterKeepsPhase DEF Pipeline
<1>2. ASSUME container_factory
      PROVE  PhaseInv'
  <2> DEFINE e == Failed("container factory failed to produce a candidate container")
  <2>1. phase = "create" /\ UNCHANGED <<manifest, plan, stack, answer>> /\ KeysKnown(plan)
        /\ stack = <<>> /\ answer = NoAnswer /\ result = NoResult
    BY <1>2 DEF container_factory, PhaseInv, container, Pipeline
  <2>2. \/ phase' = "done" /\ result' = e
        \/ phase' = "register" /\ result' = result
    BY <1>2 DEF container_factory, End
  <2>3. e # Refused
    BY ResultsDiffer
  <2> QED BY <2>1, <2>2, <2>3, LaterKeepsPhase DEF Pipeline
<1>3. ASSUME Register \/ RegistrarRaises
      PROVE  PhaseInv'
  <2>1. phase = "register" /\ UNCHANGED <<manifest, plan, stack, answer>> /\ KeysKnown(plan)
        /\ stack = <<>> /\ answer = NoAnswer /\ result = NoResult
    BY <1>3 DEF Register, RegistrarRaises, PhaseInv, container, Pipeline
  <2>2. \/ phase' = "done" /\ result' = Failed("component registration failed")
        \/ phase' \in {"register", "preflight"} /\ result' = result
    BY <1>3, <2>1 DEF Register, RegistrarRaises, End
  <2>3. Failed("component registration failed") # Refused
    BY ResultsDiffer
  <2> QED BY <2>1, <2>2, <2>3, LaterKeepsPhase DEF Pipeline
<1>4. ASSUME Resolving \/ CheckService
      PROVE  PhaseInv'
  <2>1. phase = "preflight" /\ UNCHANGED <<manifest, plan, phase, result>> /\ KeysKnown(plan)
        /\ result = NoResult
    BY <1>4 DEF Resolving, CheckService, PhaseInv, bootstrap, Pipeline
  <2> QED BY <2>1, LaterKeepsPhase DEF Pipeline
<1>5. ASSUME Complete
      PROVE  PhaseInv'
  <2>1. phase = "preflight" /\ UNCHANGED <<manifest, plan, stack, answer>>
        /\ stack = <<>> /\ answer = NoAnswer /\ phase' = "done"
    BY <1>5 DEF Complete, container, End, Idle
  <2>2. result' # Refused
    <3>1. Failed("preflight resolution checks failed") # Refused
      BY ResultsDiffer
    <3> QED BY <1>5, <3>1, ResultsDiffer DEF Complete, End
  <2> QED BY <2>1, <2>2, LaterKeepsPhase DEF Pipeline
<1>6. ASSUME Host \/ Configure
      PROVE  PhaseInv'
  <2>1. phase \in {"host", "process"} /\ UNCHANGED <<manifest, plan, phase, result>>
        /\ (phase = "process" => UNCHANGED <<stack, answer>>)
    BY <1>6 DEF Host, Configure, bootstrap, container
  <2> QED BY <2>1 DEF PhaseInv, Pipeline
<1>7. ASSUME main
      PROVE  PhaseInv'
  <2>1. /\ phase = "process" /\ manifest = NoManifest /\ plan = <<>> /\ result = NoResult
        /\ stack = <<>> /\ answer = NoAnswer /\ UNCHANGED <<plan, result, stack, answer>>
    BY <1>7 DEF main, PhaseInv, container
  <2>2. \/ phase' = "done" /\ manifest' = manifest
        \/ phase' = "plan" /\ manifest' = build_default_manifest
    BY <1>7 DEF main
  <2>3. ManifestOK(manifest)'
    BY <2>1, <2>2, TablesAssumption DEF PhaseInv
  <2> QED BY <2>1, <2>2, <2>3 DEF PhaseInv, Pipeline
<1>8. ASSUME Exit
      PROVE  PhaseInv'
  <2>1. UNCHANGED <<manifest, phase, plan, result, stack, answer>>
    BY <1>8 DEF Exit, bootstrap, container
  <2> QED BY <2>1 DEF PhaseInv, Pipeline
<1> QED BY <1>1, <1>2, <1>3, <1>4, <1>5, <1>6, <1>7, <1>8, PlanKeepsPhase
       DEF Next, BootstrapNext

\* The components registered so far are the first of the plan.
BuildInv ==
    /\ registered \in Seq(KNOWN_COMPONENT_IDS) /\ Len(registered) <= Len(plan)
    /\ \A i \in 1..Len(registered) : registered[i] = plan[i].component_id
    /\ phase \notin {"register", "preflight", "done"} => registered = <<>>
    /\ phase = "preflight" => Len(registered) = Len(plan)

\* The services that a plan asks for.
Asks(p) == UNION {{SAFE_SERVICE_KEYS[k] : k \in ToSet(p[i].required_service_keys)} : i \in DOMAIN p}
ServicesOf(p) ==
    [i \in DOMAIN p |-> [j \in DOMAIN p[i].required_service_keys |->
                             SAFE_SERVICE_KEYS[p[i].required_service_keys[j]]]]

LEMMA ServicesAre ==
    ASSUME PhaseInv, phase \in {"register", "preflight"}
    PROVE  /\ FlattenSeq(ServicesOf(plan)) \in Seq(STRING)
           /\ ToSet(FlattenSeq(ServicesOf(plan))) = Asks(plan)
<1>0. PICK o : o = TopologicalOrder(manifest)
  OBVIOUS
<1>1. /\ Len(o) \in Nat /\ DOMAIN plan = 1..Len(o)
      /\ \A i \in 1..Len(o) : plan[i].required_service_keys \in Seq(STRING)
  <2>1. Accepted(manifest) /\ plan = PlanOf(manifest)
    BY DEF PhaseInv, Pipeline
  <2> QED BY <1>0, <2>1, PlanIs
<1>2. KeysKnown(plan)
  BY DEF PhaseInv
<1> DEFINE N == Len(o)
           q == ServicesOf(plan)
<1>3. ASSUME NEW i \in 1..N
      PROVE  /\ q[i] \in Seq(STRING)
             /\ ToSet(q[i]) = {SAFE_SERVICE_KEYS[k] : k \in ToSet(plan[i].required_service_keys)}
  <2> DEFINE r == plan[i].required_service_keys
  <2>1. /\ q[i] = [j \in DOMAIN r |-> SAFE_SERVICE_KEYS[r[j]]] /\ r \in Seq(STRING)
        /\ ToSet(r) \subseteq DOMAIN SAFE_SERVICE_KEYS
    BY <1>1, <1>2 DEF ServicesOf, KeysKnown
  <2>2. \A k \in DOMAIN SAFE_SERVICE_KEYS : SAFE_SERVICE_KEYS[k] \in STRING
    <3>1. SAFE_SERVICE_KEYS \in [DOMAIN SAFE_SERVICE_KEYS -> STRING]
      BY TablesAssumption
    <3> HIDE DEF SAFE_SERVICE_KEYS
    <3> QED BY <3>1
  <2> HIDE DEF r, q, SAFE_SERVICE_KEYS
  <2>3. DOMAIN r = 1..Len(r) /\ Len(r) \in Nat
    BY <2>1
  <2>4. \A j \in 1..Len(r) : r[j] \in DOMAIN SAFE_SERVICE_KEYS
    BY <2>1, <2>3 DEF ToSet
  <2>5. q[i] \in Seq(STRING) /\ DOMAIN q[i] = 1..Len(r)
    BY <2>1, <2>2, <2>3, <2>4
  <2>6. ToSet(q[i]) = {SAFE_SERVICE_KEYS[k] : k \in ToSet(r)}
    BY <2>1, <2>3, <2>5 DEF ToSet
  <2> QED BY <2>5, <2>6 DEF r
<1>4. q \in [1..N -> Seq(STRING)]
  BY <1>1, <1>3 DEF ServicesOf
<1>5. UNION {ToSet(q[i]) : i \in 1..N} = Asks(plan)
  <2> DEFINE A(i) == {SAFE_SERVICE_KEYS[k] : k \in ToSet(plan[i].required_service_keys)}
  <2>1. \A i \in 1..N : ToSet(q[i]) = A(i)
    BY <1>3
  <2>2. Asks(plan) = UNION {A(i) : i \in 1..N}
    BY <1>1 DEF Asks
  <2> HIDE DEF A, q, N
  <2> QED BY <2>1, <2>2
<1> HIDE DEF q, N
<1>6. N \in Nat
  BY <1>1 DEF N
<1>7. FlattenSeq(q) \in Seq(STRING) /\ ToSet(FlattenSeq(q)) = UNION {ToSet(q[i]) : i \in 1..N}
  BY <1>4, <1>6, FlattenIs
<1> QED BY <1>5, <1>7 DEF q

\* The next component is a known one, and its registrar is well-formed.
LEMMA NextRegistrar ==
    ASSUME PhaseInv, BuildInv, phase = "register", Len(registered) < Len(plan),
           NEW id, id = plan[Len(registered) + 1].component_id
    PROVE  id \in KNOWN_COMPONENT_IDS /\ StandsAlone(COMPONENT_REGISTRARS[id])
<1>0. PICK o : o = TopologicalOrder(manifest)
  OBVIOUS
<1>1. /\ Len(o) \in Nat /\ DOMAIN plan = 1..Len(o) /\ Len(plan) = Len(o)
      /\ \A i \in 1..Len(o) : plan[i].component_id = o[i] /\ o[i] \in KNOWN_COMPONENT_IDS
  <2>1. Accepted(manifest) /\ plan = PlanOf(manifest)
    BY DEF PhaseInv, Pipeline
  <2> QED BY <1>0, <2>1, PlanIs
<1>2. Len(registered) + 1 \in 1..Len(o)
  BY <1>1 DEF BuildInv
<1> QED BY <1>1, <1>2, TablesAssumption

LEMMA RegisterKeepsBuild ==
    ASSUME PhaseInv, BuildInv, Register
    PROVE  BuildInv'
<1>1. phase = "register" /\ UNCHANGED plan /\ Len(registered) \in Nat
  BY DEF Register, BuildInv
<1>2. CASE Len(registered) < Len(plan)
  <2>1. PICK id : id = plan[Len(registered) + 1].component_id
    OBVIOUS
  <2>2. id \in KNOWN_COMPONENT_IDS
    BY <1>1, <1>2, <2>1, NextRegistrar
  <2>3. registered' = Append(registered, id) /\ phase' = phase
    BY <1>2, <2>1 DEF Register
  <2> HIDE DEF KNOWN_COMPONENT_IDS
  <2>4. /\ registered' \in Seq(KNOWN_COMPONENT_IDS) /\ Len(registered') = Len(registered) + 1
        /\ \A i \in 1..Len(registered) : registered'[i] = registered[i]
        /\ registered'[Len(registered) + 1] = id
    BY <2>2, <2>3, AppendProperties DEF BuildInv
  <2>5. Len(plan) \in Nat
    <3>1. plan = PlanOf(manifest) /\ Accepted(manifest)
      BY <1>1 DEF PhaseInv, Pipeline
    <3> QED BY <3>1, PlanIs
  <2> QED BY <1>1, <1>2, <2>1, <2>3, <2>4, <2>5 DEF BuildInv
<1>3. CASE ~(Len(registered) < Len(plan))
  <2>1. UNCHANGED registered /\ phase' = "preflight"
    BY <1>3 DEF Register
  <2>2. Len(plan) \in Nat
    <3>1. plan = PlanOf(manifest) /\ Accepted(manifest)
      BY <1>1 DEF PhaseInv, Pipeline
    <3> QED BY <3>1, PlanIs
  <2> QED BY <1>1, <1>3, <2>1, <2>2 DEF BuildInv
<1> QED BY <1>2, <1>3

LEMMA StepKeepsBuild ==
    ASSUME PhaseInv, BuildInv, Next
    PROVE  BuildInv'
<1>1. ASSUME Plan
      PROVE  BuildInv'
  <2>1. registered = <<>> /\ UNCHANGED registered /\ phase' \in {"validate", "done"}
    BY <1>1 DEF Plan, BuildInv, End
  <2>2. registered \in Seq(KNOWN_COMPONENT_IDS) /\ Len(registered) = 0
    BY <2>1 DEF BuildInv
  <2>3. 0 <= Len(plan')
    <3>1. plan' = <<>> \/ (Accepted(manifest)' /\ plan' = PlanOf(manifest)')
      BY <2>1, PlanKeepsPhase, <1>1 DEF PhaseInv, Pipeline
    <3>2. \A m, p : Accepted(m) /\ p = PlanOf(m) => Len(p) \in Nat
      BY PlanIs
    <3>3. \A m : m = manifest' => /\ Accepted(manifest)' <=> Accepted(m)
                              /\ PlanOf(manifest)' = PlanOf(m)
      OBVIOUS
    <3>4. Len(plan') \in Nat
      BY <3>1, <3>2, <3>3
    <3> QED BY <3>4
  <2> QED BY <2>1, <2>2, <2>3 DEF BuildInv
<1>2. ASSUME validate_service_keys \/ container_factory \/ RegistrarRaises \/ Resolving
             \/ CheckService \/ Complete \/ Host \/ Configure \/ main \/ Exit
      PROVE  BuildInv'
  <2>1. UNCHANGED <<registered, plan>> /\ (phase' \in {phase, "done"} \/ registered = <<>>)
    BY <1>2 DEF validate_service_keys, container_factory, RegistrarRaises, Resolving, CheckService,
           Complete, Host, Configure, main, Exit, bootstrap, BuildInv, End
  <2>2. phase' # "preflight" \/ phase' = phase
    BY <1>2 DEF validate_service_keys, container_factory, RegistrarRaises, Resolving, CheckService,
           Complete, Host, Configure, main, Exit, bootstrap, End
  <2> QED BY <2>1, <2>2 DEF BuildInv
<1> QED BY <1>1, <1>2, RegisterKeepsBuild DEF Next, BootstrapNext

LEMMA StepKeepsContainer ==
    ASSUME ContainerInv, PhaseInv, BuildInv, Next
    PROVE  ContainerInv'
<1>1. ASSUME UNCHANGED container
      PROVE  ContainerInv'
  BY <1>1 DEF ContainerInv, RegistryOK, ProviderOK, Frames, FrameOK, Consumed, Waiting, Awaited,
              KeysOf, AnswerOK, container
<1>2. ASSUME Register
      PROVE  ContainerInv'
  <2>1. phase = "register" /\ stack = <<>> /\ answer = NoAnswer
        /\ UNCHANGED <<resolving, stack, answer>>
    BY <1>2 DEF Register, PhaseInv
  <2>2. CASE Len(registered) < Len(plan)
    <3>1. PICK id : id = plan[Len(registered) + 1].component_id
      OBVIOUS
    <3>2. RegistrarOK(COMPONENT_REGISTRARS[id])
      BY <2>1, <2>2, <3>1, NextRegistrar DEF StandsAlone
    <3>3. RegistrarOK(WithBus(COMPONENT_REGISTRARS[id]))
      <4> HIDE DEF COMPONENT_REGISTRARS
      <4> QED BY <3>2, WithBusIs
    <3>4. register(WithBus(COMPONENT_REGISTRARS[id])) /\ wanted' = wanted
      BY <1>2, <2>2, <3>1 DEF Register
    <3>5. wanted' \in Seq(STRING)
      BY <3>4 DEF ContainerInv, AnswerOK
    <3>6. \A new : new = WithBus(COMPONENT_REGISTRARS[id]) => ContainerInv'
      <4> HIDE DEF COMPONENT_REGISTRARS, WithBus
      <4> QED BY <2>1, <3>3, <3>4, <3>5, RegisteredIs
    <3> QED BY <3>6
  <2>3. CASE ~(Len(registered) < Len(plan))
    <3>1. wanted' = FlattenSeq(ServicesOf(plan)) /\ UNCHANGED <<registrations, singletons, made>>
      BY <1>2, <2>3 DEF Register, ServicesOf
    <3>2. wanted' \in Seq(STRING)
      BY <2>1, <3>1, ServicesAre
    <3>3. RegistryOK'
      BY <3>1 DEF ContainerInv, RegistryOK, ProviderOK
    <3>4. Frames(stack)' /\ resolving' = KeysOf(stack)'
      BY <2>1, <3>1 DEF ContainerInv, Frames, FrameOK, Consumed, Waiting, Awaited, KeysOf
    <3>5. AnswerOK'
      BY <2>1, <3>2 DEF ContainerInv, AnswerOK, NoAnswer
    <3> QED BY <3>3, <3>4, <3>5 DEF ContainerInv
  <2> QED BY <2>2, <2>3
<1>3. ASSUME CheckService
      PROVE  ContainerInv'
  <2>1. /\ stack = <<>> /\ answer # NoAnswer /\ answer' = NoAnswer /\ wanted' = Tail(wanted)
        /\ UNCHANGED <<registrations, singletons, resolving, stack, made>>
    BY <1>3 DEF CheckService
  <2> QED BY <2>1, EndedIs
<1>4. ASSUME Plan \/ validate_service_keys \/ container_factory \/ RegistrarRaises
             \/ Complete \/ Configure \/ main \/ Exit
      PROVE  UNCHANGED container
  BY <1>4 DEF Plan, validate_service_keys, container_factory, RegistrarRaises, Complete,
              Configure, main, Exit
<1> QED BY <1>1, <1>2, <1>3, <1>4, HostStep, ResolveStepIs
       DEF Next, BootstrapNext, Resolving, Host

\* Initially, and in every step that changes nothing.
LEMMA PipelineStarts == Init => ContainerInv /\ PhaseInv /\ BuildInv
<1>1. Init => ContainerInv
  BY ContainerStarts DEF Init, BootstrapInit, HostInit, ProcessInit, Fresh
<1>2. Init => registered = <<>> /\ plan = <<>> /\ phase \in {"plan", "host", "process"}
  BY DEF Init, BootstrapInit, HostInit, ProcessInit, Fresh
<1>3. <<>> \in Seq(KNOWN_COMPONENT_IDS) /\ Len(<<>>) = 0
  OBVIOUS
<1>4. Init => BuildInv
  BY <1>2, <1>3 DEF BuildInv
<1> QED BY <1>1, <1>4, PhaseStarts

PipelineInv == ContainerInv /\ PhaseInv /\ BuildInv

LEMMA PipelineKept == PipelineInv /\ [Next]_vars => PipelineInv'
<1> SUFFICES ASSUME PipelineInv, [Next]_vars PROVE PipelineInv'
  OBVIOUS
<1>1. CASE Next
  BY <1>1, StepKeepsContainer, StepKeepsPhase, StepKeepsBuild DEF PipelineInv
<1>2. CASE UNCHANGED vars
  <2>1. /\ UNCHANGED <<registrations, singletons, resolving, stack, answer, made, wanted>>
        /\ UNCHANGED <<manifest, phase, plan, registered, result>>
    BY <1>2 DEF vars, container, bootstrap
  <2>2. ContainerInv'
    BY <2>1 DEF PipelineInv, ContainerInv, RegistryOK, ProviderOK, Frames, FrameOK, Consumed,
                Waiting, Awaited, KeysOf, AnswerOK
  <2>3. PhaseInv'
    BY <2>1 DEF PipelineInv, PhaseInv, Pipeline, KeysKnown
  <2>4. BuildInv'
    BY <2>1 DEF PipelineInv, BuildInv
  <2> QED BY <2>2, <2>3, <2>4 DEF PipelineInv
<1> QED BY <1>1, <1>2

THEOREM PipelineSafe == Spec => []PipelineInv
<1>1. Init => PipelineInv
  BY PipelineStarts DEF PipelineInv
<1> QED BY <1>1, PipelineKept, PTL DEF Spec

\* What the container has cached for a key was built by the provider that is
\* registered for it now (Container's CachedIsCurrent).
THEOREM CacheCurrent == Spec => []CachedIsCurrent
<1>1. ASSUME PipelineInv
      PROVE  CachedIsCurrent
  <2>1. RegistryOK /\ resolving = KeysOf(stack) /\ Frames(stack)
    BY <1>1 DEF PipelineInv, ContainerInv
  <2>2. DOMAIN made = 1..Len(made)
    BY <2>1, SeqIs DEF RegistryOK
  <2>3. singletons \in [DOMAIN singletons -> DOMAIN made]
    BY <2>1, <2>2 DEF RegistryOK
  <2>4. DOMAIN singletons \subseteq DOMAIN registrations
    BY <2>1 DEF RegistryOK
  <2>5. resolving \subseteq DOMAIN registrations
    <3>1. \A i \in 1..Len(stack) : stack[i].key \in DOMAIN registrations
      BY <2>1 DEF Frames, FrameOK
    <3> QED BY <2>1, <3>1 DEF KeysOf
  <2>6. \A k \in DOMAIN singletons :
            registrations[k].kind # "alias" => made[singletons[k]].provider = registrations[k]
    BY <2>1 DEF RegistryOK
  <2> QED BY <2>3, <2>4, <2>5, <2>6 DEF CachedIsCurrent, ContainerTypeOK
<1>2. PipelineInv => CachedIsCurrent
  BY <1>1
<1> QED BY <1>2, PipelineSafe, PTL

-----------------------------------------------------------------------------
(* The plans.                                                               *)

\* A plan follows the order of the planner: nothing before what it depends on,
\* and nothing of a higher rank after what it did not wait for.
LEMMA PlanFollows ==
    ASSUME NEW m, Accepted(m), NEW p, p = PlanOf(m), NEW i \in DOMAIN p, NEW j \in DOMAIN p, i < j
    PROVE  /\ p[j].component_id \notin ToSet(p[i].dependencies)
           /\ (\/ ~Numeric(p[j]) \/ ~Numeric(p[i])
               \/ p[j].priority > p[i].priority
               \/ /\ p[j].priority = p[i].priority
                  /\ Rank(p[j].component_id) < Rank(p[i].component_id)) =>
                  \E k \in i..(j - 1) : p[k].component_id \in ToSet(p[j].dependencies)
<1>0. PICK o : o = TopologicalOrder(m)
  OBVIOUS
<1>1. /\ Ordered(m, o) /\ Len(o) \in Nat /\ DOMAIN p = 1..Len(o) /\ WellFormed(m)
      /\ \A k \in 1..Len(o) :
             /\ o[k] \in Identifiers(m) /\ p[k].component_id = o[k]
             /\ p[k].priority = SpecOf(m, o[k]).priority
             /\ p[k].dependencies = SortedDependencies(m, o[k])
  BY <1>0, PlanIs DEF Accepted
<1>2. \A k \in 1..Len(o) : ToSet(p[k].dependencies) = Requires(m, o[k])
  <2> HIDE DEF SortedDependencies, Requires
  <2> QED BY <1>1, SortedIs
<1>3. i \in 1..Len(o) /\ j \in 1..Len(o)
  BY <1>1
<1>4. \A k \in 1..Len(o), l \in 1..Len(o) : o[k] = o[l] => k = l
  BY <1>1 DEF Ordered
<1>5. o[j] \notin Requires(m, o[i])
  <2>1. Requires(m, o[i]) \subseteq Among(o, i - 1)
    BY <1>1, <1>3 DEF Ordered
  <2>2. \A k \in 1..(i - 1) : o[k] # o[j]
    BY <1>1, <1>3, <1>4
  <2> QED BY <2>1, <2>2 DEF Among
<1>6. ASSUME Ahead(m, o[j], o[i]) \/ {o[i], o[j]} \ Numbered(m) # {}
      PROVE  \E k \in i..(j - 1) : o[k] \in Requires(m, o[j])
  <2> SUFFICES ASSUME \A k \in i..(j - 1) : o[k] \notin Requires(m, o[j])
               PROVE  FALSE
    OBVIOUS
  <2>1. Requires(m, o[j]) \subseteq Among(o, j - 1)
    BY <1>1, <1>3 DEF Ordered
  <2>2. Requires(m, o[j]) \subseteq Among(o, i - 1)
    <3> SUFFICES ASSUME NEW c \in Requires(m, o[j])
                 PROVE  c \in Among(o, i - 1)
      OBVIOUS
    <3>1. PICK k \in 1..(j - 1) : o[k] = c
      BY <2>1 DEF Among
    <3>2. k \notin i..(j - 1)
      BY <3>1
    <3>3. k \in 1..(i - 1)
      BY <1>1, <1>3, <3>1, <3>2
    <3> QED BY <3>1, <3>3 DEF Among
  <2>3. o[j] \notin Among(o, i)
    <3>1. \A k \in 1..i : k \in 1..Len(o) /\ k # j
      BY <1>1, <1>3
    <3> QED BY <1>3, <1>4, <3>1 DEF Among
  <2>4. Beats(m, o[i], o[j])
    BY <1>1, <1>3, <2>2, <2>3 DEF Ordered
  <2>5. Ahead(m, o[i], o[i]) /\ ~Ahead(m, o[i], o[i])
    <3> HIDE DEF Ahead
    <3>1. o[i] \in Numbered(m) /\ o[j] \in Numbered(m) /\ Ahead(m, o[i], o[j])
      BY <2>4 DEF Beats
    <3>2. Ahead(m, o[j], o[i])
      BY <1>6, <3>1
    <3> QED BY <1>1, <3>1, <3>2, AheadIs
  <2> QED BY <2>5
<1>7. (\/ ~Numeric(p[j]) \/ ~Numeric(p[i])
       \/ p[j].priority > p[i].priority
       \/ /\ p[j].priority = p[i].priority
          /\ Rank(p[j].component_id) < Rank(p[i].component_id)) =>
          Ahead(m, o[j], o[i]) \/ {o[i], o[j]} \ Numbered(m) # {}
  <2> HIDE DEF Rank, SpecOf
  <2>1. /\ ~Numeric(p[j]) => o[j] \notin Numbered(m)
        /\ ~Numeric(p[i]) => o[i] \notin Numbered(m)
    BY <1>1, <1>3 DEF Numbered, Numeric
  <2>2. p[j].priority > p[i].priority => Ahead(m, o[j], o[i])
    BY <1>1, <1>3 DEF Ahead
  <2>3. /\ p[j].priority = p[i].priority
        /\ Rank(p[j].component_id) < Rank(p[i].component_id)
        => Ahead(m, o[j], o[i])
    BY <1>1, <1>3 DEF Ahead
  <2> QED BY <2>1, <2>2, <2>3
<1>8. \A k \in i..(j - 1) : p[k].component_id = o[k]
  <2>1. \A k \in i..(j - 1) : k \in 1..Len(o)
    BY <1>1, <1>3
  <2> QED BY <1>1, <2>1
<1> QED BY <1>1, <1>2, <1>3, <1>5, <1>6, <1>7, <1>8

\* Malformed and cyclic manifests and those with a signaling NaN are refused, any
\* other only for a NaN that the dependencies leave unordered; and a plan lists
\* every component once, after what it depends on and as early as its priority
\* earns (Bootstrap's PlansAreRight).
THEOREM PlansRight == Spec => []PlansAreRight
<1>1. ASSUME PhaseInv, phase \notin {"plan", "host", "process"}
      PROVE  /\ Malformed(manifest) \/ Cyclic \/ Signals => result = Refused
             /\ result = Refused => Malformed(manifest) \/ Cyclic \/ Signals \/ Unordered
             /\ plan # <<>> => /\ Accepted(manifest) /\ plan = PlanOf(manifest)
                               /\ Identifiers(manifest) = {plan[i].component_id : i \in DOMAIN plan}
  <2>1. PICK m : m = manifest
    OBVIOUS
  <2>2. CASE Accepted(m) /\ plan = PlanOf(m) /\ result # Refused
    <3>1. ~Malformed(m) /\ ~Cyclic /\ ~Signals
      BY <2>1, <2>2, AcceptedIs DEF Accepted, WellFormed
    <3>2. Identifiers(m) = {plan[i].component_id : i \in DOMAIN plan}
      <4>1. PICK o : o = TopologicalOrder(m)
        OBVIOUS
      <4>2. /\ Among(o, Len(o)) = Identifiers(m) /\ DOMAIN plan = 1..Len(o)
            /\ \A i \in 1..Len(o) : plan[i].component_id = o[i]
        BY <2>2, <4>1, PlanIs
      <4> QED BY <4>2 DEF Among
    <3> QED BY <2>1, <2>2, <3>1, <3>2
  <2>3. CASE ~Accepted(m) /\ plan = <<>> /\ result = Refused
    <3>1. ManifestOK(m)
      BY <1>1, <2>1 DEF PhaseInv
    <3>2. Malformed(m) \/ Cyclic \/ Signals \/ Unordered
      BY <2>1, <2>3, <3>1, AcceptedIs DEF Accepted, WellFormed
    <3> QED BY <2>1, <2>3, <3>2
  <2>4. CASE m = NoManifest /\ plan = <<>> /\ result = NoResult
    <3>1. ~Malformed(m) /\ ToSet(Ids(m)) = {}
      <4>1. DOMAIN NoManifest.components = {}
        BY NoManifestIs
      <4>2. ToSet(Ids(NoManifest)) = {}
        BY <4>1 DEF Ids, ToSet
      <4> QED BY <2>4, <4>2, NoManifestIs
    <3>2. ~Cyclic /\ ~Signals
      BY <2>1, <3>1 DEF Cyclic, Signals
    <3> QED BY <2>1, <2>4, <3>1, <3>2, ResultsDiffer
  <2>5. phase \in Pipeline \union {"done"} /\ NoResult # Refused
    BY <1>1, ResultsDiffer DEF PhaseInv
  <2> QED BY <1>1, <2>1, <2>2, <2>3, <2>4, <2>5 DEF PhaseInv
<1>2. PhaseInv => PlansAreRight
  <2> SUFFICES ASSUME PhaseInv, phase \notin {"plan", "host", "process"}
               PROVE  PlansAreRight
    BY DEF PlansAreRight
  <2>1. \A i, j \in DOMAIN plan : i < j =>
            /\ plan[j].component_id \notin ToSet(plan[i].dependencies)
            /\ (\/ ~Numeric(plan[j]) \/ ~Numeric(plan[i])
                \/ plan[j].priority > plan[i].priority
                \/ /\ plan[j].priority = plan[i].priority
                   /\ Rank(plan[j].component_id) < Rank(plan[i].component_id)) =>
                   \E k \in i..(j - 1) : plan[k].component_id \in ToSet(plan[j].dependencies)
    <3>1. CASE plan = <<>>
      <4>1. DOMAIN plan = {}
        BY <3>1
      <4> QED BY <4>1
    <3>2. CASE plan # <<>>
      BY <1>1, <3>2, PlanFollows
    <3> QED BY <3>1, <3>2
  <2> QED BY <1>1, <2>1 DEF PlansAreRight, Refused, Identifiers
<1>3. PipelineInv => PlansAreRight
  BY <1>2 DEF PipelineInv
<1> QED BY <1>3, PipelineSafe, PTL

-----------------------------------------------------------------------------
(* Circular dependencies.                                                   *)

\* What a key leads to, and the property's claim for the key that is wanted.
LeadsTo(key) ==
    Reached({l \in DOMAIN registrations : DependsOn(key, l)}, Cardinality(DOMAIN registrations))
HeadIsCyclic ==
    \E k \in {Head(wanted)} \union LeadsTo(Head(wanted)) : k \in LeadsTo(k)

\* What holds all that a key leads to.
ClosedFrom(key, C) ==
    /\ \A l \in DOMAIN registrations : DependsOn(key, l) => l \in C
    /\ \A k \in C, l \in DOMAIN registrations : DependsOn(k, l) => l \in C

LEMMA LeadsToIs ==
    ASSUME IsFiniteSet(DOMAIN registrations), NEW key
    PROVE  ClosedFrom(key, LeadsTo(key)) /\ \A C : ClosedFrom(key, C) => LeadsTo(key) \subseteq C
<1> DEFINE S == DOMAIN registrations
           E == {e \in S \X S : DependsOn(e[1], e[2])}
           A == {l \in S : DependsOn(key, l)}
           N == Cardinality(S)
           Level(L) == [i \in 0..N |->
                           IF i = 0 THEN A
                           ELSE LET before == L[i - 1]
                                IN  before \union {l \in S : \E k \in before : DependsOn(k, l)}]
<1>1. IsFiniteSet(S) /\ N \in Nat /\ Cardinality(S) <= N
  <2> HIDE DEF S
  <2>1. IsFiniteSet(S)
    BY DEF S
  <2> QED BY <2>1, FS_CardinalityType
<1>2. A \in SUBSET S
  OBVIOUS
<1>3. \A X : Successors(S, E, X) = {l \in S : \E k \in X : DependsOn(k, l)}
  <2>1. \A k, l : <<k, l>> \in E <=> k \in S /\ l \in S /\ DependsOn(k, l)
    <3> HIDE DEF S
    <3> QED OBVIOUS
  <2>2. \A k, l : DependsOn(k, l) => k \in S
    BY DEF DependsOn
  <2> HIDE DEF E, S
  <2> QED BY <2>1, <2>2 DEF Successors
<1>4. LeadsTo(key) = (CHOOSE L : L = Level(L))[N]
  BY DEF LeadsTo, Reached
<1> HIDE DEF S, E, N, A
<1>5. \A L : Grows(S, E, A, N, L) <=> L = Level(L)
  BY <1>3 DEF Grows
<1>6. \E L : L = Level(L)
  <2>1. \E L : Grows(S, E, A, N, L)
    BY <1>1, <1>2, GrowthExists
  <2> HIDE DEF Level
  <2> QED BY <1>5, <2>1
<1> DEFINE U == CHOOSE L : L = Level(L)
<1>7. U = Level(U)
  <2> HIDE DEF Level
  <2> QED BY <1>6
<1> HIDE DEF U, Level
<1>8. Grows(S, E, A, N, U)
  BY <1>5, <1>7
<1>9. /\ U[N] \subseteq S /\ A \subseteq U[N] /\ Successors(S, E, U[N]) \subseteq U[N]
      /\ \A C : A \subseteq C /\ Successors(S, E, C) \subseteq C => U[N] \subseteq C
  BY <1>1, <1>2, <1>8, GrowthIs
<1>10. LeadsTo(key) = U[N]
  BY <1>4 DEF U
<1>11. \A C : ClosedFrom(key, C) <=> A \subseteq C /\ Successors(S, E, C) \subseteq C
  BY <1>3 DEF ClosedFrom, A, S
<1> QED BY <1>9, <1>10, <1>11

\* A provider that waits depends on what it awaits.
LEMMA AwaitedEdge ==
    ASSUME RegistryOK, NEW f, FrameOK(f), Waiting(f)
    PROVE  DependsOn(f.key, Awaited(f))
<1>1. f.key \in DOMAIN registrations /\ f.provider = registrations[f.key]
  BY DEF FrameOK
<1>2. f.provider.needs \in Seq([key : STRING, optional : BOOLEAN])
  BY <1>1 DEF RegistryOK, ProviderOK
<1>3. Consumed(f) \in 1..Len(f.provider.needs)
  <2>1. Len(f.todo) \in Nat
    BY SeqIs DEF FrameOK
  <2> QED BY <1>2, <2>1 DEF FrameOK, Waiting, Consumed
<1>4. f.provider.needs[Consumed(f)] \in ToSet(f.provider.needs)
  BY <1>2, <1>3 DEF ToSet
<1> QED BY <1>1, <1>4 DEF DependsOn, Awaited

\* On the stack each key leads to those above it.
LEMMA ChainIs ==
    ASSUME RegistryOK, NEW s, Frames(s), NEW i \in 1..Len(s), NEW j \in 1..Len(s), i < j
    PROVE  s[j].key \in LeadsTo(s[i].key)
<1>1. Len(s) \in Nat
  BY SeqIs DEF Frames
<1>2. \A n \in 1..Len(s) : s[n].key \in DOMAIN registrations
  BY DEF Frames, FrameOK
<1>3. ASSUME NEW n \in 1..(Len(s) - 1)
      PROVE  DependsOn(s[n].key, s[n + 1].key)
  <2>1. FrameOK(s[n]) /\ Waiting(s[n]) /\ Awaited(s[n]) = s[n + 1].key
    BY <1>1 DEF Frames
  <2> HIDE DEF FrameOK, Waiting, Awaited
  <2>2. DependsOn(s[n].key, Awaited(s[n]))
    BY <2>1, AwaitedEdge
  <2> QED BY <2>1, <2>2
<1>4. IsFiniteSet(DOMAIN registrations)
  BY DEF RegistryOK
<1> DEFINE N == Len(s) - i
           T == {n \in 0..N : n = 0 \/ s[i + n].key \in LeadsTo(s[i].key)}
<1>5. N \in Nat /\ 0 \in T
  BY <1>1
<1>6. ASSUME NEW n \in 1..N, n - 1 \in T
      PROVE  n \in T
  <2>1. /\ i + (n - 1) \in 1..(Len(s) - 1) /\ i + n \in 1..Len(s)
        /\ (i + (n - 1)) + 1 = i + n
    BY <1>1
  <2>2. DependsOn(s[i + (n - 1)].key, s[i + n].key)
    BY <1>3, <2>1
  <2>3. s[i + n].key \in DOMAIN registrations
    BY <1>2, <2>1
  <2>4. CASE n = 1
    <3>1. i + (n - 1) = i
      BY <2>4
    <3> QED BY <1>4, <2>2, <2>3, <3>1, LeadsToIs DEF ClosedFrom
  <2>5. CASE n # 1
    <3>1. s[i + (n - 1)].key \in LeadsTo(s[i].key)
      BY <1>6, <2>5
    <3> QED BY <1>4, <2>2, <2>3, <3>1, LeadsToIs DEF ClosedFrom
  <2> QED BY <2>4, <2>5
<1>7. 0..N \subseteq T
  <2> HIDE DEF T, N
  <2> QED BY <1>5, <1>6, CountedInduction
<1>8. j - i \in 0..N /\ j - i # 0 /\ i + (j - i) = j
  BY <1>1
<1> QED BY <1>7, <1>8

\* The key that comes back is on a cycle, which the wanted key leads to.
LEMMA CycleFound ==
    ASSUME RegistryOK, NEW s, Frames(s), s # <<>>, Waiting(Last(s)),
           NEW key \in KeysOf(s), Awaited(Last(s)) = key
    PROVE  HeadIsCyclic
<1>1. Len(s) \in Nat /\ Len(s) > 0 /\ Last(s) = s[Len(s)]
  BY SeqIs DEF Frames, Last
<1>2. PICK i \in 1..Len(s) : s[i].key = key
  BY DEF KeysOf
<1>3. Len(s) \in 1..Len(s) /\ 1 \in 1..Len(s) /\ s[1].key = Head(wanted)
  BY <1>1 DEF Frames
<1>4. key \in DOMAIN registrations /\ IsFiniteSet(DOMAIN registrations)
  BY <1>2 DEF Frames, FrameOK, RegistryOK
<1>5. DependsOn(s[Len(s)].key, key)
  <2>1. FrameOK(s[Len(s)])
    BY <1>3 DEF Frames
  <2> HIDE DEF FrameOK, Waiting, Awaited
  <2> QED BY <1>1, <2>1, AwaitedEdge
<1>6. key \in LeadsTo(key)
  <2>1. CASE i = Len(s)
    BY <1>2, <1>4, <1>5, <2>1, LeadsToIs DEF ClosedFrom
  <2>2. CASE i # Len(s)
    <3>1. s[Len(s)].key \in LeadsTo(s[i].key)
      BY <1>1, <1>3, <2>2, ChainIs
    <3> QED BY <1>2, <1>4, <1>5, <3>1, LeadsToIs DEF ClosedFrom
  <2> QED BY <2>1, <2>2
<1>7. key \in {Head(wanted)} \union LeadsTo(Head(wanted))
  <2>1. CASE i = 1
    BY <1>2, <1>3, <2>1
  <2>2. CASE i # 1
    BY <1>1, <1>2, <1>3, <2>2, ChainIs
  <2> QED BY <2>1, <2>2
<1> QED BY <1>6, <1>7 DEF HeadIsCyclic

\* The provider on top asks for a dependency.
LEMMA AskingIs ==
    ASSUME ContainerInv, NextNeed, NEW f, f = Last(stack), NEW g, g = Asked(f),
           NEW rest, rest = Topped(stack, g), NEW key, key = Head(f.todo).key
    PROVE  /\ stack # <<>> /\ answer = NoAnswer /\ RegistryOK
           /\ UNCHANGED <<registrations, singletons, made, wanted>>
           /\ FrameOK(f) /\ FrameOK(g) /\ g.provider = f.provider /\ g.got = f.got
           /\ Consumed(g) = Consumed(f) + 1 /\ Consumed(g) \in 1..Len(f.provider.needs)
           /\ key = f.provider.needs[Consumed(g)].key
           /\ Head(f.todo) = f.provider.needs[Consumed(g)]
           /\ Waiting(g) /\ Awaited(g) = key /\ g.key = f.key
           /\ Frames(rest) /\ rest # <<>> /\ KeysOf(rest) = KeysOf(stack) /\ Last(rest) = g
           /\ Len(rest) = Len(stack) /\ \A i \in 1..(Len(stack) - 1) : rest[i] = stack[i]
           /\ rest[Len(rest)] = g
           /\ resolving = KeysOf(rest)
           /\ \/ /\ Head(f.todo).optional /\ ~has(key)
                 /\ stack' = rest /\ answer' = NoAnswer
              \/ Lookup(key, rest) /\ (Head(f.todo).optional => has(key))
<1>1. /\ stack # <<>> /\ answer = NoAnswer /\ f.todo # <<>>
      /\ UNCHANGED <<registrations, singletons, made, wanted>>
      /\ \/ Head(f.todo).optional /\ ~has(key) /\ stack' = rest /\ UNCHANGED <<resolving, answer>>
         \/ Lookup(key, rest) /\ (Head(f.todo).optional => has(key))
  BY DEF NextNeed, Asked, Topped
<1>2. RegistryOK /\ Frames(stack) /\ resolving = KeysOf(stack) /\ FrameOK(f)
  BY <1>1, TopRemoved DEF ContainerInv
<1>3. /\ FrameOK(g) /\ g.key = f.key /\ g.provider = f.provider /\ g.got = f.got
      /\ Consumed(g) = Consumed(f) + 1 /\ Consumed(g) \in 1..Len(f.provider.needs)
      /\ Waiting(g) /\ Awaited(g) = key
      /\ Head(f.todo) = f.provider.needs[Consumed(g)]
  <2>1. Head(f.todo) = f.todo[1]
    <3>1. IsSeq(f.todo)
      BY <1>2 DEF FrameOK
    <3> QED BY <1>1, <3>1, TailIs
  <2> QED BY <1>1, <1>2, <2>1, AskedIs
<1>4. Frames(rest) /\ rest # <<>> /\ KeysOf(rest) = KeysOf(stack) /\ Last(rest) = g
  BY <1>1, <1>2, <1>3, TopReplaced
<1>5. Len(rest) = Len(stack) /\ \A i \in 1..(Len(stack) - 1) : rest[i] = stack[i]
  <2>1. IsSeq(stack)
    BY <1>2 DEF Frames
  <2> QED BY <1>1, <2>1, LastReplaced
<1>6. rest[Len(rest)] = g
  BY <1>4 DEF Last
<1> QED BY <1>1, <1>2, <1>3, <1>4, <1>5, <1>6

\* A circular dependency is reported for a cycle.
CycleInv == (answer.kind = "error" /\ answer.error = "Circular") => HeadIsCyclic

LeastClosed ==
    IsFiniteSet(DOMAIN registrations) =>
        \A key : /\ ClosedFrom(key, LeadsTo(key))
                /\ \A C : ClosedFrom(key, C) => LeadsTo(key) \subseteq C

LEMMA LeastIs == LeastClosed
BY LeadsToIs DEF LeastClosed

LEMMA CycleStays ==
    ASSUME RegistryOK, HeadIsCyclic, UNCHANGED <<registrations, wanted>>
    PROVE  HeadIsCyclic'
<1>1. IsFiniteSet(DOMAIN registrations) /\ IsFiniteSet(DOMAIN registrations)'
  BY DEF RegistryOK
<1>2. \A key, C : ClosedFrom(key, C)' <=> ClosedFrom(key, C)
  BY DEF ClosedFrom, DependsOn
<1>3. LeastClosed
  BY LeastIs
<1>4. LeastClosed'
  BY LeastIs, PTL
<1>5. \A key : LeadsTo(key)' = LeadsTo(key)
  <2> TAKE key
  <2>1. PICK C : C = LeadsTo(key)
    OBVIOUS
  <2>2. PICK D : D = LeadsTo(key)'
    OBVIOUS
  <2>3. C \subseteq D /\ D \subseteq C
    BY <1>1, <1>2, <1>3, <1>4, <2>1, <2>2 DEF LeastClosed
  <2> QED BY <2>1, <2>2, <2>3
<1> QED BY <1>5 DEF HeadIsCyclic

LEMMA LookupCycle ==
    ASSUME RegistryOK, NEW below, Frames(below), resolving = KeysOf(below), answer = NoAnswer,
           NEW key, below # <<>> => Waiting(Last(below)) /\ Awaited(Last(below)) = key,
           Lookup(key, below), UNCHANGED <<registrations, wanted>>
    PROVE  CycleInv'
<1>1. CASE key \in resolving /\ key \notin DOMAIN singletons /\ contains(key)
  <2>1. below # <<>>
    <3>1. KeysOf(<<>>) = {}
      BY EmptyStack
    <3> QED BY <1>1, <3>1
  <2>2. HeadIsCyclic
    BY <1>1, <2>1, CycleFound
  <2>3. HeadIsCyclic'
    BY <2>2, CycleStays
  <2> QED BY <2>3 DEF CycleInv
<1>2. CASE ~(key \in resolving /\ key \notin DOMAIN singletons /\ contains(key))
  <2>1. answer' \in {Value(singletons[key]), Error("KeyError"), NoAnswer}
    BY <1>2 DEF Lookup
  <2>2. ~(answer'.kind = "error" /\ answer'.error = "Circular")
    BY <2>1 DEF Value, Error, NoAnswer
  <2> QED BY <2>2 DEF CycleInv
<1> QED BY <1>1, <1>2

LEMMA ResolveCycle ==
    ASSUME ContainerInv, CycleInv, ResolveStep
    PROVE  CycleInv'
<1>1. ASSUME Resolve
      PROVE  CycleInv'
  <2>1. /\ RegistryOK /\ resolving = KeysOf(<<>>) /\ answer = NoAnswer
        /\ Lookup(Head(wanted), <<>>) /\ UNCHANGED <<registrations, wanted>>
    BY <1>1 DEF ContainerInv, Resolve, Idle
  <2>2. PICK below : below = <<>>
    OBVIOUS
  <2>3. Frames(below) /\ resolving = KeysOf(below) /\ Lookup(Head(wanted), below)
    BY <2>1, <2>2, EmptyStack
  <2> QED BY <2>1, <2>2, <2>3, LookupCycle
<1>2. ASSUME NextNeed
      PROVE  CycleInv'
  <2>1. PICK f, g, rest, key : /\ f = Last(stack) /\ g = Asked(f) /\ rest = Topped(stack, g)
                               /\ key = Head(f.todo).key
    OBVIOUS
  <2>2. /\ RegistryOK /\ Frames(rest) /\ resolving = KeysOf(rest) /\ answer = NoAnswer
        /\ rest # <<>> /\ Waiting(Last(rest)) /\ Awaited(Last(rest)) = key
        /\ UNCHANGED <<registrations, wanted>>
        /\ (answer' = NoAnswer \/ Lookup(key, rest))
    BY <1>2, <2>1, AskingIs
  <2>3. CASE answer' = NoAnswer
    BY <2>3 DEF CycleInv, NoAnswer
  <2>4. CASE Lookup(key, rest)
    BY <2>2, <2>4, LookupCycle
  <2> QED BY <2>2, <2>3, <2>4
<1>3. ASSUME Injected
      PROVE  CycleInv'
  BY <1>3 DEF Injected, CycleInv, NoAnswer
<1>4. ASSUME Provided
      PROVE  CycleInv'
  <2>1. answer' = Error("Raised") \/ \E object : answer' = Value(object)
    BY <1>4 DEF Provided
  <2> QED BY <2>1 DEF CycleInv, Error, Value
<1>5. ASSUME Unwind
      PROVE  CycleInv'
  <2>1. UNCHANGED <<registrations, wanted, answer>>
    BY <1>5 DEF Unwind
  <2> QED BY <2>1, CycleStays DEF CycleInv, ContainerInv
<1> QED BY <1>1, <1>2, <1>3, <1>4, <1>5 DEF ResolveStep

LEMMA CycleKept ==
    ASSUME PipelineInv, CycleInv, [Next]_vars
    PROVE  CycleInv'
<1>1. ASSUME ResolveStep
      PROVE  CycleInv'
  BY <1>1, ResolveCycle DEF PipelineInv
<1>2. ASSUME answer' = NoAnswer
      PROVE  CycleInv'
  BY <1>2 DEF CycleInv, NoAnswer
<1>3. ASSUME UNCHANGED container
      PROVE  CycleInv'
  BY <1>3, CycleStays DEF container, CycleInv, PipelineInv, ContainerInv
<1>4. ASSUME Register
      PROVE  answer' = NoAnswer
  BY <1>4 DEF Register, PipelineInv, PhaseInv
<1>5. ASSUME CheckService
      PROVE  answer' = NoAnswer
  BY <1>5 DEF CheckService
<1>6. ASSUME Plan \/ validate_service_keys \/ container_factory \/ RegistrarRaises
             \/ Complete \/ Configure \/ main \/ Exit
      PROVE  UNCHANGED container
  BY <1>6 DEF Plan, validate_service_keys, container_factory, RegistrarRaises, Complete,
              Configure, main, Exit
<1>7. ASSUME ContainerNext, ~ResolveStep
      PROVE  answer' = NoAnswer
  BY <1>7 DEF ContainerNext, Run, reset, Resolved, Idle
<1>8. UNCHANGED vars => UNCHANGED container
  BY DEF vars
<1> QED BY <1>1, <1>2, <1>3, <1>4, <1>5, <1>6, <1>7, <1>8
       DEF Next, BootstrapNext, Resolving, Host

\* A circular dependency is reported only to a program whose key leads to one
\* (Container's CircularOnlyIfCyclic).
THEOREM OnlyCyclesReported == Spec => []CircularOnlyIfCyclic
<1>1. Init => CycleInv
  <2>1. Init => answer = NoAnswer
    BY DEF Init, BootstrapInit, HostInit, ProcessInit, Fresh, ContainerInit
  <2> QED BY <2>1 DEF CycleInv, NoAnswer
<1>2. PipelineInv /\ CycleInv /\ [Next]_vars => CycleInv'
  BY CycleKept
<1>3. CycleInv => CircularOnlyIfCyclic
  BY DEF CycleInv, CircularOnlyIfCyclic, HeadIsCyclic, LeadsTo
<1> QED BY <1>1, <1>2, <1>3, PipelineSafe, PTL DEF Spec

-----------------------------------------------------------------------------
(* The settings.                                                            *)

\* The cached settings are valid, and made of proper variables.
SettingsInv ==
    /\ VariablesOK(environ)
    /\ cached # NotCached =>
           /\ Valid(cached)
           /\ cached.binance.api_key \in Nat /\ cached.binance.api_secret \in Nat
           /\ cached.security.secret_key.placeholder =>
                  cached.security.secret_key = INSECURE_SECRET_KEY

\* main() goes on with settings, and its result shows the view of them.
EntryInv ==
    /\ status \in {"running", "success"} =>
           /\ phase \notin {"host", "process"} /\ cached # NotCached
           /\ view = build_configuration_view(cached) /\ _safe(ConfigurationView)
    /\ result.status = "success" =>
           phase = "done" /\ result.runtime_snapshot.configuration = view
    /\ status = "success" => result.status = "success"

\* Loading a file keeps the variables proper.
LEMMA LoadIs ==
    ASSUME NEW env, VariablesOK(env), NEW file, VariablesOK(file), NEW override \in BOOLEAN
    PROVE  VariablesOK(load_dotenv(env, file, override))
<1> DEFINE x == load_dotenv(env, file, override)
<1>1. \A v \in DOMAIN x : \/ (v \in DOMAIN file /\ x[v] = file[v])
                         \/ (v \in DOMAIN env /\ x[v] = env[v])
  BY DEF load_dotenv
<1> HIDE DEF x
<1>2. VariablesOK(x)
  BY <1>1 DEF VariablesOK
<1> QED BY <1>2 DEF x

LEMMA SettingsAre ==
    ASSUME NEW env, VariablesOK(env), NEW s, s = Settings(env)
    PROVE  /\ s.binance.api_key \in Nat /\ s.binance.api_secret \in Nat
           /\ s.security.secret_key.placeholder => s.security.secret_key = INSECURE_SECRET_KEY
<1>1. s.binance = BinanceSettings(env) /\ s.security = SecuritySettings(env)
  BY DEF Settings
<1>2. /\ s.binance.api_key = (IF <<"BINANCE", "api_key">> \in DOMAIN env
                              THEN env[<<"BINANCE", "api_key">>] ELSE 0)
      /\ s.binance.api_secret = (IF <<"BINANCE", "api_secret">> \in DOMAIN env
                                 THEN env[<<"BINANCE", "api_secret">>] ELSE 0)
  BY <1>1 DEF BinanceSettings, Section
<1>3. s.security.secret_key = (IF <<"SECURITY", "secret_key">> \in DOMAIN env
                               THEN env[<<"SECURITY", "secret_key">>] ELSE INSECURE_SECRET_KEY)
  BY <1>1 DEF SecuritySettings, Section
<1> QED BY <1>2, <1>3 DEF VariablesOK

LEMMA BuildIs ==
    ASSUME SettingsInv, Build
    PROVE  SettingsInv'
<1>1. VariablesOK(load_environment(environ))
  <2> DEFINE base == load_dotenv(environ, BaseFile, FALSE)
             active == active_environment(base)
  <2>1. VariablesOK(base)
    BY LoadIs, VariablesAssumption DEF SettingsInv
  <2> HIDE DEF base
  <2>2. CASE active \in DOMAIN SpecificFiles
    <3>1. VariablesOK(SpecificFiles[active])
      BY <2>2, VariablesAssumption
    <3>2. VariablesOK(load_dotenv(base, SpecificFiles[active], TRUE))
      BY <2>1, <3>1, LoadIs
    <3> QED BY <2>2, <3>2 DEF load_environment, base
  <2>3. CASE active \notin DOMAIN SpecificFiles
    BY <2>1, <2>3 DEF load_environment, base
  <2> QED BY <2>2, <2>3
<1>2. environ' = load_environment(environ)
  BY DEF Build
<1>3. VariablesOK(environ)'
  BY <1>1, <1>2 DEF VariablesOK
<1>4. cached' = NotCached \/ (Valid(Settings(environ')) /\ cached' = Settings(environ'))
  BY DEF Build
<1>5. PICK s : s = Settings(environ')
  OBVIOUS
<1>6. PICK env : env = environ'
  OBVIOUS
<1>7. /\ s.binance.api_key \in Nat /\ s.binance.api_secret \in Nat
      /\ s.security.secret_key.placeholder => s.security.secret_key = INSECURE_SECRET_KEY
  <2>1. VariablesOK(env) /\ s = Settings(env)
    BY <1>1, <1>2, <1>5, <1>6
  <2> QED BY <2>1, SettingsAre
<1>8. cached' # NotCached => cached' = s /\ Valid(s) /\ Valid(cached)'
  <2>1. cached' # NotCached => cached' = s /\ Valid(s)
    BY <1>4, <1>5
  <2>2. \A c : c = cached' => (Valid(c) <=> Valid(cached)')
    OBVIOUS
  <2> QED BY <2>1, <2>2
<1> QED BY <1>3, <1>7, <1>8 DEF SettingsInv

LEMMA SettingsKept ==
    ASSUME SettingsInv, [Next]_vars
    PROVE  SettingsInv'
<1>1. ASSUME UNCHANGED configuration
      PROVE  SettingsInv'
  BY <1>1 DEF SettingsInv, configuration
<1>2. ASSUME NEW a \in Assignments, Assign(a)
      PROVE  SettingsInv'
  <2>1. VariablesOK(load_dotenv(environ, a, TRUE))
    BY LoadIs, VariablesAssumption DEF SettingsInv
  <2>2. environ' = load_dotenv(environ, a, TRUE) /\ cached' = cached
    BY <1>2 DEF Assign
  <2>3. VariablesOK(environ)'
    BY <2>1, <2>2 DEF VariablesOK
  <2> QED BY <2>2, <2>3 DEF SettingsInv
<1>3. ASSUME get_settings \/ reload_settings
      PROVE  SettingsInv'
  BY <1>1, <1>3, BuildIs DEF get_settings, reload_settings
<1>4. ASSUME BootstrapNext \/ Host \/ Exit \/ UNCHANGED vars
      PROVE  UNCHANGED configuration
  BY <1>4 DEF BootstrapNext, Host, Exit, vars, entry
<1> QED BY <1>1, <1>2, <1>3, <1>4 DEF Next, Configure, main

LEMMA EntryKept ==
    ASSUME PipelineInv, EntryInv, [Next]_vars
    PROVE  EntryInv'
<1>1. ASSUME UNCHANGED <<cached, view, status, result, phase>>
      PROVE  EntryInv'
  BY <1>1 DEF EntryInv
<1>2. ASSUME UNCHANGED entry, phase' \notin {"host", "process"},
             result' = result \/ (phase' = "done" /\ result'.status = "failed")
             \/ (phase' = "done" /\ result'.runtime_snapshot.configuration = view),
             phase \notin {"host", "process", "done"}
      PROVE  EntryInv'
  <2>1. UNCHANGED <<cached, view, status>> /\ result.status # "success" /\ status # "success"
    BY <1>2 DEF entry, configuration, EntryInv
  <2> QED BY <1>2, <2>1 DEF EntryInv
<1>3. \A e : Failed(e).status = "failed"
  BY DEF Failed
<1>4. ASSUME BootstrapNext
      PROVE  EntryInv'
  <2>1. phase \in {"plan"} \union Pipeline /\ UNCHANGED entry
    BY <1>4 DEF BootstrapNext, Plan, validate_service_keys, container_factory, Register,
                RegistrarRaises, Resolving, CheckService, Complete, Pipeline
  <2>2. phase' \in {"plan", "done"} \union Pipeline
    BY <1>4 DEF BootstrapNext, Plan, validate_service_keys, container_factory, Register,
                RegistrarRaises, Resolving, CheckService, Complete, Pipeline, End, bootstrap
  <2>3. \/ result' = result
        \/ phase' = "done" /\ result'.status = "failed"
        \/ phase' = "done" /\ result'.runtime_snapshot.configuration = view
    <3>1. Complete => \/ phase' = "done" /\ result'.status = "failed"
                      \/ phase' = "done" /\ result'.runtime_snapshot.configuration = view
      <4> DEFINE snapshot == RuntimeSnapshot(registered, report, view)
                 x == [status |-> "success", plan |-> plan, preflight_report |-> report,
                       runtime_snapshot |-> snapshot,
                       lifecycle_plan |-> LifecyclePlan(registered)]
                 e == Failed("preflight resolution checks failed")
      <4>1. x.runtime_snapshot = snapshot /\ snapshot.configuration = view
        BY DEF RuntimeSnapshot
      <4>2. Complete => phase' = "done" /\ (result' = e \/ result' = x)
        BY DEF Complete, End
      <4> HIDE DEF x, e
      <4>3. e.status = "failed"
        BY <1>3 DEF e
      <4> QED BY <4>1, <4>2, <4>3
    <3>2. Plan \/ validate_service_keys \/ container_factory \/ RegistrarRaises =>
              result' = result \/ (phase' = "done" /\ result'.status = "failed")
      BY <1>3 DEF Plan, validate_service_keys, container_factory, RegistrarRaises, End
    <3>3. Register \/ Resolving \/ CheckService => result' = result
      BY DEF Register, Resolving, CheckService, bootstrap
    <3> QED BY <1>4, <3>1, <3>2, <3>3 DEF BootstrapNext
  <2> QED BY <1>2, <2>1, <2>2, <2>3 DEF Pipeline
<1>5. ASSUME Host \/ UNCHANGED vars
      PROVE  EntryInv'
  <2>1. UNCHANGED <<cached, view, status, result, phase>>
    BY <1>5 DEF Host, vars, bootstrap, entry, configuration
  <2> QED BY <1>1, <2>1
<1>6. ASSUME Configure
      PROVE  EntryInv'
  <2>1. phase = "process" /\ UNCHANGED <<view, status, result, phase>>
    BY <1>6 DEF Configure, bootstrap
  <2> QED BY <2>1 DEF EntryInv
<1>7. ASSUME main
      PROVE  EntryInv'
  <2>1. phase = "process" /\ result' = result /\ result = NoResult
    BY <1>7 DEF main, PipelineInv, PhaseInv
  <2>2. \/ phase' = "done" /\ status' = "failure"
        \/ /\ phase' = "plan" /\ status' = "running" /\ cached' # NotCached
           /\ view' = build_configuration_view(cached') /\ _safe(ConfigurationView)
    BY <1>7 DEF main
  <2>3. result'.status # "success"
    BY <2>1 DEF NoResult
  <2> QED BY <2>2, <2>3 DEF EntryInv
<1>8. ASSUME Exit
      PROVE  EntryInv'
  <2>1. /\ phase = "done" /\ status = "running"
        /\ UNCHANGED <<cached, view, result, phase>>
        /\ status' \in {"success", "failure"}
        /\ status' = "success" => result.status = "success"
    BY <1>8 DEF Exit, bootstrap, configuration
  <2> QED BY <2>1 DEF EntryInv
<1> QED BY <1>4, <1>5, <1>6, <1>7, <1>8 DEF Next

\* However the environment and the calls follow one another, settings that are
\* handed out trade live only in production, with credentials and not on the
\* testnet, and are production settings only without debugging and with a secret
\* of their own; main() succeeds only with such settings, and shows their values
\* and no secret (Bootstrap's ConfigurationIsGuarded).
THEOREM ConfigurationGuarded == Spec => []ConfigurationIsGuarded
<1>1. Init => SettingsInv /\ EntryInv
  <2> SUFFICES ASSUME Init PROVE SettingsInv /\ EntryInv
    OBVIOUS
  <2>1. cached = NotCached /\ (environ = <<>> \/ environ \in Environs)
        /\ result = NoResult /\ status \in {"none", "starting"}
    BY DEF Init, BootstrapInit, HostInit, ProcessInit, NoProcess, ConfigurationInit, Fresh
  <2>2. VariablesOK(<<>>)
    <3>1. DOMAIN <<>> = {}
      OBVIOUS
    <3> QED BY <3>1 DEF VariablesOK
  <2>3. VariablesOK(environ)
    BY <2>1, <2>2, VariablesAssumption
  <2>4. result.status = "none"
    BY <2>1 DEF NoResult
  <2> QED BY <2>1, <2>3, <2>4 DEF SettingsInv, EntryInv
<1>2. SettingsInv /\ [Next]_vars => SettingsInv'
  BY SettingsKept
<1>3. PipelineInv /\ EntryInv /\ [Next]_vars => EntryInv'
  BY EntryKept
<1>4. ASSUME SettingsInv, EntryInv
      PROVE  ConfigurationIsGuarded
  <2>1. ASSUME cached # NotCached
        PROVE  /\ cached.trading.mode = "live" =>
                      /\ cached.environment = "production"
                      /\ cached.binance.api_key > 0 /\ cached.binance.api_secret > 0
                      /\ ~cached.binance.testnet
               /\ cached.environment = "production" =>
                      ~cached.application.debug /\ ~cached.security.secret_key.placeholder
    <3>1. _validate_environment(cached)
      BY <1>4, <2>1 DEF SettingsInv, Valid
    <3>2. \A n \in Nat : validate_api_key(n, TRUE) => n > 0
      BY DEF validate_api_key, MIN_API_KEY_LENGTH
    <3> QED BY <1>4, <2>1, <3>1, <3>2 DEF SettingsInv, _validate_environment
  <2>2. ASSUME status = "success", NEW shown, shown = result.runtime_snapshot.configuration,
               NEW path \in DOMAIN shown
        PROVE  /\ ~_is_sensitive_field_name(path[2])
               /\ path[1] # "settings" => shown[path] = cached[path[1]][path[2]]
    <3>1. shown = build_configuration_view(cached) /\ _safe(ConfigurationView)
      BY <1>4, <2>2 DEF EntryInv
    <3>2. path \in ConfigurationView \union {<<"settings", "environment">>}
      <4> HIDE DEF ConfigurationView
      <4> QED BY <2>2, <3>1 DEF build_configuration_view
    <3>3. shown[path] = IF path = <<"settings", "environment">> THEN cached.environment
                        ELSE cached[path[1]][path[2]]
      <4> HIDE DEF ConfigurationView
      <4> QED BY <3>1, <3>2 DEF build_configuration_view
    <3>4. ~_is_sensitive_field_name(path[2])
      <4>1. CASE path \in ConfigurationView
        <5> HIDE DEF ConfigurationView, _is_sensitive_field_name
        <5> QED BY <3>1, <4>1 DEF _safe
      <4>2. CASE path = <<"settings", "environment">>
        <5>1. path[2] = "environment"
          BY <4>2
        <5> QED BY <5>1 DEF _is_sensitive_field_name
      <4> QED BY <3>2, <4>1, <4>2
    <3>5. path[1] # "settings" => path # <<"settings", "environment">>
      OBVIOUS
    <3> QED BY <3>3, <3>4, <3>5
  <2>3. status = "success" => cached # NotCached
    BY <1>4 DEF EntryInv
  <2> QED BY <2>1, <2>2, <2>3 DEF ConfigurationIsGuarded
<1>5. SettingsInv /\ EntryInv => ConfigurationIsGuarded
  BY <1>4
<1> QED BY <1>1, <1>2, <1>3, <1>5, PipelineSafe, PTL DEF Spec

-----------------------------------------------------------------------------
(* What the registrars of the components put into a container.              *)

\* A provider is the bus or comes from a registrar, and what it requires is there.
FromTables ==
    \A k \in DOMAIN registrations :
        \/ k = "EventBus" /\ registrations[k].needs = <<>>
           /\ registrations[k].lifetime = "singleton" /\ registrations[k].kind = "build"
        \/ \E id \in KNOWN_COMPONENT_IDS : /\ k \in DOMAIN COMPONENT_REGISTRARS[id]
                                           /\ registrations[k] = COMPONENT_REGISTRARS[id][k]

Required ==
    \A k \in DOMAIN registrations : \A i \in DOMAIN registrations[k].needs :
        \/ registrations[k].needs[i].optional
        \/ registrations[k].needs[i].key \in DOMAIN registrations

TablesInv ==
    phase # "host" =>
        /\ FromTables
        /\ Required
        /\ \A i \in 1..Len(registered) :
               DOMAIN COMPONENT_REGISTRARS[registered[i]] \subseteq DOMAIN registrations
        /\ phase \in {"process", "plan", "validate", "create"} =>
               DOMAIN registrations = {} /\ Len(made) = 0
        /\ phase = "register" =>
               \A i \in 1..Len(made) : made[i].provider.needs = <<>> /\ made[i].got = <<>>

\* One registrar more.
LEMMA RegistrarFits ==
    ASSUME RegistryOK, FromTables, Required, NEW id \in KNOWN_COMPONENT_IDS,
           NEW registrar, registrar = COMPONENT_REGISTRARS[id], StandsAlone(registrar),
           NEW new, new = WithBus(registrar), register(new)
    PROVE  /\ FromTables' /\ Required'
           /\ DOMAIN registrations \subseteq DOMAIN registrations'
           /\ DOMAIN registrar \subseteq DOMAIN registrations'
           /\ \A i \in 1..Len(made') : i > Len(made) =>
                  made'[i].provider.needs = <<>> /\ made'[i].got = <<>>
<1>1. RegistrarOK(registrar)
  BY DEF StandsAlone
<1>2. /\ RegistrarOK(new) /\ DOMAIN registrar \subseteq DOMAIN new
      /\ \A k \in DOMAIN registrar : new[k] = registrar[k]
      /\ \A k \in DOMAIN new : k \in DOMAIN registrar
                               \/ (k = "EventBus" /\ new[k] = EventBus["EventBus"])
      /\ has("EventBus") \/ "EventBus" \in DOMAIN new
  BY <1>1, WithBusIs
<1>3. EventBus["EventBus"] = [kind |-> "build", needs |-> <<>>, lifetime |-> "singleton"]
  BY DEF EventBus, Classes
<1> HIDE DEF WithBus, COMPONENT_REGISTRARS, KNOWN_COMPONENT_IDS
<1>4. /\ RegistryOK'
      /\ registrations' = Updated(registrations, new)
      /\ DOMAIN registrations' = DOMAIN registrations \union DOMAIN new
      /\ Len(made) \in Nat /\ Len(made') \in Nat /\ Len(made) <= Len(made')
      /\ \A i \in 1..Len(made) : made'[i] = made[i]
      /\ \A i \in 1..Len(made') : i > Len(made) =>
             made'[i].got = <<>> /\ \E k \in DOMAIN new :
                                        /\ new[k].kind = "instance"
                                        /\ made'[i].provider = new[k]
  <2>1. RegistrarOK(new)
    BY <1>2
  <2> QED BY <2>1, RegisterIs, ZenonT(60)
<1>5. \A k \in DOMAIN registrations' :
          registrations'[k] = IF k \in DOMAIN new THEN new[k] ELSE registrations[k]
  BY <1>4 DEF Updated
<1>6. "EventBus" \in DOMAIN registrations'
  <2>1. has("EventBus") => "EventBus" \in DOMAIN registrations
    BY DEF has, contains, RegistryOK
  <2> QED BY <1>2, <1>4, <2>1
<1>7. FromTables'
  <2> SUFFICES ASSUME NEW k \in DOMAIN registrations'
               PROVE  \/ k = "EventBus" /\ registrations'[k].needs = <<>>
                         /\ registrations'[k].lifetime = "singleton"
                         /\ registrations'[k].kind = "build"
                      \/ \E c \in KNOWN_COMPONENT_IDS :
                             /\ k \in DOMAIN COMPONENT_REGISTRARS[c]
                             /\ registrations'[k] = COMPONENT_REGISTRARS[c][k]
    BY DEF FromTables
  <2>1. CASE k \in DOMAIN registrar
    BY <1>2, <1>5, <2>1
  <2>2. CASE k \in DOMAIN new /\ k \notin DOMAIN registrar
    BY <1>2, <1>3, <1>5, <2>2
  <2>3. CASE k \notin DOMAIN new
    BY <1>4, <1>5, <2>3 DEF FromTables
  <2> QED BY <1>2, <2>1, <2>2, <2>3
<1>8. Required'
  <2> SUFFICES ASSUME NEW k \in DOMAIN registrations', NEW i \in DOMAIN registrations'[k].needs
               PROVE  \/ registrations'[k].needs[i].optional
                      \/ registrations'[k].needs[i].key \in DOMAIN registrations'
    BY DEF Required
  <2>1. CASE k \in DOMAIN registrar
    <3>1. registrations'[k] = registrar[k]
      BY <1>2, <1>5, <2>1
    <3> QED BY <1>2, <1>4, <1>6, <2>1, <3>1 DEF StandsAlone
  <2>2. CASE k \in DOMAIN new /\ k \notin DOMAIN registrar
    <3>1. registrations'[k].needs = <<>>
      BY <1>2, <1>3, <1>5, <2>2
    <3>2. DOMAIN <<>> = {}
      OBVIOUS
    <3> QED BY <3>1, <3>2
  <2>3. CASE k \notin DOMAIN new
    BY <1>4, <1>5, <2>3 DEF Required
  <2> QED BY <1>2, <2>1, <2>2, <2>3
<1>9. ASSUME NEW i \in 1..Len(made'), i > Len(made)
      PROVE  made'[i].provider.needs = <<>> /\ made'[i].got = <<>>
  <2>1. PICK k \in DOMAIN new : new[k].kind = "instance" /\ made'[i].provider = new[k]
    BY <1>4, <1>9
  <2>2. new[k].needs = <<>>
    BY <1>2, <2>1 DEF RegistrarOK, ProviderOK
  <2> QED BY <1>4, <1>9, <2>1, <2>2
<1> QED BY <1>2, <1>4, <1>7, <1>8, <1>9

LEMMA TablesKept ==
    ASSUME PipelineInv, TablesInv, [Next]_vars
    PROVE  TablesInv'
<1>1. ASSUME UNCHANGED <<registrations, made, registered>>,
             phase' = phase \/ phase \in {"process", "plan", "validate", "create"}
                     \/ phase' \in {"preflight", "done"}, phase # "host"
      PROVE  TablesInv'
  BY <1>1 DEF TablesInv, FromTables, Required
<1>2. ASSUME Register
      PROVE  TablesInv'
  <2>1. phase = "register" /\ UNCHANGED plan
    BY <1>2 DEF Register
  <2>2. CASE Len(registered) < Len(plan)
    <3>1. PICK id : id = plan[Len(registered) + 1].component_id
      OBVIOUS
    <3>2. id \in KNOWN_COMPONENT_IDS /\ StandsAlone(COMPONENT_REGISTRARS[id])
      BY <2>1, <2>2, <3>1, NextRegistrar DEF PipelineInv
    <3>3. register(WithBus(COMPONENT_REGISTRARS[id]))
          /\ registered' = Append(registered, id) /\ phase' = phase
      BY <1>2, <2>2, <3>1 DEF Register
    <3> HIDE DEF COMPONENT_REGISTRARS, KNOWN_COMPONENT_IDS, WithBus
    <3>4. PICK new : new = WithBus(COMPONENT_REGISTRARS[id])
      OBVIOUS
    <3>5. PICK registrar : registrar = COMPONENT_REGISTRARS[id]
      OBVIOUS
    <3>6. RegistryOK /\ FromTables /\ Required /\ registered \in Seq(KNOWN_COMPONENT_IDS)
      BY <2>1 DEF PipelineInv, ContainerInv, TablesInv, BuildInv
    <3>7. /\ FromTables' /\ Required' /\ DOMAIN registrations \subseteq DOMAIN registrations'
          /\ DOMAIN registrar \subseteq DOMAIN registrations'
          /\ \A i \in 1..Len(made') : i > Len(made) =>
                 made'[i].provider.needs = <<>> /\ made'[i].got = <<>>
      BY <3>2, <3>3, <3>4, <3>5, <3>6, RegistrarFits
    <3>8. /\ Len(made) \in Nat /\ Len(made') \in Nat
          /\ \A i \in 1..Len(made) : made'[i] = made[i]
      <4>1. RegistrarOK(WithBus(COMPONENT_REGISTRARS[id]))
        BY <3>2, WithBusIs DEF StandsAlone
      <4> QED BY <3>3, <3>4, <3>6, <4>1, RegisterIs
    <3>9. \A i \in 1..Len(made') : made'[i].provider.needs = <<>> /\ made'[i].got = <<>>
      <4>1. \A i \in 1..Len(made) : made[i].provider.needs = <<>> /\ made[i].got = <<>>
        BY <2>1 DEF TablesInv
      <4> QED BY <3>7, <3>8, <4>1
    <3>10. \A i \in 1..Len(registered') :
               DOMAIN COMPONENT_REGISTRARS[registered'[i]] \subseteq DOMAIN registrations'
      <4>1. \A i \in 1..Len(registered) :
                DOMAIN COMPONENT_REGISTRARS[registered[i]] \subseteq DOMAIN registrations
        BY <2>1 DEF TablesInv
      <4>2. /\ Len(registered) \in Nat /\ Len(registered') = Len(registered) + 1
            /\ \A i \in 1..Len(registered) : registered'[i] = registered[i]
            /\ registered'[Len(registered) + 1] = id
        BY <3>2, <3>3, <3>6, AppendProperties
      <4>3. \A i \in 1..Len(registered') : i \in 1..Len(registered) \/ i = Len(registered) + 1
        BY <4>2
      <4> QED BY <3>5, <3>7, <4>1, <4>2, <4>3
    <3> QED BY <2>1, <3>3, <3>7, <3>9, <3>10 DEF TablesInv
  <2>3. CASE ~(Len(registered) < Len(plan))
    <3>1. UNCHANGED <<registrations, made, registered>> /\ phase' = "preflight"
      BY <1>2, <2>3 DEF Register
    <3> QED BY <1>1, <2>1, <3>1
  <2> QED BY <2>2, <2>3
<1>3. ASSUME Resolving \/ CheckService
      PROVE  TablesInv'
  <2>1. phase = "preflight" /\ UNCHANGED <<registrations, registered, phase>>
    BY <1>3 DEF Resolving, CheckService, ResolveStep, Resolve, NextNeed, Injected, Provided,
                Unwind, bootstrap
  <2> QED BY <2>1 DEF TablesInv, FromTables, Required
<1>4. ASSUME Plan \/ validate_service_keys \/ container_factory \/ RegistrarRaises
             \/ Complete \/ Configure \/ main \/ Exit
      PROVE  TablesInv'
  <2>1. UNCHANGED <<registrations, made, registered>>
    BY <1>4 DEF Plan, validate_service_keys, container_factory, RegistrarRaises, Complete,
                Configure, main, Exit, container, bootstrap
  <2>2. phase # "host" /\ (phase' = phase \/ phase \in {"process", "plan", "validate", "create"}
                           \/ phase' \in {"preflight", "done"})
    BY <1>4 DEF Plan, validate_service_keys, container_factory, RegistrarRaises, Complete,
                Configure, main, Exit, container, bootstrap, End
  <2> QED BY <1>1, <2>1, <2>2
<1>5. ASSUME Host
      PROVE  TablesInv'
  <2>1. phase = "host" /\ phase' = phase
    BY <1>5 DEF Host, bootstrap
  <2> QED BY <2>1 DEF TablesInv
<1>6. ASSUME UNCHANGED vars
      PROVE  TablesInv'
  BY <1>6 DEF vars, container, bootstrap, TablesInv, FromTables, Required
<1> QED BY <1>2, <1>3, <1>4, <1>5, <1>6 DEF Next, BootstrapNext

\* The level of a key: how long a chain of dependencies may start from it.
Level(k) ==
    CHOOSE n \in 0..Depth : k \in Buildable[n] /\ \A j \in 0..Depth : k \in Buildable[j] => n <= j

LEMMA BuildableIs ==
    /\ Buildable[0] = {}
    /\ \A n \in 1..Depth :
           Buildable[n] =
               {k \in ComponentKeys : NeedsOf(k) \cap ComponentKeys \subseteq Buildable[n - 1]}
<1> DEFINE V == SUBSET ComponentKeys
           Next1(X) == {k \in ComponentKeys : NeedsOf(k) \cap ComponentKeys \subseteq X}
           step == [n \in 0..Depth |-> [X \in V |-> Next1(X)]]
           Law(f) == [n \in 0..Depth |->
                         IF n = 0 THEN {}
                         ELSE LET before == f[n - 1]
                              IN  {k \in ComponentKeys :
                                      NeedsOf(k) \cap ComponentKeys \subseteq before}]
<1>0. Depth \in Nat
  BY DEF Depth
<1> HIDE DEF Depth, ComponentKeys, NeedsOf
<1>1. step \in [0..Depth -> [V -> V]] /\ {} \in V
  OBVIOUS
<1>2. PICK f : Iterates(Depth, {}, step, f) /\ f \in [0..Depth -> V]
  <2> HIDE DEF step, V
  <2> QED BY <1>0, <1>1, CountedRecursion
<1>3. \A n \in 0..Depth : f[n] = IF n = 0 THEN {} ELSE step[n][f[n - 1]]
  <2> HIDE DEF step
  <2> QED BY <1>2, Zenon DEF Iterates
<1>4. \A n \in 0..Depth : n # 0 => n - 1 \in 0..Depth
  BY <1>0
<1>5. \A n \in 0..Depth : f[n] = IF n = 0 THEN {} ELSE Next1(f[n - 1])
  <2> TAKE n \in 0..Depth
  <2>1. CASE n = 0
    BY <1>3, <2>1
  <2>2. CASE n # 0
    <3>1. f[n - 1] \in V /\ f[n] = step[n][f[n - 1]]
      BY <1>2, <1>3, <1>4, <2>2
    <3> HIDE DEF V, Next1
    <3> QED BY <2>2, <3>1
  <2> QED BY <2>1, <2>2
<1>6. f = Law(f)
  <2>1. f = [n \in 0..Depth |-> f[n]]
    BY <1>2
  <2> QED BY <1>5, <2>1
<1>7. Buildable = CHOOSE g : g = Law(g)
  BY DEF Buildable
<1>8. Buildable = Law(Buildable)
  <2> HIDE DEF Law
  <2> QED BY <1>6, <1>7
<1>9. \A n \in 0..Depth : Buildable[n] = IF n = 0 THEN {} ELSE Next1(Buildable[n - 1])
  BY <1>8, Zenon
<1>10. 0 \in 0..Depth /\ \A n \in 1..Depth : n \in 0..Depth /\ n # 0
  BY <1>0
<1> QED BY <1>9, <1>10, Zenon

\* Each component's key has a level, above those of its needs.
LEMMA LevelIs ==
    ASSUME NEW k \in ComponentKeys
    PROVE  /\ Level(k) \in Nat
           /\ \A l \in ComponentKeys \cap NeedsOf(k) : Level(l) \in Nat /\ Level(l) < Level(k)
<1> DEFINE Levels(l) == {n \in 0..Depth : l \in Buildable[n]}
<1>0. Depth \in Nat
  BY DEF Depth
<1>1. \A l \in ComponentKeys : Depth \in Levels(l)
  BY <1>0, TablesAssumption
<1> HIDE DEF Depth, ComponentKeys, NeedsOf
<1>2. ASSUME NEW l \in ComponentKeys
      PROVE  Level(l) \in Levels(l) /\ \A j \in Levels(l) : Level(l) <= j
  <2>1. Levels(l) \subseteq Nat /\ Levels(l) # {}
    BY <1>0, <1>1
  <2>2. PICK n \in Levels(l) : \A j \in Levels(l) : n <= j
    <3> HIDE DEF Levels
    <3> QED BY <2>1, LeastNatural
  <2>3. n \in 0..Depth /\ l \in Buildable[n] /\ \A j \in 0..Depth : l \in Buildable[j] => n <= j
    BY <2>2
  <2> QED BY <2>3 DEF Level
<1>3. ASSUME NEW l \in ComponentKeys \cap NeedsOf(k)
      PROVE  Level(l) < Level(k)
  <2>1. Level(k) \in 0..Depth /\ k \in Buildable[Level(k)]
    BY <1>2
  <2>2. Level(k) # 0
    BY <2>1, BuildableIs
  <2>3. Level(k) \in 1..Depth /\ Level(k) - 1 \in 0..Depth
    BY <1>0, <2>1, <2>2
  <2>4. l \in Buildable[Level(k) - 1]
    BY <2>1, <2>3, BuildableIs
  <2>5. Level(l) <= Level(k) - 1 /\ Level(l) \in Nat
    BY <1>0, <1>2, <2>3, <2>4
  <2> QED BY <1>0, <2>1, <2>5
<1> QED BY <1>0, <1>2, <1>3

\* So the keys of the container have levels, and those they depend on lower ones.
LEMMA LevelsFall ==
    ASSUME FromTables, NEW k \in DOMAIN registrations, NEW l \in DOMAIN registrations,
           DependsOn(k, l)
    PROVE  Level(k) \in Nat /\ Level(l) \in Nat /\ Level(l) < Level(k)
<1>1. \A c \in DOMAIN registrations : c \in ComponentKeys
  BY DEF FromTables, ComponentKeys
<1>2. PICK n \in ToSet(registrations[k].needs) : n.key = l
  BY DEF DependsOn
<1>3. registrations[k].needs # <<>>
  <2>1. ToSet(<<>>) = {}
    BY DEF ToSet
  <2> QED BY <1>2, <2>1
<1>4. PICK id \in KNOWN_COMPONENT_IDS : /\ k \in DOMAIN COMPONENT_REGISTRARS[id]
                                        /\ registrations[k] = COMPONENT_REGISTRARS[id][k]
  BY <1>3 DEF FromTables
<1>5. l \in NeedsOf(k)
  <2> HIDE DEF COMPONENT_REGISTRARS, KNOWN_COMPONENT_IDS
  <2> QED BY <1>2, <1>4 DEF NeedsOf
<1> HIDE DEF ComponentKeys, NeedsOf, Level
<1> QED BY <1>1, <1>5, LevelIs

-----------------------------------------------------------------------------
(* What the providers are given.                                            *)

\* F lists, for each n, the keys among the first n needs that are registered.
FoundLaw(needs, F) ==
    /\ F[0] = <<>>
    /\ \A n \in 0..Len(needs) : F[n] \in Seq(STRING)
    /\ \A n \in 1..Len(needs) :
           F[n] = IF needs[n].key \in DOMAIN registrations
                  THEN Extended(F[n - 1], needs[n].key) ELSE F[n - 1]

\* got has the singletons of the keys of s.
Gets(s, got) ==
    ToSet(s) \subseteq DOMAIN singletons /\ Maps(s, singletons, got)
Supplied(needs, n, got) == \A F : FoundLaw(needs, F) => Gets(F[n], got)

Needs == Seq([key : STRING, optional : BOOLEAN])

LEMMA ElementsAre ==
    ASSUME NEW S, NEW q \in Seq(S)
    PROVE  Len(q) \in Nat /\ \A i \in 1..Len(q) : q[i] \in S
OBVIOUS

LEMMA FoundIs ==
    ASSUME NEW needs \in Needs
    PROVE  FoundLaw(needs, FoundAmong(needs))
<1> DEFINE N == Len(needs)
           V == Seq(STRING)
           D == DOMAIN registrations
           More(n, s) == IF n # 0 /\ needs[n].key \in D THEN Extended(s, needs[n].key) ELSE s
           step == [n \in 0..N |-> [s \in V |-> More(n, s)]]
           Law(f) == [n \in 0..N |->
                         IF n = 0 THEN <<>>
                         ELSE IF needs[n].key \in DOMAIN registrations
                              THEN Append(f[n - 1], needs[n].key) ELSE f[n - 1]]
<1>1. N \in Nat /\ \A n \in 1..N : needs[n].key \in STRING
  <2>1. needs \in Seq([key : STRING, optional : BOOLEAN])
    BY DEF Needs
  <2>2. N \in Nat /\ \A n \in 1..N : needs[n] \in [key : STRING, optional : BOOLEAN]
    BY <2>1, ElementsAre
  <2> QED BY <2>2
<1>2. \A n \in 0..N : \A s \in V : More(n, s) \in V
  <2>1. \A s \in V, e \in STRING : Extended(s, e) \in V
    BY AppendProperties DEF Extended
  <2> TAKE n \in 0..N
  <2> TAKE s \in V
  <2>2. CASE n # 0 /\ needs[n].key \in D
    <3>1. n \in 1..N
      BY <1>1, <2>2
    <3>2. needs[n].key \in STRING
      BY <1>1, <3>1
    <3> HIDE DEF V
    <3> QED BY <2>1, <2>2, <3>2
  <2>3. CASE ~(n # 0 /\ needs[n].key \in D)
    <3> HIDE DEF V
    <3> QED BY <2>3
  <2> QED BY <2>2, <2>3
<1>3. step \in [0..N -> [V -> V]] /\ <<>> \in V
  <2>1. <<>> \in V
    OBVIOUS
  <2> HIDE DEF V, More
  <2> QED BY <1>2, <2>1
<1> HIDE DEF V
<1>4. PICK f : Iterates(N, <<>>, step, f) /\ f \in [0..N -> V]
  <2> HIDE DEF step, N
  <2> QED BY <1>1, <1>3, CountedRecursion
<1>5. \A n \in 0..N : f[n] = IF n = 0 THEN <<>> ELSE step[n][f[n - 1]]
  <2> HIDE DEF step
  <2> QED BY <1>4, Zenon DEF Iterates
<1>6. \A n \in 0..N : n # 0 => n - 1 \in 0..N
  BY <1>1
<1>7. \A n \in 0..N : f[n] = IF n = 0 THEN <<>> ELSE More(n, f[n - 1])
  <2> HIDE DEF More
  <2> QED BY <1>4, <1>5, <1>6
<1>8. \A n \in 0..N : f[n] = IF n = 0 THEN <<>>
                             ELSE IF needs[n].key \in D THEN Extended(f[n - 1], needs[n].key)
                                  ELSE f[n - 1]
  BY <1>7
<1>9. f = Law(f)
  <2>1. f = [n \in 0..N |-> f[n]]
    BY <1>4
  <2> QED BY <1>8, <2>1 DEF Extended
<1>10. FoundAmong(needs) = CHOOSE g : g = Law(g)
  BY DEF FoundAmong
<1>11. PICK h : h = FoundAmong(needs)
  OBVIOUS
<1>12. h = Law(h)
  <2> HIDE DEF Law
  <2> QED BY <1>9, <1>10, <1>11
<1>13. \A n \in 0..N : h[n] = IF n = 0 THEN <<>>
                              ELSE IF needs[n].key \in D THEN Extended(h[n - 1], needs[n].key)
                                   ELSE h[n - 1]
  BY <1>12, Zenon DEF Extended
<1> HIDE DEF Law
<1>14. \A n \in 0..N : h[n] \in V
  <2> DEFINE T == {n \in 0..N : h[n] \in V}
  <2>1. 0 \in T
    BY <1>1, <1>3, <1>13
  <2>2. ASSUME NEW n \in 1..N, n - 1 \in T
        PROVE  n \in T
    <3>1. n \in 0..N /\ n # 0 /\ h[n - 1] \in V
      BY <2>2
    <3>2. More(n, h[n - 1]) \in V
      <4> HIDE DEF More
      <4> QED BY <1>2, <3>1
    <3>3. h[n] = More(n, h[n - 1])
      BY <1>13, <3>1
    <3> QED BY <3>1, <3>2, <3>3
  <2>3. 0..N \subseteq T
    <3> HIDE DEF T, N
    <3> QED BY <1>1, <2>1, <2>2, CountedInduction
  <2> QED BY <2>3
<1>15. \A n \in 1..N : n \in 0..N /\ n # 0
  OBVIOUS
<1>16. 0 \in 0..N
  BY <1>1
<1> QED BY <1>11, <1>13, <1>14, <1>15, <1>16 DEF FoundLaw, V

\* One object more.
LEMMA GetsAdded ==
    ASSUME NEW S, NEW s \in Seq(S), NEW got, Gets(s, got),
           NEW key \in S, key \in DOMAIN singletons,
           NEW t, t = Extended(s, key), NEW more, more = Extended(got, singletons[key])
    PROVE  Gets(t, more)
<1>1. PICK h : h = singletons
  OBVIOUS
<1>2. Maps(s, h, got) /\ more = Extended(got, h[key])
  BY <1>1 DEF Gets
<1>3. Maps(t, h, more) /\ Elements(t) = Elements(s) \union {key}
  BY <1>2, MapsExtended
<1>4. ToSet(t) = ToSet(s) \union {key}
  BY <1>3 DEF ToSet, Elements
<1> QED BY <1>1, <1>3, <1>4 DEF Gets

\* What was given stays what the container has.
LEMMA SuppliedStays ==
    ASSUME UNCHANGED registrations, \A k \in DOMAIN singletons : k \in DOMAIN singletons'
                                        /\ singletons'[k] = singletons[k]
    PROVE  \A needs, n, got : Supplied(needs, n, got) => Supplied(needs, n, got)'
<1>1. \A s, got : Gets(s, got) => Gets(s, got)'
  <2> SUFFICES ASSUME NEW s, NEW got, Gets(s, got)
               PROVE  Gets(s, got)'
    OBVIOUS
  <2>1. \A i \in DOMAIN s : s[i] \in DOMAIN singletons
    BY DEF Gets, ToSet
  <2>2. [i \in DOMAIN s |-> singletons[s[i]]] = [i \in DOMAIN s |-> singletons'[s[i]]]
    BY <2>1
  <2> QED BY <2>2 DEF Gets, Maps
<1>2. \A needs, F : FoundLaw(needs, F)' <=> FoundLaw(needs, F)
  BY DEF FoundLaw
<1> QED BY <1>1, <1>2 DEF Supplied

\* No key of the tables leads to itself.
NoCycle == RegistryOK /\ FromTables => ~HeadIsCyclic

LEMMA NoCycleIs == NoCycle
<1> SUFFICES ASSUME RegistryOK, FromTables, NEW k, k \in LeadsTo(k)
             PROVE  FALSE
  BY DEF NoCycle, HeadIsCyclic
<1> DEFINE D == DOMAIN registrations
           C == {l \in D : Level(l) \in Nat /\ Level(l) < Level(k)}
<1>1. IsFiniteSet(D)
  BY DEF RegistryOK
<1>2. \A c : ClosedFrom(k, c) => LeadsTo(k) \subseteq c
  BY <1>1, LeadsToIs
<1> HIDE DEF LeadsTo, Level
<1>3. CASE \E e \in D : DependsOn(k, e)
  <2>1. k \in D /\ Level(k) \in Nat
    <3>1. k \in D
      BY <1>3 DEF DependsOn
    <3> QED BY <1>3, <3>1, LevelsFall
  <2>2. \A l \in D : DependsOn(k, l) => l \in C
    BY <2>1, LevelsFall
  <2>3. ASSUME NEW m \in C, NEW l \in D, DependsOn(m, l)
        PROVE  l \in C
    <3>1. m \in D /\ Level(m) \in Nat /\ Level(m) < Level(k)
      OBVIOUS
    <3>2. Level(l) \in Nat /\ Level(l) < Level(m)
      BY <2>3, <3>1, LevelsFall
    <3> QED BY <2>1, <3>1, <3>2
  <2>4. ClosedFrom(k, C)
    BY <2>2, <2>3 DEF ClosedFrom
  <2>5. k \in C
    BY <1>2, <2>4
  <2> QED BY <2>1, <2>5
<1>4. CASE ~\E e \in D : DependsOn(k, e)
  <2>1. ClosedFrom(k, {})
    BY <1>4 DEF ClosedFrom
  <2> QED BY <1>2, <2>1
<1> QED BY <1>3, <1>4

-----------------------------------------------------------------------------
(* A successful resolution, dependency by dependency.                       *)

\* A provider that has its dependencies, up to the one it asked for last or
\* without it; an object that has all of them.
Fed(f) == Supplied(f.provider.needs, Consumed(f), f.got)
Due(f) == Supplied(f.provider.needs, Consumed(f) - 1, f.got)
Equipped(o) ==
    o.provider.needs \in Needs /\ Supplied(o.provider.needs, Len(o.provider.needs), o.got)
Objects == {made[i] : i \in 1..Len(made)}

\* The key that is being looked up for the top of a stack.
Asking(s) == IF s = <<>> THEN Head(wanted) ELSE Awaited(Last(s))
StackDue(s) == \A i \in 1..(Len(s) - 1) : Due(s[i])
Served(s, a) ==
    /\ StackDue(s)
    /\ s # <<>> => IF a = NoAnswer THEN Fed(Last(s)) ELSE Due(Last(s))
    /\ a.kind = "value" => Asking(s) \in DOMAIN singletons /\ a.object = singletons[Asking(s)]
    /\ a.kind = "error" => s = <<>> /\ Head(wanted) \notin DOMAIN registrations

ServedInv ==
    /\ phase = "preflight" => \A s, a : s = stack /\ a = answer => Served(s, a)
    /\ phase \in {"preflight", "done"} => \A o \in Objects : Equipped(o)

\* Nothing is taken away from a provider or an object.
LEMMA ServedStays ==
    ASSUME UNCHANGED registrations, \A k \in DOMAIN singletons : k \in DOMAIN singletons'
                                        /\ singletons'[k] = singletons[k]
    PROVE  /\ \A f : Fed(f) => Fed(f)'
           /\ \A f : Due(f) => Due(f)'
           /\ \A o : Equipped(o) => Equipped(o)'
           /\ \A s : StackDue(s) => StackDue(s)'
<1>1. \A needs, n, got : Supplied(needs, n, got) => Supplied(needs, n, got)'
  BY SuppliedStays
<1>2. \A f : Due(f) => Due(f)'
  BY <1>1 DEF Due, Consumed
<1> QED BY <1>1, <1>2 DEF Fed, Equipped, StackDue, Consumed

\* Before it asks, a provider has nothing.
LEMMA FedFirst ==
    ASSUME NEW f, f.todo = f.provider.needs, f.got = <<>>, f.provider.needs \in Needs
    PROVE  Fed(f)
<1>1. Consumed(f) = 0
  <2>1. Len(f.provider.needs) \in Nat
    BY DEF Needs
  <2> QED BY <2>1 DEF Consumed
<1>2. Gets(<<>>, <<>>)
  BY DEF Gets, ToSet, Maps
<1> QED BY <1>1, <1>2 DEF Fed, Supplied, FoundLaw

\* One more dependency: it is skipped because nobody registered it, or injected.
LEMMA NeedSkipped ==
    ASSUME NEW needs, NEW n \in 1..Len(needs), NEW got, Supplied(needs, n - 1, got),
           needs[n].key \notin DOMAIN registrations
    PROVE  Supplied(needs, n, got)
BY DEF Supplied, FoundLaw

LEMMA NeedInjected ==
    ASSUME NEW needs, NEW n \in 1..Len(needs), NEW got, Supplied(needs, n - 1, got),
           Len(needs) \in Nat, needs[n].key \in STRING,
           needs[n].key \in DOMAIN registrations, needs[n].key \in DOMAIN singletons,
           NEW more, more = Extended(got, singletons[needs[n].key])
    PROVE  Supplied(needs, n, more)
<1> SUFFICES ASSUME NEW F, FoundLaw(needs, F)
             PROVE  Gets(F[n], more)
  BY DEF Supplied
<1>1. n - 1 \in 0..Len(needs)
  OBVIOUS
<1>2. F[n - 1] \in Seq(STRING) /\ Gets(F[n - 1], got)
  BY <1>1 DEF FoundLaw, Supplied
<1>3. F[n] = Extended(F[n - 1], needs[n].key)
  BY DEF FoundLaw
<1>4. PICK S, key, s, t : S = STRING /\ key = needs[n].key /\ s = F[n - 1] /\ t = F[n]
  OBVIOUS
<1>5. s \in Seq(S) /\ key \in S
  BY <1>2, <1>4
<1>6. Gets(s, got) /\ t = Extended(s, key) /\ more = Extended(got, singletons[key])
      /\ key \in DOMAIN singletons
  BY <1>2, <1>3, <1>4
<1>7. Gets(t, more)
  BY <1>5, <1>6, GetsAdded
<1> QED BY <1>4, <1>7

\* resolve() up to the call of the provider.
LEMMA LookupServed ==
    ASSUME RegistryOK, NEW below, IsSeq(below), StackDue(below),
           below # <<>> => Due(Last(below)),
           NEW key, key = Asking(below), below # <<>> => key \in DOMAIN registrations,
           Lookup(key, below), answer = NoAnswer,
           UNCHANGED <<registrations, singletons, wanted>>,
           ~(answer'.kind = "error" /\ answer'.error = "Circular")
    PROVE  \A s, a : s = stack' /\ a = answer' => Served(s, a)'
<1>1. /\ \A f : Fed(f) => Fed(f)'
      /\ \A f : Due(f) => Due(f)'
      /\ \A s : StackDue(s) => StackDue(s)'
  BY ServedStays
<1>2. \A s : Asking(s)' = Asking(s)
  BY DEF Asking, Awaited, Consumed
<1>3. CASE key \in DOMAIN singletons /\ answer' = Value(singletons[key]) /\ stack' = below
  <2>1. /\ answer' # NoAnswer /\ answer'.kind = "value" /\ answer'.object = singletons[key]
    BY <1>3 DEF Value, NoAnswer
  <2> QED BY <1>1, <1>2, <1>3, <2>1 DEF Served
<1>4. CASE key \notin DOMAIN singletons /\ ~contains(key) /\ answer' = Error("KeyError")
           /\ stack' = below
  <2>1. below = <<>> /\ key = Head(wanted) /\ key \notin DOMAIN registrations
    BY <1>4 DEF contains, Asking
  <2>2. answer'.kind = "error"
    BY <1>4 DEF Error
  <2> QED BY <1>1, <1>4, <2>1, <2>2 DEF Served
<1>5. CASE answer' = Error("Circular")
  BY <1>5 DEF Error
<1>6. CASE contains(key) /\ answer' = answer /\ stack' = Append(below, Called(key))
  <2>1. PICK x : x = Append(below, Called(key))
    OBVIOUS
  <2>2. /\ IsSeq(x) /\ x # <<>> /\ Len(below) \in Nat /\ Len(x) = Len(below) + 1
        /\ \A i \in 1..Len(below) : x[i] = below[i]
        /\ x[Len(x)] = Called(key)
    BY <2>1, AppendIs
  <2>3. Last(x) = Called(key)
    BY <2>2 DEF Last
  <2>4. Fed(Called(key))
    <3>1. registrations[key].needs \in Needs
      BY <1>6 DEF contains, RegistryOK, ProviderOK, Needs
    <3>2. PICK f : f = Called(key)
      OBVIOUS
    <3>3. f.todo = f.provider.needs /\ f.got = <<>> /\ f.provider.needs \in Needs
      BY <3>1, <3>2 DEF Called, get
    <3> QED BY <3>2, <3>3, FedFirst
  <2>5. \A i \in 1..(Len(x) - 1) : Due(x[i])
    <3> TAKE i \in 1..(Len(x) - 1)
    <3>1. x[i] = below[i] /\ i \in 1..Len(below)
      BY <2>2
    <3>2. CASE i = Len(below)
      <4>1. below # <<>> /\ Last(below) = below[i]
        BY <2>2, <3>1, <3>2 DEF Last
      <4> QED BY <3>1, <4>1
    <3>3. CASE i # Len(below)
      <4>1. i \in 1..(Len(below) - 1)
        BY <2>2, <3>1, <3>3
      <4> QED BY <3>1, <4>1 DEF StackDue
    <3> QED BY <3>2, <3>3
  <2>6. answer' = NoAnswer /\ answer'.kind = "none"
    BY <1>6 DEF NoAnswer
  <2>7. StackDue(x)' /\ Fed(Last(x))'
    <3>1. StackDue(x)
      BY <2>5 DEF StackDue
    <3> QED BY <1>1, <2>3, <2>4, <3>1
  <2> QED BY <1>6, <2>1, <2>2, <2>6, <2>7 DEF Served
<1> QED BY <1>3, <1>4, <1>5, <1>6 DEF Lookup, Called

\* An error is no circle.
NoCircle == ~(answer.kind = "error" /\ answer.error = "Circular")

LEMMA ResolveServed ==
    ASSUME ContainerInv, Resolve, NoCircle'
    PROVE  \A s, a : s = stack' /\ a = answer' => Served(s, a)'
<1>1. PICK below, key : below = <<>> /\ key = Head(wanted)
  OBVIOUS
<1>2. /\ RegistryOK /\ answer = NoAnswer /\ Lookup(key, below)
      /\ UNCHANGED <<registrations, singletons, wanted>>
  BY <1>1 DEF ContainerInv, Resolve, Idle
<1>3. IsSeq(below) /\ StackDue(below) /\ key = Asking(below)
  <2>1. IsSeq(below) /\ Len(below) = 0
    BY <1>1 DEF IsSeq
  <2>2. 1..(0 - 1) = {}
    OBVIOUS
  <2> QED BY <1>1, <2>1, <2>2 DEF StackDue, Asking
<1> QED BY <1>1, <1>2, <1>3, LookupServed DEF NoCircle

LEMMA NextNeedServed ==
    ASSUME ContainerInv, Required, Served(stack, answer), NextNeed, NoCircle'
    PROVE  \A s, a : s = stack' /\ a = answer' => Served(s, a)'
<1>1. PICK f, g, rest, key : /\ f = Last(stack) /\ g = Asked(f) /\ rest = Topped(stack, g)
                             /\ key = Head(f.todo).key
  OBVIOUS
<1>2. /\ stack # <<>> /\ answer = NoAnswer /\ RegistryOK
      /\ UNCHANGED <<registrations, singletons, made, wanted>>
      /\ FrameOK(f) /\ FrameOK(g) /\ g.provider = f.provider /\ g.got = f.got
      /\ Consumed(g) = Consumed(f) + 1 /\ Consumed(g) \in 1..Len(f.provider.needs)
      /\ key = f.provider.needs[Consumed(g)].key
      /\ Head(f.todo) = f.provider.needs[Consumed(g)]
      /\ Waiting(g) /\ Awaited(g) = key /\ g.key = f.key
      /\ Frames(rest) /\ rest # <<>> /\ KeysOf(rest) = KeysOf(stack) /\ Last(rest) = g
      /\ Len(rest) = Len(stack) /\ \A i \in 1..(Len(stack) - 1) : rest[i] = stack[i]
      /\ rest[Len(rest)] = g
      /\ resolving = KeysOf(rest)
      /\ \/ /\ Head(f.todo).optional /\ ~has(key)
            /\ stack' = rest /\ answer' = NoAnswer
         \/ Lookup(key, rest) /\ (Head(f.todo).optional => has(key))
  BY <1>1, AskingIs
<1>3. PICK n : n = Consumed(g)
  OBVIOUS
<1>4. n \in 1..Len(f.provider.needs) /\ Consumed(f) = n - 1
  <2>1. Consumed(f) \in Int
    <3>1. Len(f.provider.needs) \in Nat /\ Len(f.todo) \in Nat
      BY <1>2, SeqIs DEF FrameOK, RegistryOK, ProviderOK
    <3> QED BY <3>1 DEF Consumed
  <2> QED BY <1>2, <1>3, <2>1
<1>5. Fed(f) /\ Supplied(f.provider.needs, n - 1, f.got)
  BY <1>1, <1>2, <1>4 DEF Served, Fed
<1>6. Due(g)
  BY <1>2, <1>3, <1>5 DEF Due
<1>7. StackDue(rest)
  BY <1>2 DEF Served, StackDue
<1>8. CASE /\ Head(f.todo).optional /\ ~has(key)
           /\ stack' = rest /\ answer' = NoAnswer
  <2>1. key \notin DOMAIN registrations
    BY <1>8 DEF has, contains
  <2>2. Supplied(f.provider.needs, n, f.got)
    BY <1>2, <1>3, <1>4, <1>5, <2>1, NeedSkipped
  <2>3. Fed(g)
    BY <1>2, <1>3, <2>2 DEF Fed
  <2>4. /\ \A h : Fed(h) => Fed(h)'
        /\ \A s : StackDue(s) => StackDue(s)'
    BY <1>2, ServedStays
  <2>5. answer' = NoAnswer /\ answer'.kind = "none"
    BY <1>8 DEF NoAnswer
  <2> QED BY <1>2, <1>7, <1>8, <2>3, <2>4, <2>5 DEF Served
<1>9. CASE Lookup(key, rest) /\ (Head(f.todo).optional => has(key))
  <2>1. key \in DOMAIN registrations
    <3>1. CASE Head(f.todo).optional
      BY <1>2, <1>9, <3>1 DEF has, contains, RegistryOK
    <3>2. CASE ~Head(f.todo).optional
      <4>1. f.key \in DOMAIN registrations /\ f.provider = registrations[f.key]
        BY <1>2 DEF FrameOK
      <4>2. n \in DOMAIN registrations[f.key].needs
        <5>1. registrations[f.key].needs \in Needs
          BY <1>2, <4>1 DEF RegistryOK, ProviderOK, Needs
        <5> QED BY <1>4, <4>1, <5>1 DEF Needs
      <4> QED BY <1>2, <1>3, <3>2, <4>1, <4>2 DEF Required
    <3> QED BY <3>1, <3>2
  <2>2. key = Asking(rest) /\ Due(Last(rest)) /\ IsSeq(rest)
    BY <1>2, <1>6 DEF Asking, Frames
  <2> QED BY <1>2, <1>7, <1>9, <2>1, <2>2, LookupServed DEF NoCircle
<1> QED BY <1>2, <1>8, <1>9

LEMMA InjectedServed ==
    ASSUME ContainerInv, Served(stack, answer), Injected
    PROVE  \A s, a : s = stack' /\ a = answer' => Served(s, a)'
<1>1. PICK f, got, g, x : /\ f = Last(stack) /\ got = Extended(f.got, answer.object)
                          /\ g = [f EXCEPT !.got = got] /\ x = Topped(stack, g)
  OBVIOUS
<1>2. /\ stack # <<>> /\ answer.kind = "value" /\ stack' = x /\ answer' = NoAnswer
      /\ UNCHANGED <<registrations, singletons, wanted>>
  <2>1. Topped(stack, g) = Append(Front(stack), [f EXCEPT !.got = Append(@, answer.object)])
    BY <1>1 DEF Topped, Extended
  <2> QED BY <1>1, <2>1 DEF Injected
<1>3. RegistryOK /\ IsSeq(stack) /\ FrameOK(f)
  <2>1. RegistryOK /\ Frames(stack)
    BY DEF ContainerInv
  <2> QED BY <1>1, <1>2, <2>1, TopRemoved DEF Frames
<1>4. /\ f.key \in DOMAIN registrations /\ f.provider = registrations[f.key]
      /\ f.provider.needs \in Needs
  BY <1>3 DEF FrameOK, RegistryOK, ProviderOK, Needs
<1>5. Len(f.provider.needs) \in Nat
  BY <1>4 DEF Needs
<1>6. PICK n : n = Consumed(f)
  OBVIOUS
<1>7. n \in 1..Len(f.provider.needs)
  <2>1. Waiting(f)
    BY <1>1, <1>2 DEF ContainerInv, AnswerOK
  <2>2. Len(f.todo) \in Nat
    BY <1>3, SeqIs DEF FrameOK
  <2>3. PICK l, t : l = Len(f.provider.needs) /\ t = Len(f.todo)
    OBVIOUS
  <2>4. l \in Nat /\ t \in Nat /\ n = l - t /\ n >= 1
    BY <1>5, <1>6, <2>1, <2>2, <2>3 DEF Waiting, Consumed
  <2>5. n \in 1..l
    BY <2>4
  <2> QED BY <2>3, <2>5
<1>8. f.provider.needs[n].key \in STRING
  <2>1. f.provider.needs[n] \in [key : STRING, optional : BOOLEAN]
    BY <1>4, <1>7, ElementsAre DEF Needs
  <2> QED BY <2>1
<1>9. /\ f.provider.needs[n].key \in DOMAIN singletons
      /\ answer.object = singletons[f.provider.needs[n].key]
  BY <1>1, <1>2, <1>6 DEF Served, Asking, Awaited
<1>10. f.provider.needs[n].key \in DOMAIN registrations
  BY <1>3, <1>9 DEF RegistryOK
<1>11. Supplied(f.provider.needs, n - 1, f.got)
  <2>1. answer # NoAnswer
    BY <1>2 DEF NoAnswer
  <2> QED BY <1>1, <1>2, <1>6, <2>1 DEF Served, Due
<1>12. Supplied(f.provider.needs, n, got)
  <2>1. got = Extended(f.got, singletons[f.provider.needs[n].key])
    BY <1>1, <1>9
  <2> QED BY <1>5, <1>7, <1>8, <1>9, <1>10, <1>11, <2>1, NeedInjected
<1>13. g.provider = f.provider /\ g.todo = f.todo /\ g.got = got
  <2>1. g = [key |-> f.key, provider |-> f.provider, todo |-> f.todo, got |-> got]
    BY <1>1, <1>3 DEF FrameOK
  <2> QED BY <2>1
<1>14. Fed(g)
  BY <1>6, <1>12, <1>13 DEF Fed, Consumed
<1>15. /\ IsSeq(x) /\ x # <<>> /\ Len(x) = Len(stack) /\ Last(x) = g
       /\ \A i \in 1..(Len(stack) - 1) : x[i] = stack[i]
  BY <1>1, <1>2, <1>3, LastReplaced
<1>16. StackDue(x)
  BY <1>15 DEF Served, StackDue
<1>17. /\ \A h : Fed(h) => Fed(h)'
       /\ \A s : StackDue(s) => StackDue(s)'
  BY <1>2, ServedStays
<1>18. answer' = NoAnswer /\ answer'.kind = "none"
  BY <1>2 DEF NoAnswer
<1> QED BY <1>2, <1>14, <1>15, <1>16, <1>17, <1>18 DEF Served

\* The registrars hold singletons that do not raise.
LEMMA PlainProviders ==
    ASSUME FromTables, NEW k \in DOMAIN registrations
    PROVE  registrations[k].lifetime = "singleton" /\ registrations[k].kind # "raises"
<1>1. CASE /\ registrations[k].needs = <<>>
           /\ registrations[k].lifetime = "singleton" /\ registrations[k].kind = "build"
  BY <1>1
<1>2. CASE \E id \in KNOWN_COMPONENT_IDS : /\ k \in DOMAIN COMPONENT_REGISTRARS[id]
                                           /\ registrations[k] = COMPONENT_REGISTRARS[id][k]
  <2> HIDE DEF COMPONENT_REGISTRARS, KNOWN_COMPONENT_IDS
  <2>1. PICK id \in KNOWN_COMPONENT_IDS : /\ k \in DOMAIN COMPONENT_REGISTRARS[id]
                                          /\ registrations[k] = COMPONENT_REGISTRARS[id][k]
    BY <1>2
  <2>2. StandsAlone(COMPONENT_REGISTRARS[id])
    BY TablesAssumption
  <2> QED BY <2>1, <2>2 DEF StandsAlone
<1> QED BY <1>1, <1>2 DEF FromTables

\* The provider on top returns: the frame below gets what it asked for.
LEMMA ProvidedServed ==
    ASSUME ContainerInv, FromTables, Served(stack, answer), \A o \in Objects : Equipped(o),
           Provided
    PROVE  /\ \A s, a : s = stack' /\ a = answer' => Served(s, a)'
           /\ \A o \in Objects' : Equipped(o)'
<1>1. PICK f, x, s0 : f = Last(stack) /\ x = Front(stack) /\ s0 = stack
  OBVIOUS
<1>2. /\ stack # <<>> /\ answer = NoAnswer /\ stack' = x /\ f.todo = <<>>
      /\ UNCHANGED <<registrations, wanted>>
  BY <1>1 DEF Provided
<1>3. RegistryOK /\ Frames(s0) /\ s0 # <<>>
  BY <1>1, <1>2 DEF ContainerInv
<1>4. /\ Frames(x) /\ FrameOK(f) /\ f.key \notin DOMAIN singletons
      /\ x # <<>> => Waiting(Last(x)) /\ Awaited(Last(x)) = f.key
      /\ x = <<>> => f.key = Head(wanted)
  BY <1>1, <1>3, TopRemoved
<1>5. f.key \in DOMAIN registrations /\ f.provider = registrations[f.key]
      /\ f.provider.needs \in Needs
  BY <1>3, <1>4 DEF FrameOK, RegistryOK, ProviderOK, Needs
<1>6. f.provider.lifetime = "singleton" /\ f.provider.kind # "raises"
  BY <1>5, PlainProviders
<1>7. PICK object : object = Object
  OBVIOUS
<1>8. /\ answer' = Value(object) /\ Cache(f, object)
      /\ made' = IF f.provider.kind = "alias" THEN made
                 ELSE Append(made, [provider |-> f.provider, got |-> f.got])
      /\ \A k \in DOMAIN singletons : singletons'[k] = singletons[k]
  BY <1>1, <1>6, <1>7, ProvidedObject DEF ProvidedCases
<1>9. /\ \A k \in DOMAIN singletons : k \in DOMAIN singletons' /\ singletons'[k] = singletons[k]
      /\ f.key \in DOMAIN singletons' /\ singletons'[f.key] = object
  <2>1. singletons' = [k \in DOMAIN singletons \union {f.key} |->
                          IF k \in {f.key} THEN object ELSE singletons[k]]
    BY <1>6, <1>8 DEF Cache, Updated
  <2> QED BY <1>8, <2>1
<1>10. /\ \A h : Fed(h) => Fed(h)'
       /\ \A h : Due(h) => Due(h)'
       /\ \A o : Equipped(o) => Equipped(o)'
       /\ \A s : StackDue(s) => StackDue(s)'
  BY <1>2, <1>9, ServedStays
<1>11. Fed(f) /\ Consumed(f) = Len(f.provider.needs)
  <2>1. Len(f.todo) = 0 /\ Len(f.provider.needs) \in Nat
    BY <1>2, <1>5 DEF Needs
  <2>2. Consumed(f) = Len(f.provider.needs)
    BY <2>1 DEF Consumed
  <2> QED BY <1>1, <1>2, <2>2 DEF Served
<1>12. \A o \in Objects' : Equipped(o)'
  <2>1. IsSeq(made)
    BY <1>3 DEF RegistryOK
  <2>2. PICK o : o = [provider |-> f.provider, got |-> f.got]
    OBVIOUS
  <2>3. Equipped(o)
    <3>1. o.provider = f.provider /\ o.got = f.got
      BY <2>2
    <3> QED BY <1>5, <1>11, <3>1 DEF Equipped, Fed
  <2>4. Objects' \subseteq Objects \union {o}
    <3>1. CASE f.provider.kind = "alias"
      BY <1>8, <3>1 DEF Objects
    <3>2. CASE f.provider.kind # "alias"
      <4>1. made' = Append(made, o)
        BY <1>8, <2>2, <3>2
      <4>2. /\ Len(made) \in Nat /\ Len(made') = Len(made) + 1
            /\ \A i \in 1..Len(made) : made'[i] = made[i]
            /\ made'[Len(made) + 1] = o
        BY <2>1, <4>1, AppendIs
      <4>3. \A i \in 1..Len(made') : i \in 1..Len(made) \/ i = Len(made) + 1
        BY <4>2
      <4> QED BY <4>2, <4>3 DEF Objects
    <3> QED BY <3>1, <3>2
  <2> QED BY <1>10, <2>3, <2>4
<1>13. Served(x, Value(object))'
  <2>1. /\ IsSeq(s0) /\ Len(s0) \in Nat /\ Len(s0) > 0 /\ IsSeq(x) /\ Len(x) = Len(s0) - 1
        /\ \A i \in 1..(Len(s0) - 1) : x[i] = s0[i]
    <3>1. IsSeq(s0) /\ s0 # <<>>
      BY <1>3 DEF Frames
    <3> QED BY <1>1, <3>1, LastIs
  <2>2. \A i \in 1..Len(x) : Due(x[i])
    BY <1>1, <2>1 DEF Served, StackDue
  <2>3. StackDue(x)
    <3>1. 1..(Len(x) - 1) \subseteq 1..Len(x)
      BY <2>1
    <3> QED BY <2>2, <3>1 DEF StackDue
  <2>4. x # <<>> => Due(Last(x))
    <3>1. x # <<>> => Last(x) = x[Len(x)] /\ Len(x) \in 1..Len(x)
      BY <2>1, SeqIs DEF Last
    <3> QED BY <2>2, <3>1
  <2>5. Asking(x)' = f.key
    BY <1>2, <1>4 DEF Asking, Awaited, Consumed
  <2>6. /\ Value(object) # NoAnswer /\ Value(object).kind = "value"
        /\ Value(object).object = object
    BY DEF Value, NoAnswer
  <2>7. PICK a : a = Value(object)
    OBVIOUS
  <2>8. Served(x, a)'
    BY <1>9, <1>10, <2>3, <2>4, <2>5, <2>6, <2>7 DEF Served
  <2> QED BY <2>7, <2>8
<1> QED BY <1>2, <1>8, <1>12, <1>13

\* Nothing is asked for, and nothing is missing.
LEMMA ServedIdle == Served(<<>>, NoAnswer)
<1>1. Len(<<>>) = 0 /\ 1..(0 - 1) = {}
  OBVIOUS
<1>2. NoAnswer.kind = "none"
  BY DEF NoAnswer
<1> QED BY <1>1, <1>2 DEF Served, StackDue

LEMMA PlainEquipped ==
    ASSUME NEW o, o.provider.needs = <<>>, o.got = <<>>
    PROVE  Equipped(o)
<1>1. <<>> \in Needs /\ Len(<<>>) = 0
  BY DEF Needs
<1>2. Gets(<<>>, <<>>)
  BY DEF Gets, ToSet, Maps
<1> QED BY <1>1, <1>2 DEF Equipped, Supplied, FoundLaw

\* One step of a resolution.
LEMMA ResolveStepServed ==
    ASSUME ContainerInv, FromTables, Required, Served(stack, answer),
           \A o \in Objects : Equipped(o), ResolveStep, NoCircle'
    PROVE  /\ \A s, a : s = stack' /\ a = answer' => Served(s, a)'
           /\ \A o \in Objects' : Equipped(o)'
<1>1. ASSUME UNCHANGED <<registrations, singletons, made>>
      PROVE  \A o \in Objects' : Equipped(o)'
  BY <1>1, ServedStays DEF Objects
<1>2. ASSUME Resolve \/ NextNeed \/ Injected
      PROVE  UNCHANGED <<registrations, singletons, made>>
  BY <1>2 DEF Resolve, NextNeed, Injected
<1>3. ~Unwind
  BY DEF Unwind, Served
<1> QED BY <1>1, <1>2, <1>3, ResolveServed, NextNeedServed, InjectedServed, ProvidedServed
       DEF ResolveStep

LEMMA ServedKept ==
    ASSUME PipelineInv, TablesInv, CycleInv, ServedInv, [Next]_vars
    PROVE  ServedInv'
<1>1. ASSUME UNCHANGED <<registrations, singletons, made>>, \A o \in Objects : Equipped(o)
      PROVE  \A o \in Objects' : Equipped(o)'
  BY <1>1, ServedStays DEF Objects
<1>2. phase \in {"process", "plan", "validate", "create", "register"} =>
          \A o \in Objects : Equipped(o)
  <2>1. phase \in {"process", "plan", "validate", "create"} => Objects = {}
    BY DEF TablesInv, Objects
  <2>2. phase = "register" => \A o \in Objects : Equipped(o)
    BY PlainEquipped DEF TablesInv, Objects
  <2> QED BY <2>1, <2>2
<1>3. ASSUME Resolving
      PROVE  ServedInv'
  <2>1. phase = "preflight" /\ phase' = phase /\ ResolveStep
    BY <1>3 DEF Resolving, bootstrap
  <2>2. PipelineInv' /\ TablesInv' /\ CycleInv'
    BY PipelineKept, TablesKept, CycleKept
  <2>3. RegistryOK' /\ FromTables' /\ CycleInv'
    BY <2>1, <2>2 DEF PipelineInv, ContainerInv, TablesInv
  <2>4. NoCycle'
    BY NoCycleIs, PTL
  <2>5. NoCircle'
    BY <2>3, <2>4 DEF NoCycle, NoCircle, CycleInv
  <2>6. /\ ContainerInv /\ FromTables /\ Required /\ Served(stack, answer)
        /\ \A o \in Objects : Equipped(o)
    BY <2>1 DEF PipelineInv, TablesInv, ServedInv
  <2>7. /\ \A s, a : s = stack' /\ a = answer' => Served(s, a)'
        /\ \A o \in Objects' : Equipped(o)'
    BY <2>1, <2>5, <2>6, ResolveStepServed
  <2> QED BY <2>7 DEF ServedInv
<1>4. ASSUME stack' = <<>>, answer' = NoAnswer, UNCHANGED <<registrations, singletons, made>>,
             \A o \in Objects : Equipped(o)
      PROVE  ServedInv'
  <2>1. Served(<<>>, NoAnswer)'
    BY ServedIdle, PTL
  <2>2. \A s, a : s = stack' /\ a = answer' => Served(s, a)'
    BY <1>4, <2>1
  <2> QED BY <1>1, <1>4, <2>2 DEF ServedInv
<1>5. ASSUME CheckService
      PROVE  ServedInv'
  <2>1. /\ phase = "preflight" /\ stack' = <<>> /\ answer' = NoAnswer
        /\ UNCHANGED <<registrations, singletons, made>>
    BY <1>5 DEF CheckService
  <2> QED BY <1>4, <2>1 DEF ServedInv
<1>6. ASSUME Register
      PROVE  ServedInv'
  <2>1. phase = "register" /\ stack' = stack /\ answer' = answer
    BY <1>6 DEF Register
  <2>2. CASE Len(registered) < Len(plan)
    <3>1. phase' = "register"
      BY <1>6, <2>1, <2>2 DEF Register
    <3> QED BY <3>1 DEF ServedInv
  <2>3. CASE ~(Len(registered) < Len(plan))
    <3>1. UNCHANGED <<registrations, singletons, made>>
      BY <1>6, <2>3 DEF Register
    <3>2. stack = <<>> /\ answer = NoAnswer
      BY <2>1 DEF PipelineInv, PhaseInv
    <3> QED BY <1>2, <1>4, <2>1, <3>1, <3>2
  <2> QED BY <2>2, <2>3
<1>7. ASSUME Plan \/ validate_service_keys \/ container_factory \/ RegistrarRaises \/ Complete
             \/ Configure \/ main \/ Exit
      PROVE  ServedInv'
  <2>1. UNCHANGED <<registrations, singletons, made>> /\ phase' # "preflight"
        /\ phase \in {"process", "plan", "validate", "create", "register", "preflight", "done"}
    BY <1>7 DEF Plan, validate_service_keys, container_factory, RegistrarRaises, Complete,
                Configure, main, Exit, End, container, bootstrap
  <2>2. \A o \in Objects : Equipped(o)
    BY <1>2, <2>1 DEF ServedInv
  <2> QED BY <1>1, <2>1, <2>2 DEF ServedInv
<1>8. ASSUME Host
      PROVE  ServedInv'
  <2>1. phase' = "host"
    BY <1>8 DEF Host, bootstrap
  <2> QED BY <2>1 DEF ServedInv
<1>9. ASSUME UNCHANGED vars
      PROVE  ServedInv'
  <2>1. UNCHANGED <<registrations, singletons, made, stack, answer, phase, wanted>>
    BY <1>9 DEF vars, container, bootstrap
  <2>2. \A s, a : Served(s, a) => Served(s, a)'
    <3>1. /\ \A h : Fed(h) => Fed(h)'
          /\ \A h : Due(h) => Due(h)'
          /\ \A s : StackDue(s) => StackDue(s)'
      BY <2>1, ServedStays
    <3>2. \A s : Asking(s)' = Asking(s)
      BY <2>1 DEF Asking, Awaited, Consumed
    <3> QED BY <2>1, <3>1, <3>2 DEF Served
  <2> QED BY <1>1, <2>1, <2>2 DEF ServedInv
<1> QED BY <1>3, <1>5, <1>6, <1>7, <1>8, <1>9 DEF Next, BootstrapNext

LEMMA ServedStarts ==
    ASSUME Init
    PROVE  PipelineInv /\ TablesInv /\ CycleInv /\ ServedInv
<1>1. phase \in {"plan", "host", "process"} /\ registrations = <<>> /\ made = <<>>
      /\ registered = <<>> /\ answer = NoAnswer
  BY DEF Init, BootstrapInit, HostInit, ProcessInit, Fresh, ContainerInit
<1>2. TablesInv
  <2>1. DOMAIN registrations = {} /\ Len(made) = 0 /\ Len(registered) = 0
    BY <1>1
  <2> QED BY <1>1, <2>1 DEF TablesInv, FromTables, Required
<1>3. CycleInv
  BY <1>1 DEF CycleInv, NoAnswer
<1>4. ServedInv
  BY <1>1 DEF ServedInv
<1> QED BY <1>2, <1>3, <1>4, PipelineStarts DEF PipelineInv

\* A finished run has given every object all its registered dependencies, and the
\* same object to all that share one (Bootstrap's SharedAndComplete).
THEOREM AllInjected == Spec => []SharedAndComplete
<1>1. Init => PipelineInv /\ TablesInv /\ CycleInv /\ ServedInv
  BY ServedStarts
<1>2. PipelineInv /\ TablesInv /\ CycleInv /\ ServedInv /\ [Next]_vars =>
          (PipelineInv /\ TablesInv /\ CycleInv /\ ServedInv)'
  BY PipelineKept, TablesKept, CycleKept, ServedKept
<1>3. PipelineInv /\ ServedInv => SharedAndComplete
  <2> SUFFICES ASSUME PipelineInv, ServedInv, phase = "done", NEW i \in DOMAIN made
               PROVE  FullyInjected(made[i])
    BY DEF SharedAndComplete
  <2>0. PICK o : o = made[i]
    OBVIOUS
  <2>1. Equipped(o)
    <3>1. IsSeq(made)
      BY DEF PipelineInv, ContainerInv, RegistryOK
    <3>2. DOMAIN made = 1..Len(made)
      BY <3>1, SeqIs
    <3>3. o \in Objects
      BY <2>0, <3>2 DEF Objects
    <3> QED BY <3>3 DEF ServedInv
  <2>2. PICK F : F = FoundAmong(o.provider.needs)
    OBVIOUS
  <2>3. FoundLaw(o.provider.needs, F)
    BY <2>1, <2>2, FoundIs DEF Equipped
  <2>4. Gets(F[Len(o.provider.needs)], o.got)
    BY <2>1, <2>3 DEF Equipped, Supplied
  <2>5. FullyInjected(o)
    BY <2>2, <2>4 DEF FullyInjected, Found, Gets, Maps
  <2> QED BY <2>0, <2>5
<1> QED BY <1>1, <1>2, <1>3, PTL DEF Spec

-----------------------------------------------------------------------------
(* The preflight report.                                                    *)

\* The report says of the services that are asked for whether they were built, and
\* those it does not mention are still wanted; a run succeeds if it built all.
ReportInv ==
    /\ IsSeq(report)
    /\ phase \notin {"preflight", "done"} => report = <<>>
    /\ phase = "preflight" =>
           /\ ToSet(wanted) \subseteq Asks(plan)
           /\ Asks(plan) \subseteq ToSet(wanted) \union
                                   {report[i].service : i \in 1..Len(report)}
    /\ \A i \in 1..Len(report) :
           \/ report[i].resolved = TRUE /\ report[i].service \in DOMAIN singletons
           \/ /\ report[i].resolved = FALSE
              /\ report[i].service \in Asks(plan)
              /\ report[i].service \notin DOMAIN registrations
    /\ result.status = "success" => Asks(plan) \subseteq DOMAIN singletons
    /\ phase = "done" /\ plan # <<>> /\ Len(registered) = Len(plan)
       /\ Asks(plan) \subseteq DOMAIN registrations => result.status = "success"

\* A report has a failed check if one of its entries is not resolved.
LEMMA FailedChecksAre ==
    ASSUME IsSeq(report)
    PROVE  failed_checks(report) > 0 <=> \E i \in 1..Len(report) : ~report[i].resolved
<1> DEFINE F == {i \in DOMAIN report : ~report[i].resolved}
<1>1. DOMAIN report = 1..Len(report) /\ Len(report) \in Nat
  BY SeqIs
<1>2. IsFiniteSet(F)
  <2>1. F \subseteq 1..Len(report)
    BY <1>1
  <2>2. IsFiniteSet(1..Len(report))
    BY <1>1, FS_Interval
  <2> QED BY <2>1, <2>2, FS_Subset
<1>3. Cardinality(F) \in Nat /\ (Cardinality(F) = 0 <=> F = {})
  BY <1>2, FS_CardinalityType, FS_EmptySet
<1>4. failed_checks(report) = Cardinality(F)
  BY DEF failed_checks
<1>5. F = {} <=> ~\E i \in 1..Len(report) : ~report[i].resolved
  BY <1>1
<1> HIDE DEF F
<1> QED BY <1>3, <1>4, <1>5

\* One service more is checked.
LEMMA CheckKeepsReport ==
    ASSUME PipelineInv, ServedInv, ReportInv, CheckService
    PROVE  ReportInv'
<1>1. /\ phase = "preflight" /\ stack = <<>> /\ answer # NoAnswer
      /\ wanted' = Tail(wanted)
      /\ UNCHANGED <<registrations, singletons, phase, plan, registered, result>>
  BY DEF CheckService
<1>2. PICK e : e = PreflightEntry(Head(wanted), answer.kind = "value")
  OBVIOUS
<1>3. report' = Append(report, e)
  BY <1>2 DEF CheckService
<1>4. e.service = Head(wanted) /\ e.resolved = (answer.kind = "value")
  BY <1>2 DEF PreflightEntry
<1>5. /\ IsSeq(report') /\ Len(report) \in Nat /\ Len(report') = Len(report) + 1
      /\ \A i \in 1..Len(report) : report'[i] = report[i]
      /\ report'[Len(report) + 1] = e
  BY <1>3, AppendIs, SeqIs DEF ReportInv
<1>6. wanted \in Seq(STRING) /\ wanted # <<>> /\ answer.kind \in {"value", "error"}
  BY <1>1 DEF PipelineInv, ContainerInv, AnswerOK
<1>7. /\ Head(wanted) \in ToSet(wanted)
      /\ ToSet(wanted) \subseteq {Head(wanted)} \union ToSet(Tail(wanted))
      /\ ToSet(Tail(wanted)) \subseteq ToSet(wanted)
  <2>1. IsSeq(wanted)
    BY <1>6, IsSeqIntro
  <2>2. /\ IsSeq(Tail(wanted)) /\ Len(wanted) \in Nat /\ Len(wanted) > 0
        /\ Len(Tail(wanted)) = Len(wanted) - 1
        /\ \A i \in 1..(Len(wanted) - 1) : Tail(wanted)[i] = wanted[i + 1]
        /\ Head(wanted) = wanted[1]
    BY <1>6, <2>1, TailIs
  <2>3. PICK n \in Nat : n = Len(wanted) /\ n > 0
    BY <2>2
  <2>4. PICK t : t = Tail(wanted)
    OBVIOUS
  <2>5. DOMAIN wanted = 1..n /\ DOMAIN t = 1..(n - 1)
    BY <2>1, <2>2, <2>3, <2>4, SeqIs
  <2>6. \A i \in 1..(n - 1) : t[i] = wanted[i + 1]
    BY <2>2, <2>3, <2>4
  <2>7. \A i \in 1..n : i = 1 \/ i - 1 \in 1..(n - 1)
    BY <2>3
  <2>8. \A i \in 1..n : i = 1 \/ wanted[i] = t[i - 1]
    BY <2>6, <2>7
  <2>9. PICK q : q = wanted
    OBVIOUS
  <2>10. /\ ToSet(q) = {q[i] : i \in 1..n} /\ ToSet(t) = {t[i] : i \in 1..(n - 1)}
    BY <2>5, <2>9 DEF ToSet
  <2>11. 1 \in 1..n /\ \A i \in 1..(n - 1) : i + 1 \in 1..n
    BY <2>3
  <2>12. Head(wanted) = q[1]
    BY <2>2, <2>9
  <2>13. /\ q[1] \in ToSet(q) /\ ToSet(q) \subseteq {q[1]} \union ToSet(t)
         /\ ToSet(t) \subseteq ToSet(q)
    BY <2>6, <2>7, <2>8, <2>9, <2>10, <2>11
  <2> QED BY <2>4, <2>9, <2>12, <2>13
<1>8. \/ e.resolved = TRUE /\ e.service \in DOMAIN singletons
      \/ /\ e.resolved = FALSE /\ e.service \in Asks(plan)
         /\ e.service \notin DOMAIN registrations
  <2>1. Served(stack, answer)
    BY <1>1 DEF ServedInv
  <2>2. answer.kind = "value" => Head(wanted) \in DOMAIN singletons
    BY <1>1, <2>1 DEF Served, Asking
  <2>3. answer.kind = "error" => Head(wanted) \notin DOMAIN registrations
    BY <2>1 DEF Served
  <2>4. Head(wanted) \in Asks(plan)
    BY <1>1, <1>7 DEF ReportInv
  <2> QED BY <1>4, <1>6, <2>2, <2>3, <2>4
<1>9. \A i \in 1..Len(report') : i \in 1..Len(report) \/ i = Len(report) + 1
  BY <1>5
<1>10. Asks(plan)' = Asks(plan)
  BY <1>1 DEF Asks
<1>11. \A i \in 1..Len(report') :
           \/ report'[i].resolved = TRUE /\ report'[i].service \in DOMAIN singletons'
           \/ /\ report'[i].resolved = FALSE
              /\ report'[i].service \in Asks(plan)'
              /\ report'[i].service \notin DOMAIN registrations'
  BY <1>1, <1>5, <1>8, <1>9, <1>10 DEF ReportInv
<1>12. Asks(plan) \subseteq ToSet(Tail(wanted)) \union
                            {report'[i].service : i \in 1..Len(report')}
  <2>1. {report[i].service : i \in 1..Len(report)} \subseteq
            {report'[i].service : i \in 1..Len(report')}
    BY <1>5
  <2>2. Head(wanted) \in {report'[i].service : i \in 1..Len(report')}
    BY <1>4, <1>5
  <2> QED BY <1>1, <1>7, <2>1, <2>2 DEF ReportInv
<1>13. ToSet(Tail(wanted)) \subseteq Asks(plan)
  BY <1>1, <1>7 DEF ReportInv
<1> QED BY <1>1, <1>5, <1>10, <1>11, <1>12, <1>13 DEF ReportInv

\* The run ends with success if no check failed.
LEMMA CompleteKeepsReport ==
    ASSUME PipelineInv, ReportInv, Complete
    PROVE  ReportInv'
<1>1. /\ phase = "preflight" /\ wanted = <<>> /\ phase' = "done"
      /\ UNCHANGED <<registrations, singletons, plan, registered, report>>
  BY DEF Complete, End, container
<1>2. ToSet(wanted) = {}
  BY <1>1 DEF ToSet
<1>3. \A i \in 1..Len(report) :
          \/ report[i].resolved = TRUE /\ report[i].service \in DOMAIN singletons
          \/ /\ report[i].resolved = FALSE
             /\ report[i].service \in Asks(plan)
             /\ report[i].service \notin DOMAIN registrations
  BY DEF ReportInv
<1>4. result'.status = "success" <=> ~(failed_checks(report) > 0)
  <2>1. CASE failed_checks(report) > 0
    BY <2>1 DEF Complete, End, Failed
  <2>2. CASE ~(failed_checks(report) > 0)
    BY <2>2 DEF Complete, End
  <2> QED BY <2>1, <2>2
<1>5. failed_checks(report) > 0 <=> \E i \in 1..Len(report) : ~report[i].resolved
  BY FailedChecksAre DEF ReportInv
<1>6. result'.status = "success" => Asks(plan) \subseteq DOMAIN singletons
  BY <1>1, <1>2, <1>3, <1>4, <1>5 DEF ReportInv
<1>7. Asks(plan) \subseteq DOMAIN registrations => result'.status = "success"
  BY <1>3, <1>4, <1>5
<1>8. Asks(plan)' = Asks(plan)
  BY <1>1 DEF Asks
<1> QED BY <1>1, <1>3, <1>6, <1>7, <1>8 DEF ReportInv

\* A resolution takes no singleton away.
LEMMA ResolveKeepsSingletons ==
    ASSUME ResolveStep
    PROVE  DOMAIN singletons \subseteq DOMAIN singletons' /\ UNCHANGED <<registrations, wanted>>
<1>1. ASSUME Provided
      PROVE  DOMAIN singletons \subseteq DOMAIN singletons' /\ UNCHANGED <<registrations, wanted>>
  <2>1. UNCHANGED singletons \/ \E new : singletons' = Updated(singletons, new)
    BY <1>1 DEF Provided, Cache
  <2> QED BY <1>1, <2>1 DEF Provided, Updated
<1> QED BY <1>1 DEF ResolveStep, Resolve, NextNeed, Injected, Unwind

LEMMA ReportKept ==
    ASSUME PipelineInv, ServedInv, ReportInv, [Next]_vars
    PROVE  ReportInv'
<1>1. ASSUME UNCHANGED <<plan, report>>, report = <<>>, phase' \notin {"preflight", "done"},
             result'.status # "success"
      PROVE  ReportInv'
  <2>1. Len(report) = 0 /\ IsSeq(report')
    BY <1>1 DEF ReportInv
  <2> QED BY <1>1, <2>1 DEF ReportInv
<1>2. phase \in {"plan", "host", "process"} \union Pipeline => result.status # "success"
  BY DEF PipelineInv, PhaseInv, NoResult, Pipeline
<1>3. ASSUME Register
      PROVE  ReportInv'
  <2>1. phase = "register" /\ UNCHANGED <<plan, report, result>>
    BY <1>3 DEF Register
  <2>2. report = <<>> /\ result.status # "success"
    BY <1>2, <2>1 DEF ReportInv, Pipeline
  <2>3. CASE Len(registered) < Len(plan)
    <3>1. phase' = "register"
      BY <1>3, <2>1, <2>3 DEF Register
    <3> QED BY <1>1, <2>1, <2>2, <3>1
  <2>4. CASE ~(Len(registered) < Len(plan))
    <3>1. phase' = "preflight" /\ wanted' = FlattenSeq(ServicesOf(plan))
      BY <1>3, <2>4 DEF Register, ServicesOf
    <3>2. ToSet(FlattenSeq(ServicesOf(plan))) = Asks(plan)
      BY <2>1, ServicesAre DEF PipelineInv
    <3>3. ToSet(wanted') = Asks(plan) /\ Asks(plan)' = Asks(plan)
      BY <2>1, <3>1, <3>2 DEF Asks
    <3>4. Len(report) = 0 /\ IsSeq(report')
      BY <2>1, <2>2 DEF ReportInv
    <3> QED BY <2>1, <2>2, <3>1, <3>3, <3>4 DEF ReportInv
  <2> QED BY <2>3, <2>4
<1>4. ASSUME Resolving
      PROVE  ReportInv'
  <2>1. /\ phase = "preflight" /\ ResolveStep
        /\ UNCHANGED <<phase, plan, registered, report, result>>
    BY <1>4 DEF Resolving, bootstrap
  <2>2. DOMAIN singletons \subseteq DOMAIN singletons' /\ UNCHANGED <<registrations, wanted>>
    BY <2>1, ResolveKeepsSingletons
  <2>3. Asks(plan)' = Asks(plan)
    BY <2>1 DEF Asks
  <2>4. result'.status # "success"
    BY <1>2, <2>1 DEF Pipeline
  <2>5. \A i \in 1..Len(report) :
            \/ report[i].resolved = TRUE /\ report[i].service \in DOMAIN singletons'
            \/ /\ report[i].resolved = FALSE
               /\ report[i].service \in Asks(plan)
               /\ report[i].service \notin DOMAIN registrations'
    BY <2>2 DEF ReportInv
  <2> QED BY <2>1, <2>2, <2>3, <2>4, <2>5 DEF ReportInv
<1>5. ASSUME Plan \/ validate_service_keys \/ container_factory \/ RegistrarRaises
      PROVE  ReportInv'
  <2>1. /\ UNCHANGED <<report, registered>> /\ phase \in {"plan", "validate", "create", "register"}
        /\ phase' \in {"validate", "create", "register", "done"}
    BY <1>5 DEF Plan, validate_service_keys, container_factory, RegistrarRaises, End
  <2>2. report = <<>>
    BY <2>1 DEF ReportInv
  <2>3. Len(report) = 0 /\ IsSeq(report')
    BY <2>1, <2>2 DEF ReportInv
  <2>4. result'.status # "success"
    <3>1. result' = result \/ \E e : result' = Failed(e)
      BY <1>5 DEF Plan, validate_service_keys, container_factory, RegistrarRaises, End
    <3>2. result.status # "success"
      BY <1>2, <2>1 DEF Pipeline
    <3> QED BY <3>1, <3>2 DEF Failed
  <2>5. phase' = "done" => plan' = <<>> \/ Len(registered') # Len(plan')
    <3>1. ASSUME Plan, phase' = "done"
          PROVE  plan' = <<>>
      BY <3>1 DEF Plan, PipelineInv, PhaseInv
    <3>2. ASSUME validate_service_keys \/ container_factory
          PROVE  plan' = <<>> \/ Len(registered') # Len(plan')
      <4>1. UNCHANGED <<plan, registered>> /\ registered = <<>> /\ phase \in Pipeline
        BY <3>2 DEF validate_service_keys, container_factory, PipelineInv, BuildInv, Pipeline
      <4>2. IsSeq(plan)
        <5>1. Accepted(manifest) /\ plan = PlanOf(manifest)
          BY <4>1 DEF PipelineInv, PhaseInv
        <5>2. PICK n \in Nat : DOMAIN plan = 1..n
          BY <5>1, PlanIs
        <5>3. plan = [i \in 1..n |-> plan[i]]
          BY <5>1, <5>2 DEF PlanOf
        <5> QED BY <5>2, <5>3 DEF IsSeq
      <4>3. Len(plan) = 0 => plan = <<>>
        BY <4>2 DEF IsSeq
      <4> QED BY <4>1, <4>3
    <3>3. ASSUME RegistrarRaises
          PROVE  Len(registered') # Len(plan')
      <4>1. UNCHANGED <<plan, registered>> /\ Len(registered) < Len(plan)
        BY <3>3 DEF RegistrarRaises
      <4>2. Len(registered) \in Nat /\ phase \in Pipeline
        <5>1. registered \in Seq(KNOWN_COMPONENT_IDS) /\ phase = "register"
          BY <3>3 DEF PipelineInv, BuildInv, RegistrarRaises
        <5> HIDE DEF KNOWN_COMPONENT_IDS
        <5> QED BY <5>1 DEF Pipeline
      <4>3. Len(plan) \in Nat
        <5>1. Accepted(manifest) /\ plan = PlanOf(manifest)
          BY <4>2 DEF PipelineInv, PhaseInv
        <5> QED BY <5>1, PlanIs
      <4> QED BY <4>1, <4>2, <4>3
    <3> QED BY <1>5, <3>1, <3>2, <3>3
  <2> QED BY <2>1, <2>2, <2>3, <2>4, <2>5 DEF ReportInv
<1>6. ASSUME main
      PROVE  ReportInv'
  <2>1. /\ phase = "process" /\ phase' \in {"plan", "done"} /\ UNCHANGED <<plan, report, result>>
    BY <1>6 DEF main
  <2>2. report = <<>> /\ plan = <<>> /\ result.status # "success"
    BY <1>2, <2>1 DEF ReportInv, PipelineInv, PhaseInv
  <2>3. Len(report) = 0 /\ IsSeq(report')
    BY <2>1, <2>2 DEF ReportInv
  <2> QED BY <2>1, <2>2, <2>3 DEF ReportInv
<1>7. ASSUME Configure \/ Host
      PROVE  ReportInv'
  <2>1. phase \in {"host", "process"} /\ UNCHANGED <<phase, plan, report, result>>
    BY <1>7 DEF Configure, Host, bootstrap
  <2> QED BY <1>1, <1>2, <2>1 DEF ReportInv
<1>8. ASSUME Exit \/ UNCHANGED vars
      PROVE  ReportInv'
  <2>1. UNCHANGED <<registrations, singletons, wanted, phase, plan, registered, report, result>>
    BY <1>8 DEF Exit, vars, container, bootstrap
  <2> QED BY <2>1 DEF ReportInv, Asks
<1> QED BY <1>3, <1>4, <1>5, <1>6, <1>7, <1>8, CheckKeepsReport, CompleteKeepsReport
       DEF Next, BootstrapNext

\* If a manifest asks only for services of its own components, then all the
\* services are registered once the components are.
LEMMA OwnServices ==
    ASSUME PipelineInv, TablesInv, phase = "done", plan # <<>>, Len(registered) = Len(plan),
           SelfContained(manifest)
    PROVE  Asks(plan) \subseteq DOMAIN registrations
<1>0. PICK o : o = TopologicalOrder(manifest)
  OBVIOUS
<1>1. Accepted(manifest) /\ plan = PlanOf(manifest) /\ WellFormed(manifest)
  BY DEF PipelineInv, PhaseInv, Accepted
<1>2. /\ Len(o) \in Nat /\ Among(o, Len(o)) = Identifiers(manifest)
      /\ DOMAIN plan = 1..Len(o) /\ Len(plan) = Len(o)
      /\ \A i \in 1..Len(o) :
             /\ o[i] \in Identifiers(manifest)
             /\ plan[i].component_id = o[i]
             /\ plan[i].required_service_keys = SpecOf(manifest, o[i]).required_service_keys
  BY <1>0, <1>1, PlanIs
<1>3. /\ Identifiers(manifest) \subseteq KNOWN_COMPONENT_IDS
      /\ Len(manifest.components) \in Nat
      /\ DOMAIN manifest.components = 1..Len(manifest.components)
      /\ \A i \in DOMAIN manifest.components :
             Ids(manifest)[i] = manifest.components[i].component_id
      /\ Identifiers(manifest) =
             {manifest.components[i].component_id : i \in DOMAIN manifest.components}
      /\ \A id \in Identifiers(manifest) : \E i \in DOMAIN manifest.components :
             SpecOf(manifest, id) = manifest.components[i]
  BY <1>1, ManifestIs
<1> HIDE DEF COMPONENT_REGISTRARS, KNOWN_COMPONENT_IDS, _COMPONENT_SERVICE, SAFE_SERVICE_KEYS
<1> SUFFICES ASSUME NEW i \in DOMAIN plan, NEW k \in ToSet(plan[i].required_service_keys)
             PROVE  SAFE_SERVICE_KEYS[k] \in DOMAIN registrations
  BY DEF Asks
<1>4. PICK c \in DOMAIN manifest.components :
          k \in ToSet(manifest.components[c].required_service_keys)
  BY <1>2, <1>3
<1>5. PICK j \in DOMAIN manifest.components : k = _COMPONENT_SERVICE[Ids(manifest)[j]].key
  BY <1>4 DEF SelfContained
<1>6. PICK id : id = Ids(manifest)[j]
  OBVIOUS
<1>7. id \in Identifiers(manifest) /\ id \in KNOWN_COMPONENT_IDS
  BY <1>3, <1>6
<1>8. SAFE_SERVICE_KEYS[k] \in DOMAIN COMPONENT_REGISTRARS[id]
  <2>1. /\ _COMPONENT_SERVICE[id].type \in DOMAIN COMPONENT_REGISTRARS[id]
        /\ SAFE_SERVICE_KEYS[_COMPONENT_SERVICE[id].key] = _COMPONENT_SERVICE[id].type
    BY <1>7, TablesAssumption
  <2> QED BY <1>5, <1>6, <2>1
<1>9. PICK n \in 1..Len(o) : o[n] = id
  BY <1>2, <1>7 DEF Among
<1>10. registered[n] = id /\ n \in 1..Len(registered)
  BY <1>2, <1>9 DEF PipelineInv, BuildInv
<1>11. DOMAIN COMPONENT_REGISTRARS[registered[n]] \subseteq DOMAIN registrations
  BY <1>10 DEF TablesInv
<1> QED BY <1>8, <1>10, <1>11

\* A successful run has built every service that the manifest asks for, and a
\* manifest that asks only for its own components' services starts, whichever
\* they are and in whatever order, once they are registered (Bootstrap's
\* ComponentsStandAlone).
THEOREM AlwaysStarts == Spec => []ComponentsStandAlone
<1>1. Init => ReportInv
  <2> SUFFICES ASSUME Init PROVE ReportInv
    OBVIOUS
  <2>1. phase \in {"plan", "host", "process"} /\ report = <<>> /\ result = NoResult
    BY DEF Init, BootstrapInit, HostInit, ProcessInit, Fresh
  <2>2. Len(<<>>) = 0 /\ IsSeq(<<>>)
    BY DEF IsSeq
  <2> QED BY <2>1, <2>2 DEF ReportInv, NoResult
<1>2. /\ Init => PipelineInv /\ TablesInv /\ CycleInv /\ ServedInv
      /\ PipelineInv /\ TablesInv /\ CycleInv /\ ServedInv /\ [Next]_vars =>
             (PipelineInv /\ TablesInv /\ CycleInv /\ ServedInv)'
  BY ServedStarts, PipelineKept, TablesKept, CycleKept, ServedKept
<1>3. PipelineInv /\ ServedInv /\ ReportInv /\ [Next]_vars => ReportInv'
  BY ReportKept
<1>4. PipelineInv /\ TablesInv /\ ReportInv => ComponentsStandAlone
  <2> SUFFICES ASSUME PipelineInv, TablesInv, ReportInv PROVE ComponentsStandAlone
    OBVIOUS
  <2>1. ASSUME result.status = "success", NEW i \in DOMAIN plan,
               NEW k \in ToSet(plan[i].required_service_keys)
        PROVE  SAFE_SERVICE_KEYS[k] \in DOMAIN singletons
    BY <2>1 DEF ReportInv, Asks
  <2>2. ASSUME phase = "done", plan # <<>>, Len(registered) = Len(plan), SelfContained(manifest)
        PROVE  result.status = "success"
    BY <2>2, OwnServices DEF ReportInv
  <2> QED BY <2>1, <2>2 DEF ComponentsStandAlone
<1> QED BY <1>1, <1>2, <1>3, <1>4, PTL DEF Spec
=============================================================================
