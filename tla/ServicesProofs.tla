--------------------------- MODULE ServicesProofs ---------------------------
(***************************************************************************)
(* The services: publish() reaches every subscription in force once,         *)
(* reconnect() loses no subscription, no decision goes against the risk      *)
(* framework or is lost, the market events tell what the cache holds, and    *)
(* what a backtest reports is true.                                          *)
(***************************************************************************)
EXTENDS Services, DataFacts

\* A step of the services is a step of one of them, or leaves it as it was.
LEMMA StepsOfServices ==
    ASSUME [ServicesNext]_services
    PROVE  /\ [Stream!StreamNext]_stream
           /\ [Market!MarketNext]_market
           /\ [Agents!AgentsNext]_agents
           /\ [Bus!BusNext]_bus
           /\ [BacktestNext]_backtest
<1>1. CASE ServicesNext
  BY <1>1 DEF ServicesNext, stream, market, agents, bus, backtest
<1>2. CASE UNCHANGED services
  BY <1>2 DEF services
<1> QED BY <1>1, <1>2

-----------------------------------------------------------------------------
(* The event bus.                                                            *)

Subscribed == [event_type : Bus!EventTypes, handler : Handlers,
               active : BOOLEAN, cleared : BOOLEAN]

\* The subscriptions in force of handler h to the type itself.
InForce(h, type) ==
    {i \in DOMAIN subscriptions :
        /\ subscriptions[i].handler = h
        /\ subscriptions[i].active
        /\ ~subscriptions[i].cleared
        /\ subscriptions[i].event_type = type}

BusTyped ==
    /\ handlers \in [Bus!EventTypes -> Seq(Handlers)]
    /\ subscriptions \in Seq(Subscribed)
    /\ DOMAIN publications = Publishers
    /\ orphaned \in BOOLEAN

\* The lists of handlers are the subscriptions in force.
ListsOK ==
    ~orphaned => \A type \in Bus!EventTypes, h \in Handlers :
        Cardinality(Occurrences(handlers[type], h)) = Cardinality(InForce(h, type))

Publication == [status : {"running", "returned"}, called : Seq(Handlers), started : Nat,
                finished : SUBSET Nat, due : [Handlers -> Nat]]

\* The handlers a publication calls are the ones that were due.
PublicationOK(p) ==
    \/ p.status = "none"
    \/ /\ p \in Publication
       /\ p.status = "returned" => p.finished = DOMAIN p.called
       /\ ~orphaned => \A h \in Handlers : Cardinality(Occurrences(p.called, h)) = p.due[h]

BusInv == BusTyped /\ ListsOK /\ \A t \in Publishers : PublicationOK(publications[t])

LEMMA BusStart ==
    ASSUME Bus!BusInit
    PROVE  BusInv
<1>1. /\ handlers = [type \in Bus!EventTypes |-> <<>>] /\ subscriptions = <<>>
      /\ publications = [t \in Publishers |-> Bus!NoPublication] /\ orphaned = FALSE
  BY DEF Bus!BusInit
<1>2. BusTyped
  <2>1. <<>> \in Seq(Handlers) /\ <<>> \in Seq(Subscribed)
    OBVIOUS
  <2>2. orphaned \in BOOLEAN
    BY <1>1, Zenon
  <2> QED BY <1>1, <2>1, <2>2 DEF BusTyped
<1>3. \A t \in Publishers : PublicationOK(publications[t])
  BY <1>1 DEF PublicationOK, Bus!NoPublication
<1>4. \A type \in Bus!EventTypes, h \in Handlers :
          Occurrences(handlers[type], h) = {} /\ InForce(h, type) = {}
  BY <1>1 DEF Occurrences, InForce
<1> QED BY <1>2, <1>3, <1>4 DEF BusInv, ListsOK

\* Three lists, or fewer, put together.
LEMMA Flattened ==
    ASSUME NEW S, NEW s, NEW n \in {1, 2, 3}, DOMAIN s = 1..n, Len(s) = n,
           \A i \in 1..n : s[i] \in Seq(S)
    PROVE  Bus!FlattenSeq(s) = IF n = 1 THEN s[1] ELSE IF n = 2 THEN s[1] \o s[2]
                               ELSE (s[1] \o s[2]) \o s[3]
<1> DEFINE G(g) == g = [i \in 1..Len(s) |-> IF i = 1 THEN s[i] ELSE g[i - 1] \o s[i]]
           w == [i \in 1..n |-> IF i = 1 THEN s[1] ELSE IF i = 2 THEN s[1] \o s[2]
                                ELSE (s[1] \o s[2]) \o s[3]]
           c == CHOOSE g : G(g)
<1>1. G(w)
  <2>1. \A i \in 1..n : (i = 1 \/ i = 2 \/ i = 3) /\ i - 1 \in 0..n /\ (i # 1 => i - 1 \in 1..n)
    OBVIOUS
  <2>2. \A i \in 1..n : w[i] = IF i = 1 THEN s[i] ELSE w[i - 1] \o s[i]
    BY <2>1
  <2> QED BY <2>2
<1>2. G(c)
  BY <1>1
<1>3. Bus!FlattenSeq(s) = c[n]
  BY DEF Bus!FlattenSeq
<1> HIDE DEF c
<1>4. \A i \in 1..n : c[i] = IF i = 1 THEN s[i] ELSE c[i - 1] \o s[i]
  BY <1>2
<1>5. CASE n = 1
  BY <1>3, <1>4, <1>5
<1>6. CASE n = 2
  <2>1. c[1] = s[1] /\ c[2] = c[1] \o s[2]
    BY <1>4, <1>6
  <2> QED BY <1>3, <1>6, <2>1
<1>7. CASE n = 3
  <2>1. c[1] = s[1] /\ c[2] = c[1] \o s[2] /\ c[3] = c[2] \o s[3]
    BY <1>4, <1>7
  <2> QED BY <1>3, <1>7, <2>1
<1> QED BY <1>5, <1>6, <1>7

LEMMA BaseTypes ==
    /\ Bus!mro["Event"] = <<"Event">>
    /\ Bus!mro["SystemEvent"] = <<"SystemEvent", "Event">>
    /\ Bus!mro["Heartbeat"] = <<"Heartbeat", "SystemEvent", "Event">>
BY DEF Bus!mro

LEMMA BaseTypesOf ==
    ASSUME NEW type \in Bus!EventTypes
    PROVE  /\ Bus!mro[type] \in Seq(Bus!EventTypes)
           /\ Len(Bus!mro[type]) \in {1, 2, 3}
           /\ \A i, j \in 1..Len(Bus!mro[type]) : Bus!mro[type][i] = Bus!mro[type][j] => i = j
<1>1. CASE type = "Event"
  <2>1. Bus!mro[type] = <<"Event">>
    BY <1>1, BaseTypes
  <2>2. 1..Len(Bus!mro[type]) = {1} /\ Len(Bus!mro[type]) = 1 /\ Bus!mro[type] \in Seq(Bus!EventTypes)
    BY <2>1 DEF Bus!EventTypes
  <2> QED BY <2>2
<1>2. CASE type = "SystemEvent"
  <2>1. Bus!mro[type] = <<"SystemEvent", "Event">>
    BY <1>2, BaseTypes
  <2>2. 1..Len(Bus!mro[type]) = {1, 2} /\ Len(Bus!mro[type]) = 2 /\ Bus!mro[type] \in Seq(Bus!EventTypes)
    BY <2>1 DEF Bus!EventTypes
  <2>3. Bus!mro[type][1] # Bus!mro[type][2]
    BY <2>1
  <2> QED BY <2>2, <2>3
<1>3. CASE type = "Heartbeat"
  <2> DEFINE m == Bus!mro[type]
  <2>1. m = <<"Heartbeat", "SystemEvent", "Event">>
    BY <1>3, BaseTypes
  <2>2. 1..Len(m) = {1, 2, 3} /\ Len(m) = 3 /\ m \in Seq(Bus!EventTypes)
    BY <2>1 DEF Bus!EventTypes
  <2>3. m[1] # m[2] /\ m[1] # m[3] /\ m[2] # m[3]
    BY <2>1
  <2> HIDE DEF m
  <2>4. QED BY <2>2, <2>3 DEF m
<1> QED BY <1>1, <1>2, <1>3 DEF Bus!EventTypes

\* The bus counts as everybody does.
LEMMA BusCounts ==
    ASSUME NEW S
    PROVE  Bus!Cardinality(S) = Cardinality(S)
BY DEF Cardinality, Bus!Cardinality

\* What publish() calls is what is due.
LEMMA Matching ==
    ASSUME BusTyped, ListsOK, NEW type \in Bus!EventTypes
    PROVE  /\ Bus!_matching_handlers(type) \in Seq(Handlers)
           /\ Bus!Due(type) \in [Handlers -> Nat]
           /\ ~orphaned => \A h \in Handlers :
                 Cardinality(Occurrences(Bus!_matching_handlers(type), h)) = Bus!Due(type)[h]
<1> DEFINE m == Bus!mro[type]
           n == Len(m)
           s == [i \in DOMAIN m |-> handlers[m[i]]]
           due(h) == {i \in DOMAIN subscriptions :
                        /\ subscriptions[i].handler = h
                        /\ subscriptions[i].active
                        /\ ~subscriptions[i].cleared
                        /\ subscriptions[i].event_type \in Bus!ToSet(m)}
<1>1. /\ m \in Seq(Bus!EventTypes) /\ n \in {1, 2, 3} /\ DOMAIN m = 1..n
      /\ \A i, j \in 1..n : m[i] = m[j] => i = j
  BY BaseTypesOf
<1> HIDE DEF m
<1>2. DOMAIN s = 1..n /\ Len(s) = n /\ \A i \in 1..n : m[i] \in Bus!EventTypes /\ s[i] = handlers[m[i]]
  <2>1. s \in Seq(Seq(Handlers)) /\ Len(s) = n
    BY <1>1 DEF BusTyped
  <2> QED BY <1>1, <2>1
<1>3. \A i \in 1..n : s[i] \in Seq(Handlers)
  BY <1>2 DEF BusTyped
<1>4. Bus!_matching_handlers(type) = Bus!FlattenSeq(s)
  BY DEF Bus!_matching_handlers, m
<1>5. Bus!Due(type) = [h \in Handlers |-> Cardinality(due(h))]
  <2>1. Bus!Due(type) = [h \in Handlers |-> Bus!Cardinality(due(h))]
    BY DEF Bus!Due, m
  <2> HIDE DEF due
  <2>2. \A h \in Handlers : Bus!Cardinality(due(h)) = Cardinality(due(h))
    BY BusCounts
  <2> QED BY <2>1, <2>2
<1> HIDE DEF n, s
<1>6. Bus!FlattenSeq(s) = IF n = 1 THEN s[1] ELSE IF n = 2 THEN s[1] \o s[2]
                          ELSE (s[1] \o s[2]) \o s[3]
  <2>1. \A i \in 1..n : s[i] \in Seq(Handlers)
    BY <1>3
  <2>2. DOMAIN s = 1..n /\ Len(s) = n /\ n \in {1, 2, 3}
    BY <1>1, <1>2
  <2> QED BY <2>1, <2>2, Flattened, Zenon
<1>7. ASSUME NEW h
      PROVE  /\ \A i \in 1..n : IsFiniteSet(InForce(h, m[i]))
             /\ \A i, j \in 1..n : i # j => InForce(h, m[i]) \cap InForce(h, m[j]) = {}
             /\ due(h) = UNION {InForce(h, m[i]) : i \in 1..n}
  <2>1. IsFiniteSet(DOMAIN subscriptions)
    <3>1. DOMAIN subscriptions = 1..Len(subscriptions) /\ Len(subscriptions) \in Int
      BY DEF BusTyped
    <3> QED BY <3>1, FS_Interval
  <2>2. \A x : InForce(h, x) \in SUBSET DOMAIN subscriptions
    BY DEF InForce
  <2>3. \A x : IsFiniteSet(InForce(h, x))
    BY <2>1, <2>2, FS_Subset
  <2>4. Bus!ToSet(m) = {m[i] : i \in 1..n}
    BY <1>1 DEF Bus!ToSet
  <2>5. \A i, j \in 1..n : i # j => InForce(h, m[i]) \cap InForce(h, m[j]) = {}
    <3>1. ASSUME NEW x, NEW y, x # y
          PROVE  InForce(h, x) \cap InForce(h, y) = {}
      BY <3>1 DEF InForce
    <3> QED BY <1>1, <3>1
  <2>6. due(h) = UNION {InForce(h, m[i]) : i \in 1..n}
    <3>1. \A k : k \in due(h) <=> \E x \in Bus!ToSet(m) : k \in InForce(h, x)
      BY DEF InForce
    <3> HIDE DEF due
    <3>2. \A k : k \in due(h) <=> \E i \in 1..n : k \in InForce(h, m[i])
      BY <2>4, <3>1
    <3> QED BY <3>2
  <2> HIDE DEF due
  <2> QED BY <2>3, <2>5, <2>6
<1> HIDE DEF due
<1>8. ASSUME NEW h \in Handlers
      PROVE  /\ Cardinality(due(h)) \in Nat
             /\ ~orphaned => Cardinality(Occurrences(Bus!FlattenSeq(s), h)) = Cardinality(due(h))
  <2> DEFINE F(i) == InForce(h, m[i])
             O(i) == Cardinality(Occurrences(s[i], h))
  <2>1. /\ \A i \in 1..n : IsFiniteSet(F(i)) /\ Cardinality(F(i)) \in Nat
        /\ \A i, j \in 1..n : i # j => F(i) \cap F(j) = {}
        /\ due(h) = UNION {F(i) : i \in 1..n}
    <3>1. \A i \in 1..n : IsFiniteSet(F(i))
      BY <1>7
    <3>2. \A i \in 1..n : Cardinality(F(i)) \in Nat
      <4> HIDE DEF F
      <4> QED BY <3>1, FS_CardinalityType
    <3> QED BY <1>7, <3>1, <3>2
  <2>2. ~orphaned => \A i \in 1..n : O(i) = Cardinality(F(i))
    BY <1>2 DEF ListsOK
  <2> HIDE DEF F, O
  <2>3. CASE n = 1
    <3>1. due(h) = F(1)
      BY <2>1, <2>3
    <3>2. 1 \in 1..n /\ Bus!FlattenSeq(s) = s[1]
      BY <1>6, <2>3
    <3> QED BY <2>1, <2>2, <3>1, <3>2 DEF O
  <2>4. CASE n = 2
    <3>1. due(h) = F(1) \union F(2)
      <4>1. 1..n = {1, 2}
        BY <2>4
      <4> QED BY <2>1, <4>1
    <3>2. Cardinality(due(h)) = Cardinality(F(1)) + Cardinality(F(2))
      <4>1. F(1) \cap F(2) = {} /\ IsFiniteSet(F(1)) /\ IsFiniteSet(F(2))
        BY <2>1, <2>4
      <4> QED BY <3>1, <4>1, DisjointSize
    <3>3. Cardinality(Occurrences(s[1] \o s[2], h)) = O(1) + O(2)
      BY <1>3, <2>4, OccurrencesConcat DEF O
    <3>4. Cardinality(F(1)) \in Nat /\ Cardinality(F(2)) \in Nat
      BY <2>1, <2>4
    <3>5. ~orphaned => O(1) = Cardinality(F(1)) /\ O(2) = Cardinality(F(2))
      BY <2>2, <2>4
    <3> QED BY <1>6, <2>4, <3>2, <3>3, <3>4, <3>5
  <2>5. CASE n = 3
    <3>1. due(h) = (F(1) \union F(2)) \union F(3)
      <4>1. 1..n = {1, 2, 3}
        BY <2>5
      <4> QED BY <2>1, <4>1
    <3>2. /\ F(1) \cap F(2) = {} /\ F(1) \cap F(3) = {} /\ F(2) \cap F(3) = {}
          /\ IsFiniteSet(F(1)) /\ IsFiniteSet(F(2)) /\ IsFiniteSet(F(3))
          /\ Cardinality(F(1)) \in Nat /\ Cardinality(F(2)) \in Nat /\ Cardinality(F(3)) \in Nat
      BY <2>1, <2>5
    <3>3. /\ IsFiniteSet(F(1) \union F(2))
          /\ Cardinality(F(1) \union F(2)) = Cardinality(F(1)) + Cardinality(F(2))
      BY <3>2, DisjointSize
    <3>4. (F(1) \union F(2)) \cap F(3) = {}
      BY <3>2
    <3>5. Cardinality(due(h)) = (Cardinality(F(1)) + Cardinality(F(2))) + Cardinality(F(3))
      BY <3>1, <3>2, <3>3, <3>4, DisjointSize
    <3>6. s[1] \in Seq(Handlers) /\ s[2] \in Seq(Handlers) /\ s[3] \in Seq(Handlers)
      BY <1>3, <2>5
    <3>7. s[1] \o s[2] \in Seq(Handlers) /\ Cardinality(Occurrences(s[1] \o s[2], h)) = O(1) + O(2)
      BY <3>6, OccurrencesConcat DEF O
    <3>8. Cardinality(Occurrences((s[1] \o s[2]) \o s[3], h)) = (O(1) + O(2)) + O(3)
      <4> DEFINE t == s[1] \o s[2]
      <4>1. t \in Seq(Handlers) /\ Cardinality(Occurrences(t, h)) = O(1) + O(2)
        BY <3>7
      <4> HIDE DEF t
      <4>2. Cardinality(Occurrences(t \o s[3], h)) = Cardinality(Occurrences(t, h)) + O(3)
        BY <3>6, <4>1, OccurrencesConcat DEF O
      <4> QED BY <4>1, <4>2 DEF t
    <3>9. ~orphaned => O(1) = Cardinality(F(1)) /\ O(2) = Cardinality(F(2)) /\ O(3) = Cardinality(F(3))
      BY <2>2, <2>5
    <3> QED BY <1>6, <2>5, <3>2, <3>5, <3>8, <3>9
  <2> QED BY <1>1, <2>3, <2>4, <2>5
<1>9. Bus!FlattenSeq(s) \in Seq(Handlers)
  BY <1>1, <1>3, <1>6
<1> QED BY <1>4, <1>5, <1>8, <1>9

LEMMA InForceIs ==
    ASSUME BusTyped, NEW h, NEW type
    PROVE  IsFiniteSet(InForce(h, type)) /\ Cardinality(InForce(h, type)) \in Nat
<1>1. DOMAIN subscriptions = 1..Len(subscriptions) /\ Len(subscriptions) \in Int
  BY DEF BusTyped
<1>2. IsFiniteSet(DOMAIN subscriptions) /\ InForce(h, type) \in SUBSET DOMAIN subscriptions
  BY <1>1, FS_Interval DEF InForce
<1> QED BY <1>2, FS_Subset, FS_CardinalityType

\* Publications are what they were, and a list can only lose its excuse.
LEMMA PublicationsStay ==
    ASSUME BusInv, UNCHANGED publications, ~orphaned' => ~orphaned
    PROVE  \A t \in Publishers : PublicationOK(publications[t])'
BY DEF BusInv, PublicationOK

LEMMA SubscribeKeeps ==
    ASSUME BusInv, NEW type \in Bus!EventTypes, NEW handler \in Handlers,
           Bus!subscribe(type, handler)
    PROVE  BusInv'
<1> DEFINE n == Len(subscriptions) + 1
           new == Bus!Subscription(type, handler)
<1>1. BusTyped /\ ListsOK
  BY DEF BusInv
<1>2. /\ handlers' = [handlers EXCEPT ![type] = Append(@, handler)]
      /\ subscriptions' = Append(subscriptions, new)
      /\ publications' = publications /\ orphaned' = orphaned
  BY DEF Bus!subscribe
<1>3. /\ new \in Subscribed /\ new.handler = handler /\ new.active /\ ~new.cleared
      /\ new.event_type = type
  BY DEF Bus!Subscription, Subscribed
<1> HIDE DEF new
<1>4. BusTyped'
  <2>1. handlers' \in [Bus!EventTypes -> Seq(Handlers)]
    BY <1>1, <1>2 DEF BusTyped
  <2>2. subscriptions' \in Seq(Subscribed)
    BY <1>1, <1>2, <1>3 DEF BusTyped
  <2> QED BY <1>1, <1>2, <2>1, <2>2 DEF BusTyped
<1>5. /\ DOMAIN subscriptions' = DOMAIN subscriptions \union {n} /\ n \notin DOMAIN subscriptions
      /\ \A i \in DOMAIN subscriptions : subscriptions'[i] = subscriptions[i]
      /\ subscriptions'[n] = new
  BY <1>1, <1>2, <1>3 DEF BusTyped
<1>6. ASSUME NEW x \in Bus!EventTypes, NEW h \in Handlers, ~orphaned
      PROVE  Cardinality(Occurrences(handlers'[x], h)) = Cardinality(InForce(h, x)')
  <2>1. InForce(h, x)' = IF x = type /\ h = handler THEN InForce(h, x) \union {n}
                         ELSE InForce(h, x)
    BY <1>3, <1>5 DEF InForce
  <2>2. n \notin InForce(h, x)
    BY <1>5 DEF InForce
  <2>3. Cardinality(InForce(h, x)') =
            Cardinality(InForce(h, x)) + IF x = type /\ h = handler THEN 1 ELSE 0
    BY <1>1, <2>1, <2>2, InForceIs, FS_AddElement
  <2>4. Cardinality(Occurrences(handlers[x], h)) = Cardinality(InForce(h, x))
    BY <1>1, <1>6 DEF ListsOK
  <2>5. CASE x = type
    <3>1. handlers'[x] = Append(handlers[x], handler) /\ handlers[x] \in Seq(Handlers)
      BY <1>1, <1>2, <2>5 DEF BusTyped
    <3>2. Cardinality(Occurrences(handlers'[x], h)) =
              Cardinality(Occurrences(handlers[x], h)) + IF handler = h THEN 1 ELSE 0
      BY <3>1, OccurrencesAppend
    <3> QED BY <2>3, <2>4, <2>5, <3>2
  <2>6. CASE x # type
    <3>1. handlers'[x] = handlers[x]
      BY <1>1, <1>2, <2>6 DEF BusTyped
    <3>2. Cardinality(InForce(h, x)') = Cardinality(InForce(h, x))
      BY <2>1, <2>6
    <3> QED BY <2>4, <3>1, <3>2
  <2> QED BY <2>5, <2>6
<1>7. ListsOK'
  BY <1>2, <1>6 DEF ListsOK
<1>8. \A t \in Publishers : PublicationOK(publications[t])'
  BY <1>2, PublicationsStay
<1> QED BY <1>4, <1>7, <1>8 DEF BusInv

\* list.remove takes one occurrence away, if there is one.
LEMMA RemoveIs ==
    ASSUME NEW list \in Seq(Handlers), NEW handler
    PROVE  /\ Bus!remove(list, handler) \in Seq(Handlers)
           /\ \A h : (\E i \in DOMAIN list : list[i] = handler) =>
                 Cardinality(Occurrences(Bus!remove(list, handler), h)) =
                     Cardinality(Occurrences(list, h)) - IF handler = h THEN 1 ELSE 0
<1> DEFINE T == Occurrences(list, handler)
           c == CHOOSE i \in DOMAIN list : list[i] = handler /\ \A j \in 1..(i - 1) : list[j] # handler
<1>1. CASE \E i \in DOMAIN list : list[i] = handler
  <2>1. \E i \in DOMAIN list : list[i] = handler /\ \A j \in 1..(i - 1) : list[j] # handler
    <3>1. T \subseteq 1..Len(list) /\ T \subseteq Nat /\ T # {}
      BY <1>1 DEF Occurrences
    <3>2. PICK i \in T : \A k \in T : i <= k
      <4> HIDE DEF T
      <4> QED BY <3>1, LeastNatural
    <3>3. i \in Nat /\ i \in DOMAIN list /\ list[i] = handler
      BY <3>1, <3>2 DEF Occurrences
    <3>4. ASSUME NEW j \in 1..(i - 1), list[j] = handler
          PROVE  FALSE
      <4>1. j \in DOMAIN list /\ ~(i <= j)
        BY <3>3, <3>4
      <4> QED BY <3>2, <3>4, <4>1 DEF Occurrences
    <3> QED BY <3>3, <3>4
  <2>2. c \in DOMAIN list /\ list[c] = handler
    BY <2>1
  <2>3. Bus!remove(list, handler) = SubSeq(list, 1, c - 1) \o SubSeq(list, c + 1, Len(list))
    BY <1>1 DEF Bus!remove, Bus!RemoveAt
  <2> HIDE DEF c
  <2>4. c \in 1..Len(list)
    BY <2>2
  <2>5. Bus!remove(list, handler) \in Seq(Handlers)
    BY <2>3, <2>4, WithoutIs
  <2>6. ASSUME NEW h
        PROVE  Cardinality(Occurrences(Bus!remove(list, handler), h)) =
                   Cardinality(Occurrences(list, h)) - IF handler = h THEN 1 ELSE 0
    BY <2>2, <2>3, <2>4, OccurrencesWithout
  <2> QED BY <2>5, <2>6
<1>2. CASE ~\E i \in DOMAIN list : list[i] = handler
  BY <1>2 DEF Bus!remove
<1> QED BY <1>1, <1>2

LEMMA UnsubscribeKeeps ==
    ASSUME BusInv, NEW n, Bus!unsubscribe(n)
    PROVE  BusInv'
<1> DEFINE gone == subscriptions[n]
           type == gone.event_type
           handler == gone.handler
<1>1. BusTyped /\ ListsOK
  BY DEF BusInv
<1>2. /\ n \in DOMAIN subscriptions /\ gone.active
      /\ handlers' = [handlers EXCEPT ![type] = Bus!remove(@, handler)]
      /\ subscriptions' = [subscriptions EXCEPT ![n].active = FALSE]
      /\ orphaned' = (orphaned \/ gone.cleared)
      /\ publications' = publications
  BY DEF Bus!unsubscribe
<1>3. /\ gone \in Subscribed /\ type \in Bus!EventTypes /\ handler \in Handlers
      /\ gone.cleared \in BOOLEAN /\ handlers[type] \in Seq(Handlers)
  <2>1. gone \in Subscribed
    BY <1>1, <1>2 DEF BusTyped
  <2>2. type \in Bus!EventTypes /\ handler \in Handlers /\ gone.cleared \in BOOLEAN
    BY <2>1 DEF Subscribed
  <2> QED BY <1>1, <2>1, <2>2 DEF BusTyped
<1>4. ~orphaned' => ~orphaned /\ ~gone.cleared
  BY <1>2
<1>5. /\ DOMAIN subscriptions' = DOMAIN subscriptions
      /\ \A i \in DOMAIN subscriptions : i # n => subscriptions'[i] = subscriptions[i]
      /\ subscriptions'[n] = [gone EXCEPT !.active = FALSE]
  BY <1>1, <1>2 DEF BusTyped
<1>6. subscriptions'[n] \in Subscribed /\ subscriptions'[n].active = FALSE
  BY <1>3, <1>5 DEF Subscribed
<1>7. BusTyped'
  <2>1. subscriptions' \in Seq(Subscribed)
    <3>1. \A i \in DOMAIN subscriptions : subscriptions'[i] \in Subscribed
      BY <1>1, <1>5, <1>6 DEF BusTyped
    <3>2. DOMAIN subscriptions = 1..Len(subscriptions) /\ Len(subscriptions) \in Nat
      BY <1>1 DEF BusTyped
    <3>3. subscriptions' = [i \in 1..Len(subscriptions) |-> subscriptions'[i]]
      BY <1>1, <1>2, <1>5, <3>2
    <3> QED BY <3>1, <3>2, <3>3
  <2>2. handlers' \in [Bus!EventTypes -> Seq(Handlers)]
    BY <1>1, <1>2, <1>3, RemoveIs DEF BusTyped
  <2>3. orphaned' \in BOOLEAN
    BY <1>2, Zenon
  <2> QED BY <1>1, <1>2, <2>1, <2>2, <2>3 DEF BusTyped
<1>8. ASSUME ~orphaned'
      PROVE  \A x \in Bus!EventTypes, h \in Handlers :
                 Cardinality(Occurrences(handlers'[x], h)) = Cardinality(InForce(h, x)')
  <2>1. n \in InForce(handler, type)
    BY <1>2, <1>4, <1>8 DEF InForce
  <2>2. \A x \in Bus!EventTypes, h \in Handlers :
            Cardinality(Occurrences(handlers[x], h)) = Cardinality(InForce(h, x))
    BY <1>1, <1>4, <1>8 DEF ListsOK
  <2>3. \E i \in DOMAIN handlers[type] : handlers[type][i] = handler
    <3>1. Cardinality(InForce(handler, type)) # 0
      BY <1>1, <2>1, InForceIs, FS_EmptySet
    <3>2. Occurrences(handlers[type], handler) # {}
      <4> HIDE DEF type, handler, gone
      <4>1. Cardinality(Occurrences(handlers[type], handler)) # 0
        BY <1>3, <2>2, <3>1
      <4> QED BY <4>1, FS_EmptySet
    <3> QED BY <3>2 DEF Occurrences
  <2> HIDE DEF type, handler, gone
  <2>4. ASSUME NEW x \in Bus!EventTypes, NEW h \in Handlers
        PROVE  Cardinality(Occurrences(handlers'[x], h)) = Cardinality(InForce(h, x)')
    <3>1. InForce(h, x)' = IF x = type /\ h = handler THEN InForce(h, x) \ {n}
                           ELSE InForce(h, x)
      <4>1. n \notin InForce(h, x)'
        BY <1>6 DEF InForce
      <4>2. \A i : i # n => (i \in InForce(h, x)' <=> i \in InForce(h, x))
        BY <1>5 DEF InForce
      <4>3. n \in InForce(h, x) <=> x = type /\ h = handler
        BY <2>1 DEF InForce
      <4> QED BY <4>1, <4>2, <4>3
    <3>2. CASE x = type
      <4>1. handlers'[x] = Bus!remove(handlers[x], handler) /\ handlers[x] \in Seq(Handlers)
        BY <1>1, <1>2, <1>3, <3>2 DEF BusTyped
      <4>2. Cardinality(Occurrences(handlers'[x], h)) =
                Cardinality(Occurrences(handlers[x], h)) - IF handler = h THEN 1 ELSE 0
        BY <2>3, <3>2, <4>1, RemoveIs
      <4>3. Cardinality(InForce(h, x)) \in Nat /\ IsFiniteSet(InForce(h, x))
        BY <1>1, InForceIs
      <4>4. CASE h = handler
        <5>1. Cardinality(InForce(h, x)') = Cardinality(InForce(h, x)) - 1
          BY <2>1, <3>1, <3>2, <4>3, <4>4, FS_RemoveElement
        <5> QED BY <2>2, <4>2, <4>4, <5>1
      <4>5. CASE h # handler
        <5>1. InForce(h, x)' = InForce(h, x)
          BY <3>1, <4>5
        <5> QED BY <2>2, <4>2, <4>3, <4>5, <5>1
      <4> QED BY <4>4, <4>5
    <3>3. CASE x # type
      <4>1. handlers'[x] = handlers[x]
        BY <1>1, <1>2, <3>3 DEF BusTyped
      <4>2. InForce(h, x)' = InForce(h, x)
        BY <3>1, <3>3
      <4> QED BY <2>2, <4>1, <4>2
    <3> QED BY <3>2, <3>3
  <2> QED BY <2>4
<1>9. ListsOK'
  BY <1>8 DEF ListsOK
<1>10. \A t \in Publishers : PublicationOK(publications[t])'
  BY <1>2, <1>4, PublicationsStay
<1> QED BY <1>7, <1>9, <1>10 DEF BusInv

LEMMA ClearKeeps ==
    ASSUME BusInv, Bus!clear
    PROVE  BusInv'
<1>1. BusTyped
  BY DEF BusInv
<1>2. /\ handlers' = [type \in Bus!EventTypes |-> <<>>]
      /\ subscriptions' = [i \in DOMAIN subscriptions |->
                              [subscriptions[i] EXCEPT !.cleared = TRUE]]
      /\ publications' = publications /\ orphaned' = orphaned
  BY DEF Bus!clear
<1>3. \A i \in DOMAIN subscriptions :
          subscriptions'[i] \in Subscribed /\ subscriptions'[i].cleared = TRUE
  <2>1. \A i \in DOMAIN subscriptions : subscriptions[i] \in Subscribed
    BY <1>1 DEF BusTyped
  <2> QED BY <1>2, <2>1 DEF Subscribed
<1>4. BusTyped'
  <2>1. subscriptions' \in Seq(Subscribed)
    <3>1. DOMAIN subscriptions = 1..Len(subscriptions) /\ Len(subscriptions) \in Nat
      BY <1>1 DEF BusTyped
    <3>2. subscriptions' = [i \in 1..Len(subscriptions) |-> subscriptions'[i]]
      BY <1>2, <3>1
    <3> QED BY <1>3, <3>1, <3>2
  <2>2. handlers' \in [Bus!EventTypes -> Seq(Handlers)]
    BY <1>2
  <2> QED BY <1>1, <1>2, <2>1, <2>2 DEF BusTyped
<1>5. \A type \in Bus!EventTypes, h \in Handlers :
          Occurrences(handlers'[type], h) = {} /\ InForce(h, type)' = {}
  BY <1>2, <1>3 DEF Occurrences, InForce
<1>6. ListsOK'
  BY <1>5 DEF ListsOK
<1>7. \A t \in Publishers : PublicationOK(publications[t])'
  BY <1>2, PublicationsStay
<1> QED BY <1>4, <1>6, <1>7 DEF BusInv

\* A publication that changes alone leaves the lists as they are.
LEMMA OnePublication ==
    ASSUME BusInv, NEW t \in Publishers, NEW p,
           publications' = [publications EXCEPT ![t] = p], PublicationOK(p),
           UNCHANGED <<handlers, subscriptions, orphaned>>
    PROVE  BusInv'
<1>1. BusTyped /\ ListsOK /\ \A x \in Publishers : PublicationOK(publications[x])
  BY DEF BusInv
<1>2. BusTyped'
  BY <1>1 DEF BusTyped
<1>3. ListsOK'
  BY <1>1 DEF ListsOK, InForce
<1>4. ASSUME NEW x \in Publishers
      PROVE  PublicationOK(publications[x])'
  <2>1. publications'[x] = IF x = t THEN p ELSE publications[x]
    BY <1>1 DEF BusTyped
  <2>2. PublicationOK(IF x = t THEN p ELSE publications[x])
    BY <1>1
  <2> QED BY <2>1, <2>2 DEF PublicationOK
<1> QED BY <1>2, <1>3, <1>4 DEF BusInv

LEMMA PublishKeeps ==
    ASSUME BusInv, NEW t \in Publishers, NEW type \in Bus!EventTypes, Bus!publish(t, type)
    PROVE  BusInv'
<1> DEFINE called == Bus!_matching_handlers(type)
           due == Bus!Due(type)
           p == [status |-> IF called = <<>> THEN "returned" ELSE "running",
                 called |-> called, started |-> 0, finished |-> {}, due |-> due]
<1>1. /\ publications' = [publications EXCEPT ![t] = p]
      /\ UNCHANGED <<handlers, subscriptions, orphaned>>
  BY DEF Bus!publish
<1>2. /\ called \in Seq(Handlers) /\ due \in [Handlers -> Nat]
      /\ ~orphaned => \A h \in Handlers : Cardinality(Occurrences(called, h)) = due[h]
  BY Matching DEF BusInv
<1> HIDE DEF called, due
<1>3. p \in Publication
  BY <1>2 DEF Publication
<1>4. p.status = "returned" => called = <<>>
  OBVIOUS
<1>5. called = <<>> => DOMAIN called = {}
  OBVIOUS
<1>6. p.status = "returned" => p.finished = DOMAIN p.called
  BY <1>4, <1>5
<1>7. PublicationOK(p)
  BY <1>2, <1>3, <1>6 DEF PublicationOK
<1> HIDE DEF p
<1> QED BY <1>1, <1>7, OnePublication

LEMMA DeliveryKeeps ==
    ASSUME BusInv, NEW t \in Publishers, Bus!Delivery(t)
    PROVE  BusInv'
<1> DEFINE p == publications[t]
<1>1. PublicationOK(p)
  BY DEF BusInv
<1>2. /\ p.status = "running" => p \in Publication
      /\ ~orphaned /\ p \in Publication =>
            \A h \in Handlers : Cardinality(Occurrences(p.called, h)) = p.due[h]
  BY <1>1 DEF PublicationOK, Publication
<1>3. CASE Bus!HandlerStarts(t)
  <2> DEFINE q == [p EXCEPT !.started = @ + 1]
  <2>1. /\ p.status = "running" /\ publications' = [publications EXCEPT ![t] = q]
        /\ UNCHANGED <<handlers, subscriptions, orphaned>>
    BY <1>3 DEF Bus!HandlerStarts
  <2>2. q \in Publication /\ q.status = "running" /\ q.called = p.called /\ q.due = p.due
    BY <1>2, <2>1 DEF Publication
  <2>3. PublicationOK(q)
    BY <1>2, <2>1, <2>2 DEF PublicationOK
  <2> HIDE DEF q
  <2> QED BY <2>1, <2>3, OnePublication
<1>4. ASSUME NEW i \in 1..MaxSubscriptions, NEW raises \in BOOLEAN, Bus!HandlerEnds(t, i, raises)
      PROVE  BusInv'
  <2> DEFINE q == [p EXCEPT !.finished = @ \union {i}]
  <2>1. /\ p.status = "running" /\ publications' = [publications EXCEPT ![t] = q]
        /\ UNCHANGED <<handlers, subscriptions, orphaned>> /\ i \in 1..p.started
    BY <1>4 DEF Bus!HandlerEnds
  <2>2. p \in Publication /\ p.started \in Nat
    BY <1>2, <2>1 DEF Publication
  <2>3. i \in Nat
    BY <2>1, <2>2
  <2>4. q \in Publication /\ q.status = "running" /\ q.called = p.called /\ q.due = p.due
    BY <2>1, <2>2, <2>3 DEF Publication
  <2>5. PublicationOK(q)
    BY <1>2, <2>2, <2>4 DEF PublicationOK
  <2> HIDE DEF q
  <2> QED BY <2>1, <2>5, OnePublication
<1>5. CASE Bus!Gathered(t)
  <2> DEFINE q == [p EXCEPT !.status = "returned"]
  <2>1. /\ p.status = "running" /\ publications' = [publications EXCEPT ![t] = q]
        /\ UNCHANGED <<handlers, subscriptions, orphaned>> /\ p.finished = DOMAIN p.called
    BY <1>5 DEF Bus!Gathered
  <2>2. /\ q \in Publication /\ q.finished = p.finished /\ q.called = p.called /\ q.due = p.due
    BY <1>2, <2>1 DEF Publication
  <2>3. PublicationOK(q)
    BY <1>2, <2>1, <2>2 DEF PublicationOK
  <2> HIDE DEF q
  <2> QED BY <2>1, <2>3, OnePublication
<1> QED BY <1>3, <1>4, <1>5 DEF Bus!Delivery

LEMMA BusStep ==
    ASSUME BusInv, [Bus!BusNext]_bus
    PROVE  BusInv'
<1>1. CASE UNCHANGED bus
  <2>1. BusTyped'
    BY <1>1 DEF BusInv, BusTyped, bus
  <2>2. ListsOK'
    BY <1>1 DEF BusInv, ListsOK, InForce, bus
  <2>3. \A t \in Publishers : PublicationOK(publications[t])'
    BY <1>1, PublicationsStay DEF bus
  <2> QED BY <2>1, <2>2, <2>3 DEF BusInv
<1>2. ASSUME NEW type \in Bus!EventTypes, NEW h \in Handlers, Bus!subscribe(type, h)
      PROVE  BusInv'
  BY <1>2, SubscribeKeeps
<1>3. ASSUME NEW h \in Handlers, Bus!subscribe_all(h)
      PROVE  BusInv'
  BY <1>3, SubscribeKeeps DEF Bus!subscribe_all, Bus!EventTypes
<1>4. ASSUME NEW i \in 1..MaxSubscriptions, Bus!unsubscribe(i)
      PROVE  BusInv'
  BY <1>4, UnsubscribeKeeps
<1>5. CASE Bus!clear
  BY <1>5, ClearKeeps
<1>6. ASSUME NEW t \in Publishers, NEW type \in Bus!EventTypes, Bus!publish(t, type)
      PROVE  BusInv'
  BY <1>6, PublishKeeps
<1>7. ASSUME NEW t \in Publishers, Bus!Delivery(t)
      PROVE  BusInv'
  BY <1>7, DeliveryKeeps
<1> QED BY <1>1, <1>2, <1>3, <1>4, <1>5, <1>6, <1>7 DEF Bus!BusNext

LEMMA BusInvSuffices ==
    ASSUME BusInv
    PROVE  DeliveredOnce
<1>1. BusTyped /\ \A t \in Publishers : PublicationOK(publications[t])
  BY DEF BusInv
<1>2. Bus!BusTypeOK
  <2>1. \A i \in DOMAIN subscriptions : subscriptions[i].event_type \in Bus!EventTypes
    <3>1. \A i \in DOMAIN subscriptions : subscriptions[i] \in Subscribed
      BY <1>1 DEF BusTyped
    <3> QED BY <3>1 DEF Subscribed
  <2>2. \A t \in Publishers : publications[t].status \in {"none", "running", "returned"}
    BY <1>1 DEF PublicationOK, Publication
  <2> QED BY <1>1, <2>1, <2>2 DEF Bus!BusTypeOK, BusTyped
<1>3. ASSUME NEW t \in Publishers, publications[t].status = "returned", ~orphaned
      PROVE  /\ publications[t].finished = DOMAIN publications[t].called
             /\ \A h \in Handlers :
                    Bus!Cardinality(Occurrences(publications[t].called, h)) = publications[t].due[h]
  BY <1>1, <1>3, BusCounts DEF PublicationOK
<1> QED BY <1>2, <1>3 DEF DeliveredOnce, Bus!DeliveredOnce, Occurrences

\* When publish() returns, every subscription that was in force when it was called
\* has had its handler called to the end, once, and no other has: for any tasks,
\* handlers and any number of subscriptions and events.
THEOREM DeliveredOnceAlways == ServicesSpec => []DeliveredOnce
<1>1. ServicesInit => BusInv
  BY BusStart DEF ServicesInit
<1>2. BusInv /\ [ServicesNext]_services => BusInv'
  BY BusStep, StepsOfServices
<1>3. BusInv => DeliveredOnce
  BY BusInvSuffices
<1> QED BY <1>1, <1>2, <1>3, PTL DEF ServicesSpec

-----------------------------------------------------------------------------
(* The market stream.                                                        *)

\* While a connection made by reconnect() lacks a subscription whose SUBSCRIBE was
\* not cut off, some reconnect() has still to read the subscriptions or has it among
\* those left to send.
StillToSend ==
    (connected /\ restored) =>
        \A name \in _subscriptions :
            \/ name \in streams \union missed
            \/ \E t \in Clients :
                  \/ reconnecting[t].at = "snapshot"
                  \/ reconnecting[t].at = "send" /\ name \in reconnecting[t].left

StreamInv ==
    /\ DOMAIN reconnecting = Clients
    /\ Stream!StreamTypeOK
    /\ StillToSend

LEMMA StreamStep ==
    ASSUME StreamInv, [Stream!StreamNext]_stream
    PROVE  StreamInv'
<1> USE DEF StreamInv, StillToSend, Stream!StreamTypeOK
<1>1. CASE UNCHANGED stream
  BY <1>1 DEF stream
<1>2. CASE Stream!Drop
  BY <1>2 DEF Stream!Drop, Stream!Close
<1>3. ASSUME NEW t \in Clients,
             \/ Stream!connect(t) \/ Stream!disconnect(t)
      PROVE  StreamInv'
  BY <1>3 DEF Stream!connect, Stream!disconnect, Stream!Open, Stream!Close
<1>4. ASSUME NEW t \in Clients, Stream!reconnect(t) PROVE StreamInv'
  BY <1>4 DEF Stream!reconnect, Stream!Goto, Stream!Out
<1>5. ASSUME NEW t \in Clients, Stream!Closed(t) PROVE StreamInv'
  BY <1>5 DEF Stream!Closed, Stream!Goto, Stream!Close
<1>6. ASSUME NEW t \in Clients, Stream!Connected(t) PROVE StreamInv'
  BY <1>6 DEF Stream!Connected, Stream!Goto, Stream!Open
<1>7. ASSUME NEW t \in Clients, Stream!Snapshot(t) PROVE StreamInv'
  BY <1>7 DEF Stream!Snapshot, Stream!Goto
<1>8. ASSUME NEW t \in Clients, Stream!Send(t) PROVE StreamInv'
  BY <1>8 DEF Stream!Send, Stream!Sends, Stream!Raises, Stream!Goto
<1>9. ASSUME NEW t \in Clients, Stream!Succeeded(t) PROVE StreamInv'
  BY <1>9 DEF Stream!Succeeded, Stream!Goto
<1>10. ASSUME NEW t \in Clients, NEW name \in Streams,
              Stream!subscribe(t, name) \/ Stream!unsubscribe(t, name)
       PROVE  StreamInv'
  BY <1>10 DEF Stream!subscribe, Stream!unsubscribe, Stream!Sends, Stream!Raises
<1>11. ASSUME NEW t \in Clients, Stream!Cancel(t) PROVE StreamInv'
  BY <1>11 DEF Stream!Cancel, Stream!Raises, Stream!Goto
<1> QED BY <1>1, <1>2, <1>3, <1>4, <1>5, <1>6, <1>7, <1>8, <1>9, <1>10, <1>11
    DEF Stream!StreamNext, Stream!stream, stream

\* Every connection that reconnect() leaves behind carries every subscription:
\* also those made while there was no connection, or while the old ones were
\* being sent again (adapters/binance/websocket.py), but for those whose SUBSCRIBE
\* raised or was cancelled with the reconnect() that was to send it.
THEOREM SubscriptionsKept == ServicesSpec => []SubscriptionsSurvive
<1>1. ServicesInit => StreamInv
  BY DEF ServicesInit, Stream!StreamInit, StreamInv, StillToSend, Stream!StreamTypeOK, Stream!Out
<1>2. StreamInv /\ [ServicesNext]_services => StreamInv'
  BY StepsOfServices, StreamStep
<1>3. StreamInv => SubscriptionsSurvive
  BY DEF StreamInv, StillToSend, SubscriptionsSurvive, Stream!SubscriptionsSurvive, Stream!Out
<1> QED BY <1>1, <1>2, <1>3, PTL DEF ServicesSpec

-----------------------------------------------------------------------------
(* The agents.                                                               *)

Asking == {"lock", "evaluate"}

\* What the risk agent says of a context approves only what the risk framework
\* has approved.
RiskAsked(opinions, context) ==
    \A j \in DOMAIN opinions :
        opinions[j].role = "risk" /\ opinions[j].approve => context.risk_decision = "approved"

\* The registry's sequence of agents.
RegistryOK ==
    /\ IsSeq(_agents)
    /\ \A i \in DOMAIN _agents :
          \E role \in Agents!Range(Agents!AgentRole), faulty \in BOOLEAN :
              _agents[i] = Agents!Agent(role, faulty)

CallsOK ==
    /\ DOMAIN deciding = Deciders /\ DOMAIN answers = Deciders
    /\ holder \in Deciders \union {None}
    /\ \A t \in Deciders :
          /\ deciding[t].at \in {"out", "lock", "evaluate", "publish"}
          /\ answers[t].status \in {"none", "failed", "success"}
          /\ deciding[t].at = "evaluate" =>
                /\ DOMAIN deciding[t] = {"at", "id", "context", "left", "opinions", "events"}
                /\ IsSeq(deciding[t].opinions)
                /\ RiskAsked(deciding[t].opinions, deciding[t].context)

\* Each request has its number, in the calls under way and in the history.
NumbersOK ==
    /\ requests \in Nat
    /\ \A t \in Deciders : deciding[t].at \in Asking => deciding[t].id \in 1..requests
    /\ \A t, u \in Deciders :
          /\ deciding[t].at \in Asking /\ deciding[u].at \in Asking
          /\ deciding[t].id = deciding[u].id
          => t = u
    /\ \A i \in DOMAIN _decisions :
          /\ _decisions[i].id \in 1..requests
          /\ \A t \in Deciders : deciding[t].at \in Asking => deciding[t].id # _decisions[i].id

\* The history, and the answers out of it.
HistoryOK ==
    /\ IsSeq(_decisions)
    /\ \A i \in DOMAIN _decisions :
          _decisions[i].approved =>
              /\ _decisions[i].direction \in {"buy", "sell"}
              /\ _decisions[i].context.parameters.risk_veto =>
                    \A j \in DOMAIN _decisions[i].opinions :
                        _decisions[i].opinions[j].role = "risk" =>
                            _decisions[i].context.risk_decision = "approved"
    /\ \A t \in Deciders : answers[t].status = "success" =>
          /\ answers[t].metrics.total_decisions \in DOMAIN _decisions
          /\ _decisions[answers[t].metrics.total_decisions] = answers[t].decision
    /\ \A i, j \in DOMAIN _decisions : _decisions[i].id = _decisions[j].id => i = j

AgentsInv == RegistryOK /\ CallsOK /\ NumbersOK /\ HistoryOK

\* The opinion of an agent, whatever its role, is in keeping with RiskAsked.
LEMMA OpinionIs ==
    ASSUME NEW role, NEW c, NEW opinions,
           Agents!evaluate(role, c, opinions).role = "risk",
           Agents!evaluate(role, c, opinions).approve
    PROVE  c.risk_decision = "approved"
<1> USE DEF Agents!AgentOpinion
<1>1. Agents!DefaultMarketAgent(c).role = "market"
  BY DEF Agents!DefaultMarketAgent
<1>2. Agents!DefaultStrategyAgent(c).role = "strategy"
  BY DEF Agents!DefaultStrategyAgent
<1>3. Agents!DefaultPortfolioAgent(c).role = "portfolio"
  BY DEF Agents!DefaultPortfolioAgent
<1>4. Agents!DefaultCEOAgent(opinions).role = "ceo"
  BY DEF Agents!DefaultCEOAgent
<1>5. Agents!DefaultRiskAgent(c).approve => c.risk_decision = "approved"
  BY DEF Agents!DefaultRiskAgent
<1> QED BY <1>1, <1>2, <1>3, <1>4, <1>5 DEF Agents!evaluate

\* An approval of _resolve(): a trade, and nobody vetoed it.
LEMMA ResolveIs ==
    ASSUME NEW w, NEW opinions, NEW parameters,
           Agents!_resolve(w, opinions, parameters).approved
    PROVE  /\ Agents!_resolve(w, opinions, parameters).direction \in {"buy", "sell"}
           /\ parameters.risk_veto => \A j \in DOMAIN opinions : opinions[j].approve
BY DEF Agents!_resolve, Agents!ConsensusResult

\* The metrics count the decisions.
LEMMA CalculateIs ==
    ASSUME NEW decisions
    PROVE  Agents!_calculate(decisions).total_decisions = Len(decisions)
BY DEF Agents!_calculate

\* The registry changes, which disturbs no call.
LEMMA RegistryStep ==
    ASSUME AgentsInv, NEW new, Agents!Reg(new), IsSeq(new),
           \A i \in DOMAIN new :
              \E role \in Agents!Range(Agents!AgentRole), faulty \in BOOLEAN :
                 new[i] = Agents!Agent(role, faulty)
    PROVE  AgentsInv'
<1>1. RegistryOK'
  BY DEF Agents!Reg, RegistryOK
<1>2. CallsOK'
  BY DEF Agents!Reg, AgentsInv, CallsOK
<1>3. NumbersOK'
  BY DEF Agents!Reg, AgentsInv, NumbersOK
<1>4. HistoryOK'
  BY DEF Agents!Reg, AgentsInv, HistoryOK
<1> QED BY <1>1, <1>2, <1>3, <1>4 DEF AgentsInv

LEMMA RegisterStep ==
    ASSUME AgentsInv, NEW role \in {"risk", "ceo"}, NEW faulty \in BOOLEAN,
           Agents!register(Agents!Agent(role, faulty))
    PROVE  AgentsInv'
<1> DEFINE agent == Agents!Agent(role, faulty)
           OK(x) == \E r \in Agents!Range(Agents!AgentRole), f \in BOOLEAN : x = Agents!Agent(r, f)
           put == [i \in DOMAIN _agents |->
                       IF _agents[i].role = agent.role THEN agent ELSE _agents[i]]
<1>1. OK(agent)
  BY DEF Agents!AgentRole, Agents!Range
<1>2. IsSeq(_agents) /\ \A i \in DOMAIN _agents : OK(_agents[i])
  BY DEF AgentsInv, RegistryOK
<1>3. Len(_agents) \in Nat /\ DOMAIN _agents = 1..Len(_agents)
  BY <1>2, SeqIs
<1>4. CASE Agents!Reg(put)
  <2>1. IsSeq(put)
    BY <1>3 DEF IsSeq
  <2>2. \A i \in DOMAIN put : OK(put[i])
    BY <1>1, <1>2
  <2> HIDE DEF put
  <2> QED BY <1>4, <2>1, <2>2, RegistryStep
<1>5. CASE Agents!Reg(Append(_agents, agent))
  <2>1. IsSeq(Append(_agents, agent)) /\ Len(Append(_agents, agent)) = Len(_agents) + 1
    BY <1>2, AppendIs
  <2>2. DOMAIN Append(_agents, agent) = 1..(Len(_agents) + 1)
    BY <2>1, SeqIs
  <2>3. /\ \A i \in 1..Len(_agents) : Append(_agents, agent)[i] = _agents[i]
        /\ Append(_agents, agent)[Len(_agents) + 1] = agent
    BY <1>2, AppendIs
  <2>4. \A i \in DOMAIN Append(_agents, agent) : OK(Append(_agents, agent)[i])
    <3> HIDE DEF OK, agent
    <3> QED BY <1>1, <1>2, <1>3, <2>2, <2>3
  <2> QED BY <1>5, <2>1, <2>4, RegistryStep
<1> QED BY <1>4, <1>5 DEF Agents!register

LEMMA UnregisterStep ==
    ASSUME AgentsInv, NEW role, Agents!unregister(role)
    PROVE  AgentsInv'
<1> DEFINE OK(x) == \E r \in Agents!Range(Agents!AgentRole), f \in BOOLEAN : x = Agents!Agent(r, f)
           S == {_agents[j] : j \in DOMAIN _agents}
<1>1. _agents \in Seq(S) /\ \A i \in DOMAIN _agents : OK(_agents[i])
  BY DEF AgentsInv, RegistryOK, IsSeq
<1>2. Len(_agents) \in Nat /\ DOMAIN _agents = 1..Len(_agents)
  BY <1>1
<1>3. PICK i \in 1..Len(_agents) :
          Agents!Reg(SubSeq(_agents, 1, i - 1) \o SubSeq(_agents, i + 1, Len(_agents)))
  BY <1>2 DEF Agents!unregister
<1> DEFINE new == SubSeq(_agents, 1, i - 1) \o SubSeq(_agents, i + 1, Len(_agents))
<1> HIDE DEF S, OK
<1>4. new \in Seq(S)
  BY <1>1, WithoutIs
<1>5. \A x \in S : OK(x)
  BY <1>1 DEF S
<1> HIDE DEF new
<1>6. IsSeq(new) /\ \A j \in DOMAIN new : new[j] \in S
  BY <1>4, IsSeqIntro
<1>7. \A j \in DOMAIN new : OK(new[j])
  BY <1>5, <1>6
<1>8. Agents!Reg(new)
  BY <1>3 DEF new
<1> QED BY <1>6, <1>7, <1>8, RegistryStep DEF OK

\* A call ends or only publishes any more.
LEMMA LeaveStep ==
    ASSUME AgentsInv, UNCHANGED <<_agents, _decisions, requests>>,
           holder' \in Deciders \union {None},
           DOMAIN deciding' = Deciders, DOMAIN answers' = Deciders,
           \A u \in Deciders :
              deciding'[u] = deciding[u] \/ deciding'[u].at \in {"out", "publish"},
           \A u \in Deciders : answers'[u] = answers[u] \/ answers'[u].status = "failed"
    PROVE  AgentsInv'
<1>1. RegistryOK'
  BY DEF RegistryOK, AgentsInv
<1>2. CallsOK'
  BY DEF AgentsInv, CallsOK
<1>3. NumbersOK'
  BY DEF AgentsInv, NumbersOK, CallsOK, Asking
<1>4. HistoryOK'
  BY DEF AgentsInv, HistoryOK, CallsOK
<1> QED BY <1>1, <1>2, <1>3, <1>4 DEF AgentsInv

LEMMA RequestStep ==
    ASSUME AgentsInv, NEW t \in Deciders, NEW c, Agents!decide(t, c)
    PROVE  AgentsInv'
<1>1. RegistryOK'
  BY DEF RegistryOK, AgentsInv, Agents!decide
<1>2. CallsOK'
  BY DEF AgentsInv, CallsOK, Agents!decide
<1>3. NumbersOK'
  BY DEF AgentsInv, NumbersOK, CallsOK, Asking, Agents!decide
<1>4. HistoryOK'
  BY DEF AgentsInv, HistoryOK, CallsOK, Agents!decide
<1> QED BY <1>1, <1>2, <1>3, <1>4 DEF AgentsInv

LEMMA AcquireStep ==
    ASSUME AgentsInv, NEW t \in Deciders, Agents!Acquire(t)
    PROVE  AgentsInv'
<1>1. PICK left : deciding' = [deciding EXCEPT ![t] =
           [at |-> "evaluate", id |-> deciding[t].id, context |-> deciding[t].context,
            left |-> left, opinions |-> <<>>, events |-> <<"DecisionRequested">>]]
  BY DEF Agents!Acquire
<1>2. RegistryOK'
  BY DEF RegistryOK, AgentsInv, Agents!Acquire
<1>3. CallsOK'
  <2>1. IsSeq(<<>>)
    BY DEF IsSeq
  <2>2. RiskAsked(<<>>, deciding[t].context)
    BY DEF RiskAsked
  <2> QED BY <1>1, <2>1, <2>2 DEF AgentsInv, CallsOK, Agents!Acquire
<1>4. NumbersOK'
  BY <1>1 DEF AgentsInv, NumbersOK, CallsOK, Asking, Agents!Acquire
<1>5. HistoryOK'
  BY DEF AgentsInv, HistoryOK, CallsOK, Agents!Acquire
<1> QED BY <1>2, <1>3, <1>4, <1>5 DEF AgentsInv

\* An agent's opinion joins the others.
LEMMA EvaluateStep ==
    ASSUME AgentsInv, NEW t \in Deciders, Agents!_evaluate(t)
    PROVE  AgentsInv'
<1> DEFINE d == deciding[t]
           opinion == Agents!evaluate(Head(d.left).role, d.context, d.opinions)
<1>1. PICK events :
          deciding' = [deciding EXCEPT ![t].left = Tail(@),
                                       ![t].opinions = Append(@, opinion),
                                       ![t].events = events]
  BY DEF Agents!_evaluate
<1>2. /\ d.at = "evaluate"
      /\ DOMAIN d = {"at", "id", "context", "left", "opinions", "events"}
      /\ IsSeq(d.opinions) /\ RiskAsked(d.opinions, d.context)
      /\ DOMAIN deciding = Deciders
  BY DEF AgentsInv, CallsOK, Agents!_evaluate
<1> HIDE DEF opinion
<1>3. /\ DOMAIN deciding' = Deciders
      /\ \A u \in Deciders \ {t} : deciding'[u] = deciding[u]
      /\ DOMAIN deciding'[t] = DOMAIN d
      /\ deciding'[t].at = "evaluate"
      /\ deciding'[t].id = d.id
      /\ deciding'[t].context = d.context
      /\ deciding'[t].opinions = Append(d.opinions, opinion)
  BY <1>1, <1>2
<1>4. UNCHANGED <<_agents, _decisions, holder, answers, requests>>
  BY DEF Agents!_evaluate
<1>5. opinion.role = "risk" /\ opinion.approve => d.context.risk_decision = "approved"
  BY OpinionIs DEF opinion
<1>6. IsSeq(Append(d.opinions, opinion)) /\ RiskAsked(Append(d.opinions, opinion), d.context)
  <2> DEFINE new == Append(d.opinions, opinion)
  <2>1. /\ IsSeq(new) /\ Len(d.opinions) \in Nat /\ Len(new) = Len(d.opinions) + 1
        /\ \A i \in 1..Len(d.opinions) : new[i] = d.opinions[i]
        /\ new[Len(d.opinions) + 1] = opinion
    BY <1>2, AppendIs
  <2>2. DOMAIN new = 1..(Len(d.opinions) + 1) /\ DOMAIN d.opinions = 1..Len(d.opinions)
    BY <1>2, <2>1, SeqIs
  <2> HIDE DEF new
  <2>3. RiskAsked(new, d.context)
    BY <1>2, <1>5, <2>1, <2>2 DEF RiskAsked
  <2> QED BY <2>1, <2>3 DEF new
<1> HIDE DEF d
<1>7. RegistryOK'
  BY <1>4 DEF RegistryOK, AgentsInv
<1>8. CallsOK'
  BY <1>2, <1>3, <1>4, <1>6 DEF AgentsInv, CallsOK
<1>9. NumbersOK'
  BY <1>2, <1>3, <1>4 DEF AgentsInv, NumbersOK, Asking, d
<1>10. HistoryOK'
  BY <1>4 DEF AgentsInv, HistoryOK
<1> QED BY <1>7, <1>8, <1>9, <1>10 DEF AgentsInv

\* The decision is made, kept and told.
LEMMA DecisionStep ==
    ASSUME AgentsInv, NEW t \in Deciders, Agents!_decide(t)
    PROVE  AgentsInv'
<1> DEFINE d == deciding[t]
           consensus == Agents!_resolve(Agents!tally(d.opinions), d.opinions,
                                        d.context.parameters)
           decision == Agents!Decision(d, consensus)
           n == Len(_decisions) + 1
<1>1. PICK events, summary, metrics :
          /\ _decisions' = Append(_decisions, decision)
          /\ metrics.total_decisions = Len(_decisions')
          /\ answers' = [answers EXCEPT ![t] =
                [status |-> "success", decision |-> decision, summary |-> summary,
                 metrics |-> metrics]]
          /\ deciding' = [deciding EXCEPT ![t] = [at |-> "publish", events |-> events]]
  BY CalculateIs DEF Agents!_decide, Agents!append, Agents!Publishing
<1>2. /\ d.at = "evaluate"
      /\ RiskAsked(d.opinions, d.context)
      /\ DOMAIN deciding = Deciders /\ DOMAIN answers = Deciders
      /\ IsSeq(_decisions)
      /\ d.id \in 1..requests /\ requests \in Nat
      /\ \A i \in DOMAIN _decisions : _decisions[i].id # d.id
      /\ holder' = None /\ UNCHANGED <<_agents, requests>>
  BY DEF AgentsInv, CallsOK, NumbersOK, HistoryOK, Asking, Agents!_decide
<1>3. /\ IsSeq(_decisions') /\ Len(_decisions) \in Nat /\ Len(_decisions') = n
      /\ \A i \in 1..Len(_decisions) : _decisions'[i] = _decisions[i]
      /\ _decisions'[n] = decision
  BY <1>1, <1>2, AppendIs
<1>4. DOMAIN _decisions' = 1..n /\ DOMAIN _decisions = 1..Len(_decisions)
  BY <1>2, <1>3, SeqIs
<1>5. /\ decision.id = d.id /\ decision.context = d.context
      /\ decision.opinions = d.opinions
      /\ decision.approved = consensus.approved
      /\ decision.direction = consensus.direction
  BY DEF Agents!Decision
<1>6. decision.approved =>
          /\ decision.direction \in {"buy", "sell"}
          /\ decision.context.parameters.risk_veto =>
                \A j \in DOMAIN decision.opinions :
                    decision.opinions[j].role = "risk" =>
                        decision.context.risk_decision = "approved"
  <2> DEFINE w == Agents!tally(d.opinions)
  <2> HIDE DEF w
  <2>1. consensus = Agents!_resolve(w, d.opinions, d.context.parameters)
    BY DEF consensus, w
  <2>2. consensus.approved =>
            /\ consensus.direction \in {"buy", "sell"}
            /\ d.context.parameters.risk_veto =>
                  \A j \in DOMAIN d.opinions : d.opinions[j].role = "risk" =>
                                                  d.opinions[j].approve
    BY <2>1, ResolveIs
  <2> HIDE DEF consensus, decision
  <2> QED BY <1>2, <1>5, <2>2, Zenon DEF RiskAsked
<1> HIDE DEF decision, consensus
<1>7. RegistryOK'
  BY <1>2 DEF RegistryOK, AgentsInv
<1>8. CallsOK'
  BY <1>1, <1>2 DEF AgentsInv, CallsOK
<1>9. NumbersOK'
  BY <1>1, <1>2, <1>3, <1>4, <1>5 DEF AgentsInv, NumbersOK, Asking
<1>10. HistoryOK'
  <2>1. \A i, j \in DOMAIN _decisions' : _decisions'[i].id = _decisions'[j].id => i = j
    BY <1>2, <1>3, <1>4, <1>5 DEF AgentsInv, HistoryOK
  <2>2. \A u \in Deciders : answers'[u].status = "success" =>
            /\ answers'[u].metrics.total_decisions \in DOMAIN _decisions'
            /\ _decisions'[answers'[u].metrics.total_decisions] = answers'[u].decision
    BY <1>1, <1>2, <1>3, <1>4 DEF AgentsInv, HistoryOK
  <2>3. ASSUME NEW i \in DOMAIN _decisions', _decisions'[i].approved
        PROVE  /\ _decisions'[i].direction \in {"buy", "sell"}
               /\ _decisions'[i].context.parameters.risk_veto =>
                     \A j \in DOMAIN _decisions'[i].opinions :
                         _decisions'[i].opinions[j].role = "risk" =>
                             _decisions'[i].context.risk_decision = "approved"
    <3>1. CASE i = n
      BY <1>3, <1>6, <2>3, <3>1
    <3>2. CASE i # n
      <4>1. i \in DOMAIN _decisions /\ _decisions'[i] = _decisions[i]
        BY <1>3, <1>4, <3>2
      <4> QED BY <2>3, <4>1 DEF AgentsInv, HistoryOK
    <3> QED BY <3>1, <3>2
  <2> QED BY <1>3, <2>1, <2>2, <2>3 DEF HistoryOK
<1> QED BY <1>7, <1>8, <1>9, <1>10 DEF AgentsInv

LEMMA AgentsStep ==
    ASSUME AgentsInv, [Agents!AgentsNext]_agents
    PROVE  AgentsInv'
<1>1. CASE UNCHANGED agents
  BY <1>1 DEF agents, AgentsInv, RegistryOK, CallsOK, NumbersOK, HistoryOK
<1>2. ASSUME NEW t \in Deciders, Agents!_fail(t) PROVE AgentsInv'
  BY <1>2, LeaveStep DEF Agents!_fail, Agents!Publishing, AgentsInv, CallsOK
<1>3. ASSUME NEW t \in Deciders, Agents!Publish(t) PROVE AgentsInv'
  BY <1>3, LeaveStep DEF Agents!Publish, Agents!Out, AgentsInv, CallsOK
<1>4. ASSUME NEW t \in Deciders, Agents!Cancel(t) PROVE AgentsInv'
  BY <1>4, LeaveStep DEF Agents!Cancel, Agents!Out, AgentsInv, CallsOK
<1>5. CASE Agents!clear
  <2>1. IsSeq(<<>>)
    BY DEF IsSeq
  <2> QED BY <1>5, <2>1, RegistryStep DEF Agents!clear
<1> QED BY <1>1, <1>2, <1>3, <1>4, <1>5, RegisterStep, UnregisterStep, RequestStep,
           AcquireStep, EvaluateStep, DecisionStep
       DEF Agents!AgentsNext, Agents!DecideStep, Agents!agents, agents

LEMMA AgentsAlways == ServicesSpec => []AgentsInv
<1>1. ServicesInit => AgentsInv
  <2> SUFFICES ASSUME Agents!AgentsInit PROVE AgentsInv
    BY DEF ServicesInit
  <2> USE DEF Agents!AgentsInit
  <2>1. RegistryOK
    <3>1. DOMAIN Agents!AgentRole = 1..5
      BY DEF Agents!AgentRole
    <3>2. IsSeq(_agents)
      BY <3>1 DEF IsSeq
    <3>3. \A i \in DOMAIN _agents :
              Agents!AgentRole[i] \in Agents!Range(Agents!AgentRole)
              /\ _agents[i] = Agents!Agent(Agents!AgentRole[i], FALSE)
      BY DEF Agents!Range
    <3> QED BY <3>2, <3>3 DEF RegistryOK
  <2>2. CallsOK
    BY DEF CallsOK, Agents!Out, Agents!NoAnswer
  <2>3. NumbersOK
    BY DEF NumbersOK, Agents!Out, Asking
  <2>4. HistoryOK
    BY DEF HistoryOK, IsSeq, Agents!NoAnswer
  <2> QED BY <2>1, <2>2, <2>3, <2>4 DEF AgentsInv
<1>2. AgentsInv /\ [ServicesNext]_services => AgentsInv'
  BY StepsOfServices, AgentsStep
<1> QED BY <1>1, <1>2, PTL DEF ServicesSpec

\* No decision is approved against the risk framework when the risk agent was
\* asked, whatever agents were registered, replaced or removed meanwhile, and
\* what is approved is a trade (agents/consensus.py, agents/defaults.py).
THEOREM NoApprovalAgainstRisk == ServicesSpec => []VetoHolds
<1>1. AgentsInv => VetoHolds
  BY DEF AgentsInv, HistoryOK, VetoHolds, Agents!VetoHolds
<1> QED BY <1>1, AgentsAlways, PTL

\* The decision a caller is told of is in the history, once, however the calls
\* overlap, fail or are cancelled (agents/manager.py).
THEOREM DecisionsKept == ServicesSpec => []DecisionsAreKept
<1>1. AgentsInv => DecisionsAreKept
  <2> SUFFICES ASSUME AgentsInv PROVE Agents!AgentsTypeOK
    BY DEF AgentsInv, HistoryOK, DecisionsAreKept, Agents!DecisionsAreKept
  <2>1. Agents!Range(_agents) \subseteq {Agents!Agent(role, faulty) :
                                     role \in Agents!Range(Agents!AgentRole), faulty \in BOOLEAN}
    BY DEF AgentsInv, RegistryOK, Agents!Range
  <2> QED BY <2>1 DEF AgentsInv, CallsOK, Agents!AgentsTypeOK
<1> QED BY <1>1, AgentsAlways, PTL

-----------------------------------------------------------------------------
(* Market data.                                                              *)

\* The events of s on a key and of some kinds, and what the last one carried.
Told(s, key, kinds) == {i \in DOMAIN s : s[i].key = key /\ s[i].data.kind \in kinds}
LastTold(s, key, kinds) ==
    IF Told(s, key, kinds) = {} THEN None
    ELSE s[CHOOSE i \in Told(s, key, kinds) : \A j \in Told(s, key, kinds) : j <= i].data

HasLast(s, key, kinds) ==
    Told(s, key, kinds) # {} =>
        \E i \in Told(s, key, kinds) : \A j \in Told(s, key, kinds) : j <= i

\* One more event is the last one of its key and kinds; it says nothing of others.
LEMMA OneMoreTold ==
    ASSUME NEW s, IsSeq(s), NEW e, NEW key, NEW kinds, HasLast(s, key, kinds)
    PROVE  /\ HasLast(Append(s, e), key, kinds)
           /\ LastTold(Append(s, e), key, kinds) =
                IF e.key = key /\ e.data.kind \in kinds THEN e.data
                ELSE LastTold(s, key, kinds)
<1> DEFINE x == Append(s, e)
           n == Len(s) + 1
           old == Told(s, key, kinds)
           new == Told(x, key, kinds)
<1>1. /\ IsSeq(x) /\ Len(s) \in Nat /\ Len(x) = n
      /\ \A i \in 1..Len(s) : x[i] = s[i]
      /\ x[n] = e
  BY AppendIs
<1>2. DOMAIN s = 1..Len(s) /\ DOMAIN x = 1..n
  BY <1>1, SeqIs
<1> HIDE DEF x
<1>3. CASE e.key = key /\ e.data.kind \in kinds
  <2>1. n \in new /\ \A j \in new : j \in Nat /\ j <= n
    BY <1>1, <1>2, <1>3 DEF Told
  <2>2. (CHOOSE i \in new : \A j \in new : j <= i) = n
    <3> DEFINE c == CHOOSE i \in new : \A j \in new : j <= i
    <3>1. c \in new /\ \A j \in new : j <= c
      <4> HIDE DEF new
      <4> QED BY <2>1
    <3> HIDE DEF c, new
    <3>2. c \in Nat /\ c <= n /\ n <= c /\ n \in Nat
      BY <1>1, <2>1, <3>1
    <3>3. c = n
      BY <3>2
    <3> QED BY <3>3 DEF c
  <2>3. HasLast(x, key, kinds)
    BY <2>1 DEF HasLast
  <2>4. LastTold(x, key, kinds) = e.data
    BY <1>1, <2>1, <2>2 DEF LastTold
  <2> QED BY <1>3, <2>3, <2>4 DEF x
<1>4. CASE ~(e.key = key /\ e.data.kind \in kinds)
  <2>1. new = old
    BY <1>1, <1>2, <1>4 DEF Told
  <2>2. old \subseteq 1..Len(s)
    BY <1>2 DEF Told
  <2>3. HasLast(x, key, kinds)
    BY <2>1 DEF HasLast
  <2>4. LastTold(x, key, kinds) = LastTold(s, key, kinds)
    <3>1. CASE old = {}
      BY <2>1, <3>1 DEF LastTold
    <3>2. CASE old # {}
      <4> DEFINE c == CHOOSE i \in old : \A j \in old : j <= i
      <4>1. c \in old
        BY <3>2 DEF HasLast
      <4>2. x[c] = s[c]
        BY <1>1, <2>2, <4>1
      <4>3. LastTold(s, key, kinds) = s[c].data /\ LastTold(x, key, kinds) = x[c].data
        BY <2>1, <3>2 DEF LastTold
      <4> QED BY <4>2, <4>3
    <3> QED BY <3>1, <3>2
  <2> QED BY <1>4, <2>3, <2>4 DEF x
<1> QED BY <1>3, <1>4

Kinds == {"tick", "trade", "ohlcv", "order_book"}
Priced == Kinds \ {"order_book"}

\* The payloads in flight, and the exceptions of those that have ended.
InFlightOK ==
    /\ _connected \in BOOLEAN
    /\ pushed \in Nat /\ escaped \in Nat
    /\ IsFiniteSet(pending)
    /\ \A job \in pending : job.raw \in Payloads /\ job.id \in 1..pushed
    /\ escaped + Cardinality(pending) <= pushed

\* The events published: of payloads that convert, on their keys, and those keys
\* are the ones the cache has.
PublishedOK ==
    /\ IsSeq(published)
    /\ \A i \in DOMAIN published :
          /\ published[i].data \in Payloads
          /\ Market!normalize(published[i].data) = "ok"
          /\ published[i].key = Market!_key(published[i].data)
    /\ DOMAIN _store = {published[i].key : i \in DOMAIN published}

\* What the cache has on a key is what the events on it said last.
CacheOK ==
    \A key \in DOMAIN _store :
        /\ DOMAIN _store[key] = Kinds \union {"last_price"}
        /\ _store[key].last_price # None \/ _store[key].order_book # None
        /\ \A kind \in Kinds : /\ HasLast(published, key, {kind})
                               /\ _store[key][kind] = LastTold(published, key, {kind})
        /\ HasLast(published, key, Priced)
        /\ _store[key].last_price =
              IF LastTold(published, key, Priced) = None THEN None
              ELSE LastTold(published, key, Priced).price

MarketInv == InFlightOK /\ PublishedOK /\ CacheOK /\ Market!CandleSeriesOpenOnce

LEMMA KindsAre == DOMAIN Market!_converters = Kinds
BY DEF Market!_converters, Kinds

\* A payload that converts.
LEMMA ConvertedIs ==
    ASSUME NEW raw \in Payloads, Market!normalize(raw) = "ok"
    PROVE  /\ raw.kind \in Kinds
           /\ raw # None
           /\ raw.kind # "order_book" => raw.price # None
           /\ raw.kind = "ohlcv" => raw.timeframe # None
<1>1. raw.kind \in Kinds
  BY KindsAre DEF Market!normalize
<1> QED BY <1>1, PayloadsAssumption

\* The snapshot of a key once a payload is merged into it.
LEMMA MergedIs ==
    ASSUME NEW raw, raw.kind \in Kinds, NEW base,
           DOMAIN base = Kinds \union {"last_price"}
    PROVE  LET new == Market!_replace(base, raw)
           IN  /\ DOMAIN new = DOMAIN base
               /\ \A kind \in Kinds : new[kind] = IF kind = raw.kind THEN raw ELSE base[kind]
               /\ new.last_price = IF raw.kind = "order_book" THEN base.last_price ELSE raw.price
BY DEF Market!_replace, Kinds

\* A payload is merged into the cache and its event published.
LEMMA MergeStep ==
    ASSUME PublishedOK, CacheOK, Market!CandleSeriesOpenOnce,
           NEW raw \in Payloads, Market!normalize(raw) = "ok",
           _store' = Market!update(Market!_key(raw), Market!_merge(Market!_key(raw), raw)),
           published' = Append(published,
                               Market!_event_for(raw, Market!exists(Market!_key(raw))))
    PROVE  PublishedOK' /\ CacheOK' /\ Market!CandleSeriesOpenOnce'
<1> DEFINE k == Market!_key(raw)
           base == Market!get(k)
           event == Market!_event_for(raw, Market!exists(k))
           n == Len(published) + 1
<1>1. /\ raw.kind \in Kinds
      /\ raw # None
      /\ raw.kind # "order_book" => raw.price # None
      /\ raw.kind = "ohlcv" => raw.timeframe # None
  BY ConvertedIs
<1>2. /\ IsSeq(published') /\ IsSeq(published)
      /\ Len(published) \in Nat /\ Len(published') = n
      /\ \A i \in 1..Len(published) : published'[i] = published[i]
      /\ published'[n] = event
  BY AppendIs DEF PublishedOK
<1>3. DOMAIN published' = 1..n /\ DOMAIN published = 1..Len(published)
  BY <1>2, SeqIs
<1>4. event.key = k /\ event.data = raw
      /\ event.name = Market!MarketDataEvent(raw, Market!exists(k))
  BY DEF Market!_event_for
<1>5. /\ DOMAIN _store' = DOMAIN _store \union {k}
      /\ _store'[k] = Market!_replace(base, raw)
      /\ \A key \in DOMAIN _store \ {k} : _store'[key] = _store[key]
  BY DEF Market!update, Market!_merge
<1> HIDE DEF event
<1>6. PublishedOK'
  <2>1. ASSUME NEW i \in DOMAIN published'
        PROVE  /\ published'[i].data \in Payloads
               /\ Market!normalize(published'[i].data) = "ok"
               /\ published'[i].key = Market!_key(published'[i].data)
    <3>1. CASE i = n
      BY <1>2, <1>4, <3>1
    <3>2. CASE i # n
      BY <1>2, <1>3, <3>2 DEF PublishedOK
    <3> QED BY <3>1, <3>2
  <2>2. DOMAIN _store' = {published'[i].key : i \in DOMAIN published'}
    <3> HIDE DEF k
    <3> QED BY <1>2, <1>3, <1>4, <1>5 DEF PublishedOK
  <2> QED BY <1>2, <2>1, <2>2 DEF PublishedOK
<1>7. ASSUME k \notin DOMAIN _store, NEW kinds
      PROVE  HasLast(published, k, kinds) /\ LastTold(published, k, kinds) = None
  <2> HIDE DEF k
  <2>1. Told(published, k, kinds) = {}
    BY <1>7 DEF Told, PublishedOK
  <2> QED BY <2>1 DEF HasLast, LastTold
<1>8. /\ DOMAIN base = Kinds \union {"last_price"}
      /\ \A kind \in Kinds : /\ HasLast(published, k, {kind})
                             /\ base[kind] = LastTold(published, k, {kind})
      /\ HasLast(published, k, Priced)
      /\ base.last_price = IF LastTold(published, k, Priced) = None THEN None
                           ELSE LastTold(published, k, Priced).price
  <2>1. CASE k \in DOMAIN _store
    <3>1. base = _store[k]
      BY <2>1 DEF Market!get, Market!exists
    <3> QED BY <2>1, <3>1 DEF CacheOK
  <2>2. CASE k \notin DOMAIN _store
    <3>1. base = Market!MarketSnapshot
      BY <2>2 DEF Market!get, Market!exists
    <3>2. /\ DOMAIN Market!MarketSnapshot = Kinds \union {"last_price"}
          /\ \A kind \in Kinds : Market!MarketSnapshot[kind] = None
          /\ Market!MarketSnapshot.last_price = None
      BY DEF Market!MarketSnapshot, Kinds
    <3> QED BY <1>7, <2>2, <3>1, <3>2
  <2> QED BY <2>1, <2>2
<1>9. k \in DOMAIN _store => base = _store[k]
  BY DEF Market!get, Market!exists
<1> HIDE DEF k, base
<1>10. CacheOK'
  <2>1. ASSUME NEW key \in DOMAIN _store'
        PROVE  /\ DOMAIN _store'[key] = Kinds \union {"last_price"}
               /\ _store'[key].last_price # None \/ _store'[key].order_book # None
               /\ \A kind \in Kinds :
                     /\ HasLast(published', key, {kind})
                     /\ _store'[key][kind] = LastTold(published', key, {kind})
               /\ HasLast(published', key, Priced)
               /\ _store'[key].last_price =
                     IF LastTold(published', key, Priced) = None THEN None
                     ELSE LastTold(published', key, Priced).price
    <3>0. published' = Append(published, event)
      BY DEF event, k
    <3>1. CASE key # k
      <4>1. key \in DOMAIN _store /\ _store'[key] = _store[key]
        BY <1>5, <3>1
      <4>2. \A kind \in Kinds : HasLast(published, key, {kind})
        BY <4>1 DEF CacheOK
      <4>3. HasLast(published, key, Priced)
        BY <4>1 DEF CacheOK
      <4>4. \A kind \in Kinds : /\ HasLast(published', key, {kind})
                               /\ LastTold(published', key, {kind}) =
                                    LastTold(published, key, {kind})
        BY <1>2, <1>4, <3>0, <3>1, <4>2, OneMoreTold
      <4>5. /\ HasLast(published', key, Priced)
            /\ LastTold(published', key, Priced) = LastTold(published, key, Priced)
        BY <1>2, <1>4, <3>0, <3>1, <4>3, OneMoreTold
      <4> QED BY <4>1, <4>4, <4>5 DEF CacheOK
    <3>2. CASE key = k
      <4>1. /\ DOMAIN _store'[k] = Kinds \union {"last_price"}
            /\ \A kind \in Kinds :
                  _store'[k][kind] = IF kind = raw.kind THEN raw ELSE base[kind]
            /\ _store'[k].last_price =
                  IF raw.kind = "order_book" THEN base.last_price ELSE raw.price
        <5>1. DOMAIN base = Kinds \union {"last_price"}
          BY <1>8
        <5>2. /\ DOMAIN Market!_replace(base, raw) = DOMAIN base
              /\ \A kind \in Kinds :
                    Market!_replace(base, raw)[kind] = IF kind = raw.kind THEN raw ELSE base[kind]
              /\ Market!_replace(base, raw).last_price =
                    IF raw.kind = "order_book" THEN base.last_price ELSE raw.price
          BY <1>1, <5>1, MergedIs
        <5> QED BY <1>5, <5>1, <5>2
      <4>2. \A kind \in Kinds :
                /\ HasLast(published', k, {kind})
                /\ LastTold(published', k, {kind}) =
                     IF raw.kind = kind THEN raw ELSE LastTold(published, k, {kind})
        <5> SUFFICES ASSUME NEW kind \in Kinds
                     PROVE  /\ HasLast(published', k, {kind})
                            /\ LastTold(published', k, {kind}) =
                                 IF raw.kind = kind THEN raw
                                 ELSE LastTold(published, k, {kind})
          OBVIOUS
        <5>1. HasLast(published, k, {kind})
          BY <1>8
        <5>2. /\ HasLast(published', k, {kind})
              /\ LastTold(published', k, {kind}) =
                   IF event.key = k /\ event.data.kind \in {kind} THEN event.data
                   ELSE LastTold(published, k, {kind})
          BY <1>2, <3>0, <5>1, OneMoreTold
        <5> QED BY <1>4, <5>2
      <4>3. /\ HasLast(published', k, Priced)
            /\ LastTold(published', k, Priced) =
                 IF raw.kind \in Priced THEN raw ELSE LastTold(published, k, Priced)
        BY <1>2, <1>4, <1>8, <3>0, OneMoreTold
      <4>4. _store'[k].last_price # None \/ _store'[k].order_book # None
        BY <1>1, <4>1 DEF Kinds
      <4>5. _store'[k].last_price = IF LastTold(published', k, Priced) = None THEN None
                                    ELSE LastTold(published', k, Priced).price
        BY <1>1, <1>8, <4>1, <4>3 DEF Priced
      <4> QED BY <1>8, <3>2, <4>1, <4>2, <4>3, <4>4, <4>5
    <3> QED BY <3>1, <3>2
  <2> QED BY <2>1 DEF CacheOK
<1>11. Market!CandleSeriesOpenOnce'
  <2>1. ASSUME NEW i \in 1..n, published'[i].data.kind = "ohlcv"
        PROVE  published'[i].name = "CandleOpened" <=>
                 \A j \in 1..i-1 :
                    \/ published'[j].data.kind # "ohlcv"
                    \/ published'[j].data.symbol # published'[i].data.symbol
                    \/ published'[j].data.timeframe # published'[i].data.timeframe
    <3>1. CASE i # n
      <4>1. i \in 1..Len(published) /\ published'[i] = published[i]
        BY <1>2, <3>1
      <4>2. \A j \in 1..i-1 : published'[j] = published[j]
        BY <1>2, <4>1
      <4>3. published[i].name = "CandleOpened" <=>
              \A j \in 1..i-1 :
                 \/ published[j].data.kind # "ohlcv"
                 \/ published[j].data.symbol # published[i].data.symbol
                 \/ published[j].data.timeframe # published[i].data.timeframe
        BY <1>3, <2>1, <4>1 DEF Market!CandleSeriesOpenOnce
      <4> QED BY <4>1, <4>2, <4>3
    <3>2. CASE i = n
      <4>1. raw.kind = "ohlcv" /\ published'[i].data = raw
        BY <1>2, <1>4, <2>1, <3>2
      <4>2. published'[i].name = "CandleOpened" <=> k \notin DOMAIN _store
        BY <1>2, <1>4, <3>2, <4>1 DEF Market!MarketDataEvent, Market!CandleEvent, Market!exists
      <4>3. k = [symbol |-> raw.symbol, timeframe |-> raw.timeframe]
        BY <4>1 DEF k, Market!_key
      <4>4. ASSUME NEW j \in 1..Len(published)
            PROVE  published[j].key = k <=>
                      /\ published[j].data.kind = "ohlcv"
                      /\ published[j].data.symbol = raw.symbol
                      /\ published[j].data.timeframe = raw.timeframe
        <5>1. published[j].key =
                [symbol |-> published[j].data.symbol,
                 timeframe |-> IF published[j].data.kind = "ohlcv"
                               THEN published[j].data.timeframe ELSE None]
          BY <1>3 DEF PublishedOK, Market!_key
        <5>2. \A a, b, c, d : [symbol |-> a, timeframe |-> b] = [symbol |-> c, timeframe |-> d]
                              <=> a = c /\ b = d
          OBVIOUS
        <5> QED BY <1>1, <4>1, <4>3, <5>1, <5>2
      <4>5. k \notin DOMAIN _store <=> \A j \in 1..Len(published) : published[j].key # k
        BY <1>3 DEF PublishedOK
      <4>6. n - 1 = Len(published)
        BY <1>2
      <4> QED BY <1>2, <3>2, <4>1, <4>2, <4>4, <4>5, <4>6
    <3> QED BY <3>1, <3>2
  <2> QED BY <1>3, <2>1 DEF Market!CandleSeriesOpenOnce
<1> QED BY <1>6, <1>10, <1>11

LEMMA MarketStep ==
    ASSUME MarketInv, [Market!MarketNext]_market
    PROVE  MarketInv'
<1> DEFINE Cached == PublishedOK /\ CacheOK /\ Market!CandleSeriesOpenOnce
<1>0. InFlightOK /\ Cached
  BY DEF MarketInv
<1> HIDE DEF Cached
<1>1. ASSUME UNCHANGED <<_store, published>> PROVE Cached'
  BY <1>0, <1>1 DEF Cached, PublishedOK, CacheOK, Market!CandleSeriesOpenOnce
<1>2. CASE UNCHANGED market
  <2>1. InFlightOK'
    BY <1>0, <1>2 DEF market, InFlightOK
  <2> QED BY <1>1, <1>2, <2>1 DEF market, Cached, MarketInv
<1>3. CASE Market!start \/ Market!stop
  <2>1. InFlightOK'
    BY <1>0, <1>3 DEF Market!start, Market!stop, InFlightOK
  <2> QED BY <1>1, <1>3, <2>1 DEF Market!start, Market!stop, Cached, MarketInv
<1>4. CASE Market!_emit
  <2>1. PICK raw \in Payloads : pending' = pending \union {[id |-> pushed + 1, raw |-> raw]}
    BY <1>4 DEF Market!_emit
  <2> DEFINE job == [id |-> pushed + 1, raw |-> raw]
  <2>2. job \notin pending
    BY <1>0 DEF InFlightOK
  <2>3. IsFiniteSet(pending') /\ Cardinality(pending') = Cardinality(pending) + 1
        /\ Cardinality(pending) \in Nat
    <3> HIDE DEF job
    <3>1. pending' = pending \union {job}
      BY <2>1 DEF job
    <3> QED BY <1>0, <2>2, <3>1, FS_AddElement, FS_CardinalityType DEF InFlightOK
  <2>4. InFlightOK'
    BY <1>0, <1>4, <2>1, <2>3 DEF InFlightOK, Market!_emit
  <2> QED BY <1>1, <1>4, <2>4 DEF Market!_emit, Cached, MarketInv
<1>5. CASE Market!_on_raw
  <2>1. PICK job \in pending :
          /\ pending' = pending \ {job}
          /\ escaped' = escaped + (IF Market!normalize(job.raw) = "OverflowError" THEN 1 ELSE 0)
          /\ UNCHANGED <<_connected, pushed>>
          /\ \/ /\ Market!normalize(job.raw) = "ok"
                /\ _store' = Market!update(Market!_key(job.raw),
                                Market!_merge(Market!_key(job.raw), job.raw))
                /\ published' = Append(published, Market!_event_for(job.raw,
                                Market!exists(Market!_key(job.raw))))
             \/ UNCHANGED <<_store, published>>
    BY <1>5 DEF Market!_on_raw
  <2>2. /\ IsFiniteSet(pending') /\ Cardinality(pending') = Cardinality(pending) - 1
        /\ Cardinality(pending) \in Nat /\ Cardinality(pending') \in Nat
    BY <1>0, <2>1, FS_RemoveElement, FS_CardinalityType DEF InFlightOK
  <2>3. InFlightOK'
    BY <1>0, <2>1, <2>2 DEF InFlightOK
  <2>4. Cached'
    <3>1. job.raw \in Payloads
      BY <1>0 DEF InFlightOK
    <3> QED BY <1>0, <1>1, <2>1, <3>1, MergeStep DEF Cached
  <2> QED BY <2>3, <2>4 DEF Cached, MarketInv
<1>6. CASE Market!clear
  <2>1. InFlightOK'
    BY <1>0, <1>6 DEF Market!clear, InFlightOK
  <2>2. published' = <<>> /\ _store' = <<>>
    BY <1>6 DEF Market!clear
  <2>3. Cached'
    BY <2>2 DEF Cached, PublishedOK, CacheOK, IsSeq, Market!CandleSeriesOpenOnce
  <2> QED BY <2>1, <2>3 DEF Cached, MarketInv
<1> QED BY <1>2, <1>3, <1>4, <1>5, <1>6 DEF Market!MarketNext, Market!market, market

\* What a subscriber makes of the published market events is what the cache
\* holds, and candles open a series once, however the payloads in flight overtake
\* each other, fail to convert or the cache is cleared (market_data/pipeline.py).
THEOREM EventsTellTheCache == ServicesSpec => []EventsRebuildCache
<1>1. ServicesInit => MarketInv
  <2> SUFFICES ASSUME Market!MarketInit PROVE MarketInv
    BY DEF ServicesInit
  <2>1. InFlightOK
    <3>1. _connected \in BOOLEAN
      BY Zenon DEF Market!MarketInit
    <3>2. /\ pushed = 0 /\ escaped = 0 /\ pending = {}
      BY DEF Market!MarketInit
    <3> QED BY <3>1, <3>2, FS_EmptySet DEF InFlightOK
  <2>2. PublishedOK /\ CacheOK /\ Market!CandleSeriesOpenOnce
    BY DEF Market!MarketInit, PublishedOK, CacheOK, IsSeq, Market!CandleSeriesOpenOnce
  <2> QED BY <2>1, <2>2 DEF MarketInv
<1>2. MarketInv /\ [ServicesNext]_services => MarketInv'
  BY StepsOfServices, MarketStep
<1>3. MarketInv => EventsRebuildCache
  <2> SUFFICES ASSUME MarketInv PROVE EventsRebuildCache
    OBVIOUS
  <2>1. \A key, kinds : Market!LastPublished(key, kinds) = LastTold(published, key, kinds)
    BY DEF Market!LastPublished, Market!Published, LastTold, Told
  <2>2. Market!MarketTypeOK
    <3>1. Cardinality(pending) \in Nat
      BY FS_CardinalityType DEF MarketInv, InFlightOK
    <3> QED BY <3>1 DEF MarketInv, InFlightOK, CacheOK, Market!MarketTypeOK
  <2> QED BY <2>1, <2>2, KindsAre
          DEF MarketInv, CacheOK, Priced, EventsRebuildCache, Market!EventsRebuildCache
<1> QED BY <1>1, <1>2, <1>3, PTL DEF ServicesSpec

-----------------------------------------------------------------------------
(* The analysis: winners and losers.                                         *)

\* The values a loop keeps, as it goes through them.
LEMMA GainsAre ==
    ASSUME NEW xs \in Seq(Rats)
    PROVE  LET n == Len(xs) IN
           \E g \in [0..n -> Seq(Rats)] :
              Keeps(g, n, [i \in 1..n |-> Zero \prec xs[i]], xs) /\ Gains(xs) = g[n]
<1> DEFINE n == Len(xs)
           on == [i \in 1..n |-> Zero \prec xs[i]]
<1>1. n \in Nat /\ DOMAIN xs = 1..n /\ xs \in [1..n -> Rats]
  OBVIOUS
<1>2. \A s \in SUBSET (1..n) : s # {} => on[Max(s)] = (Zero \prec xs[Max(s)])
  BY <1>1, GreatestIs
<1> DEFINE Walk(f) ==
        f = [s \in SUBSET DOMAIN xs |->
                IF s = {} THEN <<>>
                ELSE LET x == Max(s)
                     IN  IF Zero \prec xs[x] THEN Append(f[s \ {x}], xs[x])
                         ELSE f[s \ {x}]]
<1>3. \A f : Walk(f) <=> Collects(f, n, on, xs)
  BY <1>1, <1>2 DEF Collects
<1>4. PICK f : Walk(f)
  BY <1>1, <1>3, CollectionExists
<1>5. Gains(xs) = (CHOOSE g : Walk(g))[DOMAIN xs]
  BY DEF Gains, FoldLeft, MapThenFoldSet, Max
<1> HIDE DEF Walk, n, on
<1>6. Walk(CHOOSE g : Walk(g))
  BY <1>4
<1>7. Collects(CHOOSE g : Walk(g), n, on, xs)
  BY <1>3, <1>6
<1>8. PICK g \in [0..n -> Seq(Rats)] :
          Keeps(g, n, on, xs) /\ (CHOOSE c : Walk(c))[1..n] = g[n]
  BY <1>1, <1>7, KeptOneByOne
<1> QED BY <1>1, <1>5, <1>8, Zenon DEF n, on

LEMMA LossesAre ==
    ASSUME NEW xs \in Seq(Rats)
    PROVE  LET n == Len(xs) IN
           \E g \in [0..n -> Seq(Rats)] :
              Keeps(g, n, [i \in 1..n |-> xs[i] \prec Zero], xs) /\ Losses(xs) = g[n]
<1> DEFINE n == Len(xs)
           on == [i \in 1..n |-> xs[i] \prec Zero]
<1>1. n \in Nat /\ DOMAIN xs = 1..n /\ xs \in [1..n -> Rats]
  OBVIOUS
<1>2. \A s \in SUBSET (1..n) : s # {} => on[Max(s)] = (xs[Max(s)] \prec Zero)
  BY <1>1, GreatestIs
<1> DEFINE Walk(f) ==
        f = [s \in SUBSET DOMAIN xs |->
                IF s = {} THEN <<>>
                ELSE LET x == Max(s)
                     IN  IF xs[x] \prec Zero THEN Append(f[s \ {x}], xs[x])
                         ELSE f[s \ {x}]]
<1>3. \A f : Walk(f) <=> Collects(f, n, on, xs)
  BY <1>1, <1>2 DEF Collects
<1>4. PICK f : Walk(f)
  BY <1>1, <1>3, CollectionExists
<1>5. Losses(xs) = (CHOOSE g : Walk(g))[DOMAIN xs]
  BY DEF Losses, FoldLeft, MapThenFoldSet, Max
<1> HIDE DEF Walk, n, on
<1>6. Walk(CHOOSE g : Walk(g))
  BY <1>4
<1>7. Collects(CHOOSE g : Walk(g), n, on, xs)
  BY <1>3, <1>6
<1>8. PICK g \in [0..n -> Seq(Rats)] :
          Keeps(g, n, on, xs) /\ (CHOOSE c : Walk(c))[1..n] = g[n]
  BY <1>1, <1>7, KeptOneByOne
<1> QED BY <1>1, <1>5, <1>8, Zenon DEF n, on

\* The sum of one value more.
LEMMA PrefixSum ==
    ASSUME NEW xs \in Seq(Rats), NEW k \in 1..Len(xs)
    PROVE  RatSum([i \in 1..k |-> xs[i]]) = RatSum([i \in 1..(k - 1) |-> xs[i]]) ++ xs[k]
<1>1. PICK c : c = [i \in 1..(k - 1) |-> xs[i]]
  OBVIOUS
<1>2. PICK d : d = [i \in 1..k |-> xs[i]]
  OBVIOUS
<1>3. /\ c \in Seq(Rats) /\ d \in Seq(Rats)
      /\ DOMAIN c = 1..(k - 1) /\ DOMAIN d = 1..k
      /\ \A i \in 1..(k - 1) : d[i] = c[i]
      /\ d[k] = xs[k]
  BY <1>1, <1>2
<1>4. DOMAIN d = DOMAIN c \union {k} /\ k \notin DOMAIN c /\ \A i \in DOMAIN c : d[i] = c[i]
  BY <1>3
<1>5. Summable(c) /\ Summable(d)
  BY <1>3, SeqSummable
<1>6. RatSum(d) = RatSum(c) ++ d[k]
  <2> HIDE <1>1, <1>2, <1>3
  <2> QED BY <1>4, <1>5, SumGrows
<1> QED BY <1>1, <1>2, <1>3, <1>6

\* The gains and the losses make the total.
LEMMA GainsAndLosses ==
    ASSUME NEW xs \in Seq(Rats)
    PROVE  /\ Gains(xs) \in Seq(Rats) /\ Losses(xs) \in Seq(Rats)
           /\ Total(Gains(xs)) ++ Total(Losses(xs)) = Total(xs)
<1>1. PICK n \in Nat : n = Len(xs)
  OBVIOUS
<1>2. PICK g \in [0..n -> Seq(Rats)] :
          Keeps(g, n, [i \in 1..n |-> Zero \prec xs[i]], xs) /\ Gains(xs) = g[n]
  BY <1>1, GainsAre
<1>3. PICK l \in [0..n -> Seq(Rats)] :
          Keeps(l, n, [i \in 1..n |-> xs[i] \prec Zero], xs) /\ Losses(xs) = l[n]
  BY <1>1, LossesAre
<1>4. /\ g[0] = <<>> /\ l[0] = <<>>
      /\ \A k \in 1..n : /\ g[k] = IF Zero \prec xs[k] THEN Append(g[k - 1], xs[k]) ELSE g[k - 1]
                         /\ l[k] = IF xs[k] \prec Zero THEN Append(l[k - 1], xs[k]) ELSE l[k - 1]
  BY <1>2, <1>3 DEF Keeps
<1> DEFINE part(k) == [i \in 1..k |-> xs[i]]
           T == {k \in 0..n : RatSum(g[k]) ++ RatSum(l[k]) = RatSum(part(k))}
<1>5. \A k \in 0..n : part(k) \in Seq(Rats)
  BY <1>1
<1>6. 0 \in T
  <2>1. part(0) = <<>> /\ 0 \in 0..n /\ <<>> \in Seq(Rats)
    OBVIOUS
  <2>2. RatSum(<<>>) = Zero /\ Zero ++ Zero = Zero
    BY <2>1, SeqSummable, PlusLaws, ZeroOver
  <2> QED BY <1>4, <2>1, <2>2
<1>7. \A k \in 1..n : k - 1 \in T => k \in T
  <2> SUFFICES ASSUME NEW k \in 1..n, k - 1 \in T PROVE k \in T
    OBVIOUS
  <2>1. PICK x \in Rats : x = xs[k]
    BY <1>1
  <2>2. PICK a \in Seq(Rats), b \in Seq(Rats), c \in Seq(Rats), d \in Seq(Rats) :
            a = g[k - 1] /\ b = l[k - 1] /\ c = part(k - 1) /\ d = part(k)
    <3>1. k \in 0..n /\ k - 1 \in 0..n
      OBVIOUS
    <3>2. g[k - 1] \in Seq(Rats) /\ l[k - 1] \in Seq(Rats)
      BY <3>1
    <3> HIDE DEF part
    <3> QED BY <1>5, <3>1, <3>2
  <2>3. RatSum(a) ++ RatSum(b) = RatSum(c)
    BY <2>2
  <2>4. /\ RatSum(a) \in Rats /\ RatSum(b) \in Rats /\ RatSum(c) \in Rats
        /\ RatSum(Append(a, x)) = RatSum(a) ++ x /\ RatSum(Append(b, x)) = RatSum(b) ++ x
    BY SeqSummable, SeqSumAppend
  <2>5. RatSum(d) = RatSum(c) ++ x
    BY <1>1, <2>1, <2>2, PrefixSum
  <2>6. /\ g[k] = IF Zero \prec x THEN Append(a, x) ELSE a
        /\ l[k] = IF x \prec Zero THEN Append(b, x) ELSE b
    BY <1>4, <2>1, <2>2
  <2>7. RatSum(g[k]) = (IF Zero \prec x THEN RatSum(a) ++ x ELSE RatSum(a))
    BY <2>4, <2>6
  <2>8. RatSum(l[k]) = (IF x \prec Zero THEN RatSum(b) ++ x ELSE RatSum(b))
    BY <2>4, <2>6
  <2> DEFINE p == RatSum(a)
             q == RatSum(b)
  <2>9. p \in Rats /\ q \in Rats /\ Zero \in Rats
    BY <2>4, ZeroOver
  <2> HIDE DEF p, q
  <2>10. /\ ~(Zero \prec x /\ x \prec Zero)
         /\ ~(Zero \prec x) /\ ~(x \prec Zero) => x = Zero
    BY <2>9, Compared
  <2>11. /\ (p ++ x) ++ q = (p ++ q) ++ x /\ p ++ (q ++ x) = (p ++ q) ++ x
         /\ p ++ q \in Rats /\ (p ++ q) ++ Zero = p ++ q
    <3>1. /\ p ++ q \in Rats /\ (p ++ q) ++ x = p ++ (q ++ x) /\ (p ++ x) ++ q = p ++ (x ++ q)
          /\ x ++ q = q ++ x
      BY <2>9, PlusLaws, Closed
    <3>2. (p ++ q) ++ Zero = p ++ q
      BY <3>1, PlusLaws
    <3> QED BY <3>1, <3>2
  <2>12. RatSum(g[k]) ++ RatSum(l[k]) = (p ++ q) ++ x
    BY <2>7, <2>8, <2>10, <2>11 DEF p, q
  <2> QED BY <2>2, <2>3, <2>5, <2>12 DEF p, q
<1>8. \A k \in 0..n : k \in T
  <2> HIDE DEF T
  <2> QED BY <1>6, <1>7, InductionTo
<1>9. n \in T
  <2> HIDE DEF T
  <2> QED BY <1>8
<1>10. part(n) = xs
  BY <1>1
<1> QED BY <1>1, <1>2, <1>3, <1>9, <1>10 DEF Total

\* What the winners and the losers contribute to the mean.
LEMMA MeanDecomposes ==
    ASSUME NEW xs \in Seq(Rats), NEW trades, Len(trades) = Len(xs), trades = <<>> <=> xs = <<>>
    PROVE  _mean(xs) = (Rate(Len(Gains(xs)), trades) \otimes _mean(Gains(xs))) ++
                       (Rate(Len(Losses(xs)), trades) \otimes _mean(Losses(xs)))
<1>1. Zero \in Rats /\ Zero \otimes Zero = Zero /\ Zero ++ Zero = Zero
  BY ZeroOver, TimesLaws, PlusLaws
<1>2. CASE xs = <<>>
  <2>1. PICK g \in [0..0 -> Seq(Rats)] : Gains(xs) = g[0] /\ g[0] = <<>>
    BY <1>2, GainsAre, Len(<<>>) = 0 DEF Keeps
  <2>2. PICK l \in [0..0 -> Seq(Rats)] : Losses(xs) = l[0] /\ l[0] = <<>>
    BY <1>2, LossesAre, Len(<<>>) = 0 DEF Keeps
  <2> QED BY <1>1, <1>2, <2>1, <2>2 DEF _mean, Rate
<1>3. CASE xs # <<>>
  <2>1. PICK n \in Nat \ {0} : n = Len(xs)
    BY <1>3
  <2>2. ASSUME NEW ys \in Seq(Rats)
        PROVE  Rate(Len(ys), trades) \otimes _mean(ys) = Total(ys) \oslash Rat(n)
    <3>1. Rate(Len(ys), trades) = Ratio(Len(ys), n)
      BY <1>3, <2>1 DEF Rate
    <3>2. CASE ys = <<>>
      <4>1. Len(ys) = 0 /\ Total(ys) = Zero /\ _mean(ys) = Zero
        BY <3>2, SeqSummable DEF Total, _mean
      <4> QED BY <1>1, <3>1, <4>1, ShareIs
    <3>3. CASE ys # <<>>
      <4>1. PICK w \in Nat \ {0} : w = Len(ys)
        BY <3>3
      <4>2. Total(ys) \in Rats
        BY SeqSummable DEF Total
      <4> QED BY <3>1, <3>3, <4>1, <4>2, ShareIs DEF _mean
    <3> QED BY <3>2, <3>3
  <2>3. Gains(xs) \in Seq(Rats) /\ Losses(xs) \in Seq(Rats)
        /\ Total(Gains(xs)) \in Rats /\ Total(Losses(xs)) \in Rats
    BY GainsAndLosses, SeqSummable DEF Total
  <2>4. (Total(Gains(xs)) \oslash Rat(n)) ++ (Total(Losses(xs)) \oslash Rat(n)) =
            Total(xs) \oslash Rat(n)
    BY <2>3, QuotientOfSum, GainsAndLosses
  <2> QED BY <1>3, <2>1, <2>2, <2>3, <2>4 DEF _mean
<1> QED BY <1>2, <1>3

-----------------------------------------------------------------------------
(* The analysis: growth.                                                     *)

\* A curve of positive values, and the changes from one to the next.
IsCurve(curve, returns) ==
    /\ curve \in Seq(Rats) /\ returns \in Seq(Rats) /\ Len(curve) = Len(returns) + 1
    /\ \A i \in DOMAIN curve : Zero \prec curve[i]
    /\ \A i \in DOMAIN returns : returns[i] = Change(curve[i], curve[i + 1])

LEMMA CurveIs ==
    ASSUME NEW curve, NEW returns, IsCurve(curve, returns), NEW n, n = Len(returns)
    PROVE  /\ n \in Nat /\ Len(curve) = n + 1 /\ DOMAIN returns = 1..n /\ DOMAIN curve = 1..(n + 1)
           /\ curve[1] \in Rats /\ Zero \prec curve[1]
           /\ \A i \in 1..n : /\ curve[i] \in Rats /\ Zero \prec curve[i]
                              /\ curve[i + 1] \in Rats /\ Zero \prec curve[i + 1]
                              /\ One ++ returns[i] = curve[i + 1] \oslash curve[i]
<1>1. /\ n \in Nat /\ Len(curve) = n + 1 /\ DOMAIN returns = 1..n /\ DOMAIN curve = 1..(n + 1)
      /\ \A i \in 1..(n + 1) : curve[i] \in Rats /\ Zero \prec curve[i]
      /\ \A i \in 1..n : returns[i] = Change(curve[i], curve[i + 1])
  BY DEF IsCurve
<1>2. 1 \in 1..(n + 1)
  BY <1>1
<1>3. ASSUME NEW i \in 1..n
      PROVE  /\ curve[i] \in Rats /\ Zero \prec curve[i]
             /\ curve[i + 1] \in Rats /\ Zero \prec curve[i + 1]
             /\ One ++ returns[i] = curve[i + 1] \oslash curve[i]
  <2>1. i \in 1..(n + 1) /\ i + 1 \in 1..(n + 1)
    BY <1>1
  <2>2. /\ curve[i] \in Rats /\ Zero \prec curve[i]
        /\ curve[i + 1] \in Rats /\ Zero \prec curve[i + 1]
    BY <1>1, <2>1
  <2>3. returns[i] = (curve[i + 1] -- curve[i]) \oslash curve[i]
    BY <1>1, <2>2 DEF Change
  <2> QED BY <2>2, <2>3, ScaledQuotient
<1> QED BY <1>1, <1>2, <1>3

\* Compounding the changes gives the growth of the curve.
LEMMA CompoundedGrowth ==
    ASSUME NEW curve, NEW returns, IsCurve(curve, returns)
    PROVE  _compound(returns) = _cumulative(curve)
<1>1. PICK n \in Nat : n = Len(returns)
  BY DEF IsCurve
<1>2. /\ Len(curve) = n + 1 /\ DOMAIN returns = 1..n /\ DOMAIN curve = 1..(n + 1)
      /\ curve[1] \in Rats /\ Zero \prec curve[1]
      /\ \A i \in 1..n : /\ curve[i] \in Rats /\ Zero \prec curve[i]
                         /\ curve[i + 1] \in Rats /\ Zero \prec curve[i + 1]
                         /\ One ++ returns[i] = curve[i + 1] \oslash curve[i]
  BY <1>1, CurveIs
<1> DEFINE first == curve[1]
           Grows(g) == g = [i \in 0..n |-> IF i = 0 THEN One
                                           ELSE g[i - 1] \otimes (One ++ returns[i])]
           value == [i \in 0..n |-> curve[i + 1] \oslash first]
<1>3. value[0] = One
  BY <1>2, ScaledOrder
<1>4. \A i \in 1..n : value[i] = value[i - 1] \otimes (One ++ returns[i])
  <2> SUFFICES ASSUME NEW i \in 1..n
               PROVE  value[i] = value[i - 1] \otimes (One ++ returns[i])
    OBVIOUS
  <2>1. /\ value[i] = curve[i + 1] \oslash first /\ value[i - 1] = curve[i] \oslash first
    <3>1. i \in 0..n /\ i - 1 \in 0..n /\ (i - 1) + 1 = i
      OBVIOUS
    <3> QED BY <3>1
  <2>2. (curve[i] \oslash first) \otimes (curve[i + 1] \oslash curve[i]) =
          curve[i + 1] \oslash first
    <3>1. /\ curve[i] \in Rats /\ Zero \prec curve[i] /\ curve[i + 1] \in Rats
          /\ first \in Rats /\ Zero \prec first
      BY <1>2
    <3> HIDE DEF first
    <3> QED BY <3>1, ScaledQuotient
  <2> QED BY <1>2, <2>1, <2>2
<1>5. Grows(value)
  <2>1. \A i \in 0..n : i = 0 \/ i \in 1..n
    OBVIOUS
  <2>2. value = [i \in 0..n |-> value[i]]
    OBVIOUS
  <2> HIDE DEF value
  <2>3. \A i \in 0..n : value[i] = IF i = 0 THEN One ELSE value[i - 1] \otimes (One ++ returns[i])
    BY <1>3, <1>4, <2>1
  <2> QED BY <2>2, <2>3
<1>6. ASSUME NEW g, Grows(g)
      PROVE  g[n] = value[n]
  <2> DEFINE T == {k \in 0..n : g[k] = value[k]}
  <2>1. 0 \in T
    BY <1>3, <1>6
  <2>2. \A k \in 1..n : k - 1 \in T => k \in T
    <3> SUFFICES ASSUME NEW k \in 1..n, k - 1 \in T PROVE k \in T
      OBVIOUS
    <3>1. k \in 0..n /\ k # 0
      OBVIOUS
    <3>2. g[k] = g[k - 1] \otimes (One ++ returns[k])
      BY <1>6, <3>1
    <3> HIDE DEF value, Grows
    <3> QED BY <1>4, <3>1, <3>2
  <2>3. n \in T
    <3> HIDE DEF T
    <3> QED BY <2>1, <2>2, InductionTo
  <2> QED BY <2>3
<1>7. Grows(CHOOSE g : Grows(g))
  <2> HIDE DEF Grows
  <2> QED BY <1>5
<1>8. (CHOOSE g : Grows(g))[n] = curve[n + 1] \oslash first
  <2>1. value[n] = curve[n + 1] \oslash first
    OBVIOUS
  <2> HIDE DEF Grows, value
  <2> QED BY <1>6, <1>7, <2>1
<1>9. _compound(returns) = IF returns = <<>> THEN Zero ELSE (CHOOSE g : Grows(g))[n] -- One
  BY <1>1 DEF _compound
<1> HIDE DEF Grows, value
<1>10. ~(first \preceq Zero)
  BY <1>2, ZeroOver, Compared
<1>11. (returns = <<>>) <=> n = 0
  BY <1>1, <1>2
<1> QED BY <1>2, <1>8, <1>9, <1>10, <1>11 DEF _cumulative

LEMMA OrderIsTransitive ==
    ASSUME NEW x \in Rats, NEW y \in Rats, NEW z \in Rats, x \preceq y, y \preceq z
    PROVE  x \preceq z
<1>1. PICK d, a, b, c \in Int : Over(x, a, d) /\ Over(y, b, d) /\ Over(z, c, d)
  BY CommonDenominator
<1>2. a <= b /\ b <= c
  BY <1>1, OrderOver
<1>3. a <= c
  BY <1>2
<1> QED BY <1>1, <1>3, OrderOver

\* The larger of two.
LEMMA LargerIs ==
    ASSUME NEW x \in Rats, NEW y \in Rats
    PROVE  LET z == IF x \prec y THEN y ELSE x
           IN  z \in Rats /\ x \preceq z /\ y \preceq z
BY Compared

\* A drawdown is the same in any unit.
LEMMA DrawdownScales ==
    ASSUME NEW p \in Rats, Zero \prec p, NEW v \in Rats, NEW c \in Rats, Zero \prec c
    PROVE  /\ Drawdown(p, v) \in Rats
           /\ Drawdown(p, p) = Zero
           /\ Drawdown(p \oslash c, v \oslash c) = Drawdown(p, v)
           /\ Zero \prec (p \oslash c)
<1>1. Zero \prec (p \oslash c)
  BY ScaledOrder, ZeroOver
<1>2. Drawdown(p, v) = (p -- v) \oslash p /\ p -- v \in Rats /\ (p -- v) \oslash p \in Rats
  BY ScaledOrder, Closed DEF Drawdown
<1>3. Drawdown(p \oslash c, v \oslash c) = ((p \oslash c) -- (v \oslash c)) \oslash (p \oslash c)
  BY <1>1 DEF Drawdown
<1>4. (p \oslash c) -- (v \oslash c) = (p -- v) \oslash c
  BY ScaledOrder
<1>5. ((p -- v) \oslash c) \oslash (p \oslash c) = (p -- v) \oslash p
  BY <1>2, ScaledQuotient
<1>6. Drawdown(p, p) = Zero
  BY ScaledOrder, PlusLaws, ZeroOver DEF Drawdown
<1> QED BY <1>1, <1>2, <1>3, <1>4, <1>5, <1>6

\* p is the highest value so far of a curve of n + 1 values.
Peaks(p, curve, n) ==
    /\ p[1] = curve[1]
    /\ \A i \in 1..n : p[i + 1] = IF p[i] \prec curve[i + 1] THEN curve[i + 1] ELSE p[i]
    /\ \A i \in 1..(n + 1) : p[i] \in Rats /\ Zero \prec p[i]

LEMMA DrawdownsAre ==
    ASSUME NEW curve, NEW returns, IsCurve(curve, returns),
           NEW n \in Nat, n = Len(returns)
    PROVE  \E p : /\ Peaks(p, curve, n)
                  /\ _drawdowns(curve) = [i \in 1..(n + 1) |-> Drawdown(p[i], curve[i])]
<1>1. /\ n \in Nat /\ Len(curve) = n + 1 /\ DOMAIN returns = 1..n /\ DOMAIN curve = 1..(n + 1)
      /\ curve[1] \in Rats /\ Zero \prec curve[1]
      /\ \A i \in 1..n : /\ curve[i] \in Rats /\ Zero \prec curve[i]
                         /\ curve[i + 1] \in Rats /\ Zero \prec curve[i + 1]
                         /\ One ++ returns[i] = curve[i + 1] \oslash curve[i]
  BY CurveIs
<1> DEFINE Peak(p) == p = [i \in DOMAIN curve |->
                              IF i = 1 THEN curve[1]
                              ELSE LET before == p[i - 1]
                                   IN  IF before \prec curve[i] THEN curve[i] ELSE before]
           higher == [i \in 1..n |-> [v \in Rats |->
                         IF v \prec curve[i + 1] THEN curve[i + 1] ELSE v]]
<1>2. higher \in [1..n -> [Rats -> Rats]]
  BY <1>1
<1>3. PICK f \in [0..n -> Rats] : f[0] = curve[1] /\ \A i \in 1..n : f[i] = higher[i][f[i - 1]]
  <2>1. curve[1] \in Rats
    BY <1>1
  <2>2. Walkable(n, Rats, curve[1], higher)
    BY <1>2, <2>1 DEF Walkable
  <2>3. PICK f : Walked(f, n, Rats, curve[1], higher)
    BY <2>2, WalkExists
  <2> HIDE DEF higher
  <2> QED BY <2>3 DEF Walked
<1>4. \A i \in 1..n : f[i] = IF f[i - 1] \prec curve[i + 1] THEN curve[i + 1] ELSE f[i - 1]
  <2> SUFFICES ASSUME NEW i \in 1..n
               PROVE  f[i] = IF f[i - 1] \prec curve[i + 1] THEN curve[i + 1] ELSE f[i - 1]
    OBVIOUS
  <2>1. f[i - 1] \in Rats
    OBVIOUS
  <2> QED BY <1>3, <2>1
<1>5. Peak([i \in 1..(n + 1) |-> f[i - 1]])
  <2> DEFINE p == [i \in 1..(n + 1) |-> f[i - 1]]
  <2>1. ASSUME NEW i \in 1..(n + 1)
        PROVE  p[i] = IF i = 1 THEN curve[1]
                      ELSE IF p[i - 1] \prec curve[i] THEN curve[i] ELSE p[i - 1]
    <3>1. CASE i = 1
      BY <1>1, <1>3, <3>1
    <3>2. CASE i # 1
      <4>1. i - 1 \in 1..n /\ i - 1 \in 1..(n + 1) /\ (i - 1) + 1 = i
        BY <1>1, <3>2
      <4>2. p[i] = f[i - 1] /\ p[i - 1] = f[(i - 1) - 1]
        BY <4>1
      <4> HIDE DEF p
      <4> QED BY <1>4, <3>2, <4>1, <4>2
    <3> QED BY <3>1, <3>2
  <2>2. p = [i \in 1..(n + 1) |-> p[i]]
    OBVIOUS
  <2> HIDE DEF p
  <2>3. Peak(p)
    BY <1>1, <2>1, <2>2
  <2> QED BY <2>3 DEF p
<1> DEFINE q == CHOOSE p : Peak(p)
<1>6. Peak(q)
  <2> HIDE DEF Peak
  <2> QED BY <1>5
<1>7. _drawdowns(curve) = [i \in DOMAIN curve |-> Drawdown(q[i], curve[i])]
  BY DEF _drawdowns
<1> HIDE DEF q
<1>8. /\ q[1] = curve[1]
      /\ \A i \in 1..n : q[i + 1] = IF q[i] \prec curve[i + 1] THEN curve[i + 1] ELSE q[i]
  <2>1. q[1] = curve[1]
    BY <1>1, <1>6
  <2>2. ASSUME NEW i \in 1..n
        PROVE  q[i + 1] = IF q[i] \prec curve[i + 1] THEN curve[i + 1] ELSE q[i]
    <3>1. i + 1 \in DOMAIN curve /\ i + 1 # 1 /\ (i + 1) - 1 = i
      BY <1>1
    <3> QED BY <1>6, <3>1
  <2> QED BY <2>1, <2>2
<1> HIDE DEF Peak
<1> DEFINE T == {k \in 0..n : q[k + 1] \in Rats /\ Zero \prec q[k + 1]}
<1>9. 0 \in T
  <2>1. 0 + 1 = 1 /\ 0 \in 0..n
    BY <1>1
  <2> QED BY <1>1, <1>8, <2>1
<1>10. \A k \in 1..n : k - 1 \in T => k \in T
  <2> SUFFICES ASSUME NEW k \in 1..n, k - 1 \in T PROVE k \in T
    OBVIOUS
  <2>1. (k - 1) + 1 = k /\ k \in 0..n
    OBVIOUS
  <2>2. q[k] \in Rats /\ Zero \prec q[k]
    BY <2>1
  <2>3. q[k + 1] = IF q[k] \prec curve[k + 1] THEN curve[k + 1] ELSE q[k]
    BY <1>8
  <2> QED BY <1>1, <2>1, <2>2, <2>3
<1>11. \A k \in 0..n : q[k + 1] \in Rats /\ Zero \prec q[k + 1]
  <2>1. \A k \in 0..n : k \in T
    <3> HIDE DEF T
    <3> QED BY <1>1, <1>9, <1>10, InductionTo
  <2> QED BY <2>1
<1>12. \A i \in 1..(n + 1) : q[i] \in Rats /\ Zero \prec q[i]
  <2> SUFFICES ASSUME NEW i \in 1..(n + 1) PROVE q[i] \in Rats /\ Zero \prec q[i]
    OBVIOUS
  <2>1. i - 1 \in 0..n /\ (i - 1) + 1 = i
    BY <1>1
  <2> QED BY <1>11, <2>1
<1> QED BY <1>1, <1>7, <1>8, <1>12 DEF Peaks

\* The worst of the drawdowns of the curve is found from the returns.
LEMMA SameDrawdown ==
    ASSUME NEW curve, NEW returns, IsCurve(curve, returns)
    PROVE  /\ _drawdowns(curve) # <<>>
           /\ Greatest(_drawdowns(curve)) = _max_drawdown_from_returns(returns)
<1>1. PICK n \in Nat : n = Len(returns)
  BY DEF IsCurve
<1>2. /\ n \in Nat /\ Len(curve) = n + 1 /\ DOMAIN returns = 1..n /\ DOMAIN curve = 1..(n + 1)
      /\ curve[1] \in Rats /\ Zero \prec curve[1]
      /\ \A i \in 1..n : /\ curve[i] \in Rats /\ Zero \prec curve[i]
                         /\ curve[i + 1] \in Rats /\ Zero \prec curve[i + 1]
                         /\ One ++ returns[i] = curve[i + 1] \oslash curve[i]
  BY <1>1, CurveIs
<1>3. PICK p : /\ Peaks(p, curve, n)
               /\ _drawdowns(curve) = [i \in 1..(n + 1) |-> Drawdown(p[i], curve[i])]
  BY <1>1, DrawdownsAre
<1> DEFINE first == curve[1]
           dd == [i \in 1..(n + 1) |-> Drawdown(p[i], curve[i])]
<1>4. dd \in [1..(n + 1) -> Rats] /\ dd[1] = Zero
  <2>1. ASSUME NEW i \in 1..(n + 1)
        PROVE  Drawdown(p[i], curve[i]) \in Rats
    <3>1. curve[i] \in Rats
      <4>1. i = 1 \/ i \in 1..n
                  \/ (i - 1 \in 1..n /\ (i - 1) + 1 = i)
        BY <1>2
      <4> QED BY <1>2, <4>1
    <3>2. p[i] \in Rats /\ Zero \prec p[i]
      BY <1>3 DEF Peaks
    <3> QED BY <3>1, <3>2, DrawdownScales
  <2>2. Drawdown(p[1], curve[1]) = Zero /\ 1 \in 1..(n + 1)
    BY <1>2, <1>3, DrawdownScales DEF Peaks
  <2> QED BY <2>1, <2>2
<1> DEFINE worse == [i \in 1..n |-> [v \in Rats |-> IF v \prec dd[i + 1] THEN dd[i + 1] ELSE v]]
<1>5. \A i \in 1..n : dd[i] \in Rats /\ dd[i + 1] \in Rats
  <2> SUFFICES ASSUME NEW i \in 1..n PROVE dd[i] \in Rats /\ dd[i + 1] \in Rats
    OBVIOUS
  <2>1. i \in 1..(n + 1) /\ i + 1 \in 1..(n + 1)
    BY <1>2
  <2> HIDE DEF dd
  <2> QED BY <1>4, <2>1
<1>6. worse \in [1..n -> [Rats -> Rats]]
  <2> HIDE DEF dd
  <2> QED BY <1>5
<1>7. PICK m \in [0..n -> Rats] : m[0] = Zero /\ \A i \in 1..n : m[i] = worse[i][m[i - 1]]
  <2>1. Zero \in Rats
    BY ZeroOver
  <2>2. Walkable(n, Rats, Zero, worse)
    BY <1>6, <2>1 DEF Walkable
  <2>3. PICK m : Walked(m, n, Rats, Zero, worse)
    BY <2>2, WalkExists
  <2> HIDE DEF worse
  <2> QED BY <2>3 DEF Walked
<1>8. \A i \in 1..n : m[i] = IF m[i - 1] \prec dd[i + 1] THEN dd[i + 1] ELSE m[i - 1]
  <2> SUFFICES ASSUME NEW i \in 1..n
               PROVE  m[i] = IF m[i - 1] \prec dd[i + 1] THEN dd[i + 1] ELSE m[i - 1]
    OBVIOUS
  <2>1. m[i - 1] \in Rats
    OBVIOUS
  <2> HIDE DEF dd
  <2> QED BY <1>7, <2>1
<1> DEFINE T == {k \in 0..n : /\ \E j \in 1..(k + 1) : m[k] = dd[j]
                              /\ \A j \in 1..(k + 1) : dd[j] \preceq m[k]}
<1>9. 0 \in T
  <2>1. \A j \in 1..(0 + 1) : j = 1
    OBVIOUS
  <2>2. Zero \preceq Zero
    BY ZeroOver, Compared
  <2> HIDE DEF dd
  <2> QED BY <1>2, <1>4, <1>7, <2>1, <2>2
<1>10. \A k \in 1..n : k - 1 \in T => k \in T
  <2> SUFFICES ASSUME NEW k \in 1..n, k - 1 \in T PROVE k \in T
    OBVIOUS
  <2>1. /\ (k - 1) + 1 = k /\ k \in 0..n /\ m[k - 1] \in Rats /\ m[k] \in Rats
        /\ \A j \in 1..(k + 1) : j \in 1..k \/ j = k + 1
        /\ \A j \in 1..k : j \in 1..(k + 1) /\ j \in 1..(n + 1)
        /\ k + 1 \in 1..(k + 1)
    BY <1>2
  <2> HIDE DEF dd
  <2>2. PICK j \in 1..k : m[k - 1] = dd[j]
    BY <2>1
  <2>3. \A i \in 1..k : dd[i] \preceq m[k - 1]
    BY <2>1
  <2>4. m[k] = IF m[k - 1] \prec dd[k + 1] THEN dd[k + 1] ELSE m[k - 1]
    BY <1>8
  <2>5. dd[k + 1] \preceq m[k] /\ m[k - 1] \preceq m[k]
    BY <1>5, <2>1, <2>4, LargerIs
  <2>6. ASSUME NEW i \in 1..k PROVE dd[i] \preceq m[k]
    <3>1. dd[i] \in Rats
      BY <1>4, <2>1
    <3> QED BY <2>1, <2>3, <2>5, <3>1, OrderIsTransitive
  <2>7. \A i \in 1..(k + 1) : dd[i] \preceq m[k]
    BY <2>1, <2>5, <2>6
  <2>8. \E i \in 1..(k + 1) : m[k] = dd[i]
    BY <2>1, <2>2, <2>4
  <2> QED BY <2>1, <2>7, <2>8
<1>11. n \in T
  <2> HIDE DEF T
  <2> QED BY <1>9, <1>10, InductionTo
<1>12. Greatest(dd) = m[n]
  <2> HIDE DEF dd
  <2>1. Range(dd) = {dd[j] : j \in 1..(n + 1)}
    BY <1>4 DEF Range
  <2>2. m[n] \in Range(dd) /\ \A y \in Range(dd) : y \preceq m[n]
    BY <1>11, <2>1
  <2>3. ASSUME NEW x \in Range(dd), \A y \in Range(dd) : y \preceq x
        PROVE  x = m[n]
    <3>1. x \preceq m[n] /\ m[n] \preceq x
      BY <2>2, <2>3
    <3>2. x \in Rats /\ m[n] \in Rats
      BY <1>2, <1>4, <2>1, <2>3
    <3> QED BY <3>1, <3>2, Compared
  <2> QED BY <2>2, <2>3 DEF Greatest
<1> DEFINE Next_(before, i) ==
              LET equity == before.equity \otimes (One ++ returns[i])
                  peak == IF before.peak \prec equity THEN equity ELSE before.peak
                  d == Drawdown(peak, equity)
              IN  [equity |-> equity, peak |-> peak,
                   worst |-> IF before.worst \prec d THEN d ELSE before.worst]
           start == [equity |-> One, peak |-> One, worst |-> Zero]
           Walks(w) == w = [i \in 0..n |-> IF i = 0 THEN start ELSE Next_(w[i - 1], i)]
           state == [i \in 0..n |-> [equity |-> curve[i + 1] \oslash first,
                                     peak |-> p[i + 1] \oslash first, worst |-> m[i]]]
<1>13. state[0] = start
  <2>1. 0 \in 0..n /\ 0 + 1 = 1
    BY <1>2
  <2>2. p[1] = curve[1] /\ first \oslash first = One
    BY <1>2, <1>3, ScaledOrder DEF Peaks
  <2> QED BY <1>7, <2>1, <2>2
<1>14. \A i \in 1..n : state[i] = Next_(state[i - 1], i)
  <2> SUFFICES ASSUME NEW i \in 1..n PROVE state[i] = Next_(state[i - 1], i)
    OBVIOUS
  <2>1. /\ i \in 0..n /\ i - 1 \in 0..n /\ (i - 1) + 1 = i /\ i \in 1..(n + 1)
        /\ i + 1 \in 1..(n + 1)
    BY <1>2
  <2>2. /\ state[i] = [equity |-> curve[i + 1] \oslash first, peak |-> p[i + 1] \oslash first,
                       worst |-> m[i]]
        /\ state[i - 1] = [equity |-> curve[i] \oslash first, peak |-> p[i] \oslash first,
                           worst |-> m[i - 1]]
    BY <2>1
  <2>3. /\ curve[i] \in Rats /\ Zero \prec curve[i] /\ curve[i + 1] \in Rats
        /\ first \in Rats /\ Zero \prec first
        /\ One ++ returns[i] = curve[i + 1] \oslash curve[i]
    BY <1>2
  <2>4. /\ p[i] \in Rats /\ Zero \prec p[i] /\ p[i + 1] \in Rats /\ Zero \prec p[i + 1]
        /\ p[i + 1] = IF p[i] \prec curve[i + 1] THEN curve[i + 1] ELSE p[i]
    BY <1>3, <2>1 DEF Peaks
  <2>5. m[i] = IF m[i - 1] \prec dd[i + 1] THEN dd[i + 1] ELSE m[i - 1]
    BY <1>8
  <2>6. dd[i + 1] = Drawdown(p[i + 1], curve[i + 1])
    BY <2>1
  <2> HIDE DEF first, dd
  <2>7. (curve[i] \oslash first) \otimes (One ++ returns[i]) = curve[i + 1] \oslash first
    BY <2>3, ScaledQuotient
  <2>8. (p[i] \oslash first) \prec (curve[i + 1] \oslash first) <=> p[i] \prec curve[i + 1]
    BY <2>3, <2>4, ScaledOrder
  <2>9. (IF (p[i] \oslash first) \prec (curve[i + 1] \oslash first)
         THEN curve[i + 1] \oslash first ELSE p[i] \oslash first) = p[i + 1] \oslash first
    BY <2>4, <2>8
  <2>10. Drawdown(p[i + 1] \oslash first, curve[i + 1] \oslash first) = dd[i + 1]
    BY <2>3, <2>4, <2>6, DrawdownScales
  <2>11. PICK a : a = state[i - 1]
    OBVIOUS
  <2>12. /\ a.equity = curve[i] \oslash first /\ a.peak = p[i] \oslash first
         /\ a.worst = m[i - 1]
    BY <2>2, <2>11
  <2>13. Next_(a, i) = [equity |-> curve[i + 1] \oslash first, peak |-> p[i + 1] \oslash first,
                        worst |-> m[i]]
    <3> HIDE DEF state
    <3> QED BY <2>5, <2>7, <2>9, <2>10, <2>12
  <2> HIDE DEF Next_, state
  <2> QED BY <2>2, <2>11, <2>13
<1>15. Walks(state)
  <2>1. \A i \in 0..n : i = 0 \/ i \in 1..n
    BY <1>2
  <2>2. state = [i \in 0..n |-> state[i]]
    OBVIOUS
  <2> HIDE DEF state, Next_, start
  <2>3. \A i \in 0..n : state[i] = IF i = 0 THEN start ELSE Next_(state[i - 1], i)
    BY <1>13, <1>14, <2>1
  <2> QED BY <2>2, <2>3
<1>16. ASSUME NEW w, Walks(w)
       PROVE  w[n] = state[n]
  <2> DEFINE W == {k \in 0..n : w[k] = state[k]}
  <2> HIDE DEF state, Next_, start
  <2>1. 0 \in W
    BY <1>2, <1>13, <1>16
  <2>2. \A k \in 1..n : k - 1 \in W => k \in W
    <3> SUFFICES ASSUME NEW k \in 1..n, k - 1 \in W PROVE k \in W
      OBVIOUS
    <3>1. k \in 0..n /\ k # 0
      OBVIOUS
    <3>2. w[k] = Next_(w[k - 1], k)
      BY <1>16, <3>1
    <3>3. w[k - 1] = state[k - 1]
      OBVIOUS
    <3> QED BY <1>14, <3>1, <3>2, <3>3
  <2>3. n \in W
    <3> HIDE DEF W
    <3> QED BY <2>1, <2>2, InductionTo
  <2> QED BY <2>3
<1>17. _max_drawdown_from_returns(returns) = (CHOOSE w : Walks(w))[n].worst
  BY <1>1 DEF _max_drawdown_from_returns
<1>18. state[n].worst = m[n]
  BY <1>2
<1>19. Walks(CHOOSE w : Walks(w))
  <2> HIDE DEF Walks
  <2> QED BY <1>15
<1> HIDE DEF Walks, state
<1>20. _max_drawdown_from_returns(returns) = m[n]
  BY <1>16, <1>17, <1>18, <1>19
<1>21. dd # <<>>
  <2>1. 1 \in DOMAIN dd
    BY <1>2
  <2> HIDE DEF dd
  <2> QED BY <2>1
<1> QED BY <1>3, <1>12, <1>20, <1>21

-----------------------------------------------------------------------------
(* A run's local state.                                                      *)

DistinctIds(trades) == \A i, j \in DOMAIN trades : trades[i].id = trades[j].id => i = j

\* The trades a loop keeps, as it goes through them.
LEMMA OthersAre ==
    ASSUME NEW T, NEW trades \in Seq(T), NEW trade, trade # Absent
    PROVE  LET n == Len(trades) IN
           \E g \in [0..n -> Seq(T)] :
              /\ Keeps(g, n, [i \in 1..n |-> trades[i].id # trade.id], trades)
              /\ _upsert_trade(trades, trade) = Append(g[n], trade)
<1> DEFINE n == Len(trades)
           on == [i \in 1..n |-> trades[i].id # trade.id]
<1>1. n \in Nat /\ DOMAIN trades = 1..n /\ trades \in [1..n -> T]
  OBVIOUS
<1>2. \A s \in SUBSET (1..n) : s # {} => on[Max(s)] = (trades[Max(s)].id # trade.id)
  BY <1>1, GreatestIs
<1> DEFINE Walk(f) ==
        f = [s \in SUBSET DOMAIN trades |->
                IF s = {} THEN <<>>
                ELSE LET x == Max(s)
                     IN  IF trades[x].id # trade.id THEN Append(f[s \ {x}], trades[x])
                         ELSE f[s \ {x}]]
<1>3. \A f : Walk(f) <=> Collects(f, n, on, trades)
  BY <1>1, <1>2 DEF Collects
<1>4. PICK f : Walk(f)
  BY <1>1, <1>3, CollectionExists
<1>5. _upsert_trade(trades, trade) = Append((CHOOSE g : Walk(g))[DOMAIN trades], trade)
  BY DEF _upsert_trade, FoldLeft, MapThenFoldSet, Max
<1> HIDE DEF Walk, n, on
<1>6. Walk(CHOOSE g : Walk(g))
  BY <1>4
<1>7. Collects(CHOOSE g : Walk(g), n, on, trades)
  BY <1>3, <1>6
<1>8. PICK w : w = CHOOSE g : Walk(g)
  OBVIOUS
<1>81. Collects(w, n, on, trades) /\ n \in Nat /\ trades \in [1..n -> T]
  BY <1>1, <1>7, <1>8
<1>9. PICK g \in [0..n -> Seq(T)] : Keeps(g, n, on, trades) /\ w[1..n] = g[n]
  BY <1>81, KeptOneByOne
<1> QED BY <1>1, <1>5, <1>8, <1>9, Zenon DEF n, on

\* Every trade is in the list once.
LEMMA UpsertIs ==
    ASSUME NEW T, NEW trades \in Seq(T), DistinctIds(trades), NEW trade \in T, trade # Absent
    PROVE  LET r == _upsert_trade(trades, trade)
           IN  r \in Seq(T) /\ DistinctIds(r) /\ r # <<>>
<1>1. PICK n \in Nat : n = Len(trades)
  OBVIOUS
<1>2. PICK g \in [0..n -> Seq(T)] :
          /\ Keeps(g, n, [i \in 1..n |-> trades[i].id # trade.id], trades)
          /\ _upsert_trade(trades, trade) = Append(g[n], trade)
  BY <1>1, OthersAre
<1>3. /\ g[0] = <<>>
      /\ \A k \in 1..n : g[k] = IF trades[k].id # trade.id THEN Append(g[k - 1], trades[k])
                                ELSE g[k - 1]
  BY <1>2 DEF Keeps
<1> DEFINE From(s, k) == \A j \in DOMAIN s : \E i \in 1..k : s[j] = trades[i]
           Others(s) == \A j \in DOMAIN s : s[j].id # trade.id
           K == {k \in 0..n : DistinctIds(g[k]) /\ From(g[k], k) /\ Others(g[k])}
<1>4. 0 \in K
  <2>1. DOMAIN g[0] = {} /\ 0 \in 0..n
    BY <1>3
  <2> QED BY <2>1 DEF DistinctIds
<1>5. \A k \in 1..n : k - 1 \in K => k \in K
  <2> SUFFICES ASSUME NEW k \in 1..n, k - 1 \in K PROVE k \in K
    OBVIOUS
  <2>1. PICK s \in Seq(T) : s = g[k - 1]
    OBVIOUS
  <2>2. k \in 0..n /\ DistinctIds(s) /\ From(s, k - 1) /\ Others(s)
    BY <2>1
  <2>3. PICK x \in T : x = trades[k]
    BY <1>1
  <2>4. From(s, k)
    BY <2>2
  <2>5. CASE x.id = trade.id
    <3>1. g[k] = s
      BY <1>3, <2>1, <2>3, <2>5
    <3> HIDE DEF From, Others
    <3> QED BY <2>2, <2>4, <3>1
  <2>6. CASE x.id # trade.id
    <3>1. PICK y : y = Append(s, x)
      OBVIOUS
    <3>2. g[k] = y
      BY <1>3, <2>1, <2>3, <2>6, <3>1
    <3>3. /\ DOMAIN y = 1..(Len(s) + 1) /\ DOMAIN s = 1..Len(s) /\ Len(s) \in Nat
          /\ \A j \in 1..Len(s) : y[j] = s[j]
          /\ y[Len(s) + 1] = x
      <4> HIDE DEF K, From, Others
      <4> QED BY <3>1
    <3>4. \A j \in DOMAIN y : j \in DOMAIN s \/ j = Len(s) + 1
      <4> HIDE DEF K, From, Others
      <4>1. PICK m \in Nat : m = Len(s)
        BY <3>3
      <4>2. DOMAIN y = 1..(m + 1) /\ DOMAIN s = 1..m
        BY <3>3, <4>1
      <4>3. \A j \in 1..(m + 1) : j \in 1..m \/ j = m + 1
        OBVIOUS
      <4> QED BY <4>1, <4>2, <4>3, Zenon
    <3>5. From(y, k)
      <4>1. \A j \in DOMAIN s : \E i \in 1..k : y[j] = trades[i]
        BY <2>4, <3>3
      <4>2. k \in 1..k /\ y[Len(s) + 1] = trades[k]
        BY <2>3, <3>3
      <4> QED BY <3>4, <4>1, <4>2
    <3>6. Others(y)
      BY <2>2, <2>6, <3>3, <3>4
    <3>7. \A j \in DOMAIN s : s[j].id # x.id
      <4> SUFFICES ASSUME NEW j \in DOMAIN s PROVE s[j].id # x.id
        OBVIOUS
      <4>1. PICK i \in 1..(k - 1) : s[j] = trades[i]
        BY <2>2
      <4>2. i \in DOMAIN trades /\ k \in DOMAIN trades /\ i # k
        BY <1>1
      <4> QED BY <2>3, <4>1, <4>2 DEF DistinctIds
    <3>8. DistinctIds(y)
      <4> SUFFICES ASSUME NEW i \in DOMAIN y, NEW j \in DOMAIN y, y[i].id = y[j].id PROVE i = j
        BY DEF DistinctIds
      <4>1. CASE i \in DOMAIN s /\ j \in DOMAIN s
        BY <2>2, <3>3, <4>1 DEF DistinctIds
      <4> QED BY <3>3, <3>4, <3>7, <4>1
    <3> HIDE DEF From, Others
    <3> QED BY <2>2, <3>2, <3>5, <3>6, <3>8
  <2> QED BY <2>5, <2>6
<1>6. n \in K
  <2> HIDE DEF K, From, Others
  <2>1. \A k \in 0..n : k \in K
    BY <1>4, <1>5, InductionTo
  <2>2. n \in 0..n
    OBVIOUS
  <2> QED BY <2>1, <2>2
<1>7. PICK s \in Seq(T) : s = g[n]
  OBVIOUS
<1>8. DistinctIds(s) /\ Others(s)
  BY <1>6, <1>7
<1>9. PICK y : y = Append(s, trade)
  OBVIOUS
<1>10. /\ y \in Seq(T) /\ y # <<>>
       /\ DOMAIN y = 1..(Len(s) + 1) /\ DOMAIN s = 1..Len(s) /\ Len(s) \in Nat
       /\ \A j \in 1..Len(s) : y[j] = s[j]
       /\ y[Len(s) + 1] = trade
  BY <1>9
<1>11. DistinctIds(y)
  <2> SUFFICES ASSUME NEW i \in DOMAIN y, NEW j \in DOMAIN y, y[i].id = y[j].id PROVE i = j
    BY DEF DistinctIds
  <2>1. CASE i \in DOMAIN s /\ j \in DOMAIN s
    BY <1>8, <1>10, <2>1 DEF DistinctIds
  <2>2. \A l \in DOMAIN y : l \in DOMAIN s \/ l = Len(s) + 1
    BY <1>10
  <2> QED BY <1>8, <1>10, <2>1, <2>2
<1> QED BY <1>2, <1>7, <1>9, <1>10, <1>11

\* As many trades as identifiers.
LEMMA IdsCount ==
    ASSUME NEW T, NEW trades \in Seq(T), DistinctIds(trades)
    PROVE  Cardinality({trades[i].id : i \in DOMAIN trades}) = Len(trades)
<1> DEFINE D == DOMAIN trades
           ids == {trades[i].id : i \in D}
           f == [i \in D |-> trades[i].id]
<1>1. D = 1..Len(trades) /\ Len(trades) \in Nat
  OBVIOUS
<1>2. IsFiniteSet(D) /\ Cardinality(D) = Len(trades)
  BY <1>1, FS_Interval
<1>3. /\ f \in [D -> ids] /\ \A a, b \in D : f[a] = f[b] => a = b
      /\ \A y \in ids : \E a \in D : f[a] = y
  BY DEF DistinctIds
<1> HIDE DEF f, ids, D
<1> QED BY <1>2, <1>3, SameSize DEF ids, D

\* The candles of a schedule.
LEMMA ScheduleIs ==
    ASSUME NEW candles, Len(candles) \in Nat, NEW speed \in Int, speed >= 1
    PROVE  LET s == iterate(candles, speed)
           IN  /\ Len(s) \in Nat
               /\ \A k \in Nat : k < Len(s) => s[k + 1] \in 1..Len(candles)
<1> DEFINE total == Len(candles)
           q == (total + speed - 1) \div speed
           s == iterate(candles, speed)
<1>1. PICK a \in Nat : a = total + speed - 1
  OBVIOUS
<1>2. q \in Nat /\ q * speed <= a
  <2>1. a \div speed \in Int /\ a % speed \in 0..(speed - 1)
        /\ a = speed * (a \div speed) + (a % speed)
    OBVIOUS
  <2> DEFINE d == a \div speed
  <2>2. q = d
    BY <1>1
  <2> HIDE DEF d, q
  <2>3. speed * d <= a /\ d * speed = speed * d /\ speed * d > a - speed
    BY <2>1 DEF d
  <2>4. d >= 0
    <3>1. speed * d > -speed
      BY <1>1, <2>1, <2>3 DEF d
    <3>2. d \in Int
      BY <2>1 DEF d
    <3>3. ASSUME d <= -1 PROVE FALSE
      <4>1. speed * d <= speed * (-1)
        BY <3>2, <3>3
      <4> QED BY <3>1, <3>2, <4>1
    <3> QED BY <3>2, <3>3
  <2> QED BY <2>1, <2>2, <2>3, <2>4 DEF d
<1>3. s = [i \in 1..q |-> 1 + (i - 1) * speed]
  BY DEF iterate
<1> HIDE DEF q, s
<1>4. Len(s) = q
  BY <1>2, <1>3
<1>5. ASSUME NEW k \in Nat, k < q
      PROVE  s[k + 1] \in 1..total
  <2>1. s[k + 1] = 1 + k * speed
    BY <1>2, <1>3, <1>5
  <2>2. (k + 1) * speed <= q * speed
    BY <1>2, <1>5
  <2>3. (k + 1) * speed = k * speed + speed
    OBVIOUS
  <2>4. k * speed >= 0 /\ k * speed \in Int
    OBVIOUS
  <2> QED BY <1>1, <1>2, <2>1, <2>2, <2>3, <2>4
<1> QED BY <1>2, <1>4, <1>5 DEF s

\* What a strategy is shown ends with the candle that is replayed.
ShownOK(shown, index) ==
    shown # {} => index = Max(shown) /\ Cardinality(shown) <= Window

LEMMA RecentCandles ==
    ASSUME NEW total \in Nat, NEW index \in 1..total
    PROVE  ShownOK(recent_candles(index, total), index)
<1> DEFINE shown == recent_candles(index, total)
<1>1. Window \in Nat /\ Window > 0
  BY BacktestAssumption
<1>2. /\ index \in shown /\ shown \subseteq Int /\ \A j \in shown : j <= index
      /\ shown \subseteq (index - Window + 1)..index
  BY <1>1 DEF recent_candles
<1>3. Max(shown) = index
  BY <1>2, MaxIs
<1>4. /\ IsFiniteSet((index - Window + 1)..index)
      /\ Cardinality((index - Window + 1)..index) = Window
  <2>1. index - Window + 1 \in Int /\ index \in Int /\ index - Window + 1 <= index
    BY <1>1
  <2>2. PICK a, b \in Int : a = index - Window + 1 /\ b = index /\ a <= b
    BY <2>1
  <2>3. IsFiniteSet(a..b) /\ Cardinality(a..b) = b - a + 1
    BY <2>2, FS_Interval
  <2>4. b - a + 1 = Window
    BY <1>1, <2>2
  <2> QED BY <2>2, <2>3, <2>4
<1>5. Cardinality(shown) <= Window
  BY <1>2, <1>4, FS_Subset
<1> QED BY <1>3, <1>5 DEF ShownOK

-----------------------------------------------------------------------------
(* The portfolio a backtest books on.                                        *)

\* The instance of Portfolio calculates with the same rationals.
LEMMA BookArithmetic ==
    /\ \A x, y : /\ PF!++(x, y) = x ++ y /\ PF!--(x, y) = x -- y
                 /\ PF!\otimes(x, y) = x \otimes y /\ PF!\oslash(x, y) = x \oslash y
                 /\ PF!\prec(x, y) <=> x \prec y
                 /\ PF!\preceq(x, y) <=> x \preceq y
    /\ \A f : PF!RatSum(f) = RatSum(f)
    /\ PF!Zero = Zero
    /\ \A x : PF!IsRat(x) <=> IsRat(x)
<1> USE DEF PF!++, ++, PF!plus, plus, PF!Pairs, Pairs, PF!times, times, PF!over, over,
            PF!Ratio, Ratio, PF!Abs, Abs, PF!gcd, gcd, PF!Rat, Rat, PF!Zero, Zero
<1>1. \A x, y : PF!++(x, y) = x ++ y
  OBVIOUS
<1>2. \A x, y : PF!--(x, y) = x -- y
  BY DEF PF!--, --
<1>3. \A x, y : (PF!\prec(x, y) <=> x \prec y) /\ (PF!\preceq(x, y) <=> x \preceq y)
  BY DEF PF!\prec, \prec, PF!\preceq, \preceq
<1>4. \A f : PF!RatSum(f) = RatSum(f)
  BY DEF PF!RatSum, RatSum, PF!FoldFunction, FoldFunction,
         PF!FoldFunctionOnSet, FoldFunctionOnSet, PF!MapThenFoldSet, MapThenFoldSet
<1>5. PF!Zero = Zero
  OBVIOUS
<1>6. \A x, y : PF!\otimes(x, y) = x \otimes y
  BY DEF PF!\otimes, \otimes
<1>7. \A x, y : PF!\oslash(x, y) = x \oslash y
  BY DEF PF!\oslash, \oslash
<1>8. \A x : PF!IsRat(x) <=> IsRat(x)
  BY DEF PF!IsRat, IsRat
<1> QED BY <1>1, <1>2, <1>3, <1>4, <1>5, <1>6, <1>7, <1>8

\* A fill of a simulation.
FillOK(f) ==
    /\ f # Absent /\ f.side \in {"buy", "sell"}
    /\ f.quantity \in Rats /\ Zero \prec f.quantity
    /\ f.price \in Rats /\ f.commission \in Rats
    /\ f.limit = Absent \/ f.limit \in Rats

\* The quantity a portfolio holds, and what a fill is booked at.
Held(p) == IF Symbol \in DOMAIN p.positions THEN p.positions[Symbol].quantity ELSE Zero
BookedAt(f) == IF f.limit = Absent THEN f.price ELSE f.limit

PositionOK(x) ==
    /\ DOMAIN x = {"quantity", "average_cost"}
    /\ x.quantity \in Rats /\ Zero \prec x.quantity /\ x.average_cost \in Rats

PositionsOK(held) ==
    /\ DOMAIN held \subseteq {Symbol}
    /\ \A s \in DOMAIN held : PositionOK(held[s])

EntryOK(e) ==
    /\ e.symbol = Symbol /\ e.side \in {"buy", "sell"} /\ e.quantity \in Rats /\ e.price \in Rats

LedgerOK(l) == IsSeq(l) /\ \A i \in DOMAIN l : EntryOK(l[i])

BookOK(p) ==
    /\ p.cash \in Rats /\ p.realized_pnl \in Rats
    /\ PositionsOK(p.positions) /\ LedgerOK(p.ledger)

LEMMA CashIsRat == InitialCash \in Rats
BY BacktestAssumption, IsRatIs

LEMMA NewBookOK ==
    /\ BookOK(PF!NewPortfolio) /\ PF!NewPortfolio.cash = InitialCash
    /\ Held(PF!NewPortfolio) = Zero /\ PF!NewPortfolio.state = "empty"
<1>1. /\ DOMAIN <<>> = {} /\ IsSeq(<<>>) /\ Zero \in Rats
  BY ZeroOver DEF IsSeq
<1> QED BY <1>1, BookArithmetic, CashIsRat
        DEF PF!NewPortfolio, BookOK, PositionsOK, LedgerOK, Held

\* What is booked for a fill.
LEMMA EntryIs ==
    ASSUME NEW r, NEW f, FillOK(f)
    PROVE  LET c == PortfolioContext(r, f)
               e == PF!entry(c)
           IN  /\ PF!execution_ok(c)
               /\ EntryOK(e) /\ e.side = f.side /\ e.quantity = f.quantity
               /\ e.price = BookedAt(f) /\ e.price \in Rats
               /\ DOMAIN c.prices = {Symbol} /\ c.prices[Symbol] = f.price
<1>1. PF!NoPrice = Absent
  BY DEF PF!NoPrice, Absent
<1> QED BY <1>1 DEF PortfolioContext, PF!entry, PF!LedgerEntry, PF!execution_ok,
           FillOK, EntryOK, BookedAt

\* Holdings after a fill.
LEMMA HoldingAfter ==
    ASSUME NEW held, PositionsOK(held), NEW e, EntryOK(e), Zero \prec e.quantity,
           PF!holdings_ok(held, e),
           NEW q \in Rats,
           q = IF Symbol \in DOMAIN held THEN held[Symbol].quantity ELSE Zero
    PROVE  LET new == PF!holdings_apply(held, e)
           IN  /\ PositionsOK(new)
               /\ (IF Symbol \in DOMAIN new THEN new[Symbol].quantity ELSE Zero) =
                     IF e.side = "buy" THEN q ++ e.quantity ELSE q -- e.quantity
<1> DEFINE new == PF!holdings_apply(held, e)
           k == e.quantity
<1>1. k \in Rats /\ e.price \in Rats /\ e.symbol = Symbol /\ Zero \in Rats
  BY ZeroOver DEF EntryOK
<1>2. CASE e.side = "buy" /\ Symbol \notin DOMAIN held
  <2>1. /\ DOMAIN held = {} /\ q = Zero
    BY <1>2 DEF PositionsOK
  <2>2. DOMAIN new = {Symbol} /\ new[Symbol] = [quantity |-> k, average_cost |-> e.price]
    BY <1>1, <1>2, <2>1 DEF PF!holdings_apply, PF!bought
  <2>3. Zero ++ k = k
    BY <1>1, PlusLaws
  <2> HIDE DEF new
  <2>4. PositionOK(new[Symbol])
    BY <1>1, <2>2 DEF PositionOK
  <2> QED BY <1>2, <2>1, <2>2, <2>3, <2>4 DEF PositionsOK, new
<1>3. CASE e.side = "buy" /\ Symbol \in DOMAIN held
  <2> DEFINE old == held[Symbol]
             cost == (old.quantity \otimes old.average_cost) ++ (k \otimes e.price)
  <2>1. DOMAIN held = {Symbol} /\ PositionOK(old) /\ q = old.quantity
    BY <1>3 DEF PositionsOK
  <2>2. /\ old.quantity ++ k \in Rats /\ Zero \prec (old.quantity ++ k)
        /\ old.quantity ++ k # Zero
    BY <1>1, <2>1, PositiveSum DEF PositionOK
  <2>3. cost \in Rats
    <3>1. old.quantity \otimes old.average_cost \in Rats /\ k \otimes e.price \in Rats
      BY <1>1, <2>1, Closed DEF PositionOK
    <3> QED BY <3>1, Closed
  <2>4. cost \oslash (old.quantity ++ k) \in Rats
    <3> HIDE DEF cost
    <3> QED BY <2>2, <2>3, Closed
  <2>5. DOMAIN new = {Symbol} /\ new[Symbol] = [quantity |-> old.quantity ++ k,
                                  average_cost |-> cost \oslash (old.quantity ++ k)]
    BY <1>1, <1>3, <2>1, BookArithmetic DEF PF!holdings_apply, PF!bought, PF!cost_basis
  <2> HIDE DEF new, old, cost
  <2>6. PositionOK(new[Symbol])
    BY <2>2, <2>4, <2>5 DEF PositionOK
  <2>7. new[Symbol].quantity = q ++ k
    BY <2>1, <2>5
  <2> QED BY <1>3, <2>5, <2>6, <2>7 DEF PositionsOK, new
<1>4. CASE e.side # "buy"
  <2> DEFINE old == held[Symbol]
             left == old.quantity -- k
  <2>1. e.side = "sell" /\ Symbol \in DOMAIN held /\ k \preceq old.quantity
    BY <1>1, <1>4, BookArithmetic DEF PF!holdings_ok, EntryOK
  <2>2. DOMAIN held = {Symbol} /\ PositionOK(old) /\ q = old.quantity
    BY <2>1 DEF PositionsOK
  <2>3. left \in Rats /\ (left # Zero => Zero \prec left)
    BY <1>1, <2>1, <2>2, Remaining DEF PositionOK
  <2>4. new = IF left = Zero THEN PF!Restrict(held, DOMAIN held \ {Symbol})
              ELSE [held EXCEPT ![Symbol].quantity = left]
    BY <1>1, <1>4, BookArithmetic DEF PF!holdings_apply
  <2>5. CASE left = Zero
    <3>1. DOMAIN new = {}
      BY <2>2, <2>4, <2>5 DEF PF!Restrict
    <3> HIDE DEF new, old
    <3> QED BY <1>4, <2>2, <2>5, <3>1 DEF PositionsOK, new
  <2>6. CASE left # Zero
    <3>1. /\ DOMAIN new = {Symbol} /\ DOMAIN new[Symbol] = DOMAIN old
          /\ new[Symbol].quantity = left /\ new[Symbol].average_cost = old.average_cost
      BY <2>2, <2>4, <2>6 DEF PositionOK
    <3> HIDE DEF new, old, left
    <3>2. PositionOK(new[Symbol])
      BY <2>2, <2>3, <2>6, <3>1 DEF PositionOK
    <3>3. PositionsOK(new)
      BY <3>1, <3>2 DEF PositionsOK
    <3>4. left = q -- k
      BY <2>2 DEF left
    <3> QED BY <1>4, <3>1, <3>3, <3>4 DEF new
  <2> QED BY <2>5, <2>6
<1> QED BY <1>2, <1>3, <1>4

\* The value of what is held.
LEMMA ValuationIs ==
    ASSUME NEW p, BookOK(p), NEW prices, NEW x \in Rats, prices[Symbol] = x
    PROVE  LET v == PF!valuation(p, prices)
           IN  /\ v.total_value = p.cash ++ (Held(p) \otimes x)
               /\ v.total_value \in Rats /\ v # Absent
<1> DEFINE held == p.positions
           worths == [s \in DOMAIN held |-> held[s].quantity \otimes prices[s]]
<1>1. PF!valuation(p, prices).total_value = p.cash ++ RatSum(worths)
  BY BookArithmetic DEF PF!valuation, PF!PortfolioValue
<1>2. PF!valuation(p, prices) # Absent
  BY DEF PF!valuation, PF!PortfolioValue, Absent
<1>3. Held(p) \in Rats /\ p.cash \in Rats /\ x \in Rats
  BY ZeroOver DEF BookOK, PositionsOK, PositionOK, Held
<1>4. Held(p) \otimes x \in Rats
  BY <1>3, Closed
<1>5. RatSum(worths) = Held(p) \otimes x
  <2>1. CASE Symbol \notin DOMAIN held
    <3>1. DOMAIN held = {} /\ Held(p) = Zero
      BY <2>1 DEF BookOK, PositionsOK, Held
    <3>2. Summable(worths) /\ DOMAIN worths = {}
      BY <3>1, FS_EmptySet DEF Summable
    <3>3. RatSum(worths) = Zero
      <4> HIDE DEF worths
      <4> QED BY <3>2, SumIs
    <3>4. Zero \otimes x = x \otimes Zero /\ x \otimes Zero = Zero
      BY <1>3, ZeroOver, TimesLaws
    <3> QED BY <3>1, <3>3, <3>4
  <2>2. CASE Symbol \in DOMAIN held
    <3>1. DOMAIN held = {Symbol} /\ Held(p) = held[Symbol].quantity
      BY <2>2 DEF BookOK, PositionsOK, Held
    <3>2. DOMAIN worths = {Symbol} /\ worths[Symbol] = Held(p) \otimes x
      BY <3>1
    <3>3. IsFiniteSet({Symbol})
      BY FS_Singleton
    <3> HIDE DEF worths
    <3>4. Summable(worths)
      <4>1. worths = [i \in DOMAIN worths |-> worths[i]]
        BY DEF worths
      <4> QED BY <1>4, <3>2, <3>3, <4>1 DEF Summable
    <3>5. PICK f : DOMAIN f = {} /\ Summable(f)
      <4>1. DOMAIN <<>> = {} /\ Summable(<<>>)
        BY FS_EmptySet DEF Summable
      <4> QED BY <4>1
    <3>6. RatSum(worths) = RatSum(f) ++ worths[Symbol] /\ RatSum(f) = Zero
      BY <3>2, <3>4, <3>5, SumGrows, SumIs
    <3> QED BY <1>4, <3>2, <3>6, PlusLaws
  <2> QED BY <2>1, <2>2
<1>6. p.cash ++ (Held(p) \otimes x) \in Rats
  BY <1>3, <1>4, Closed
<1> QED BY <1>1, <1>2, <1>5, <1>6

\* A sale of more than is held is refused.
Refused(quantity, f) == f.side = "sell" /\ quantity \prec f.quantity

CashAfter(cash, f) ==
    IF f.side = "buy" THEN cash -- (f.quantity \otimes BookedAt(f))
    ELSE cash ++ (f.quantity \otimes BookedAt(f))
QuantityAfter(quantity, f) ==
    IF f.side = "buy" THEN quantity ++ f.quantity ELSE quantity -- f.quantity

\* An update of the portfolio with a fill.
LEMMA BookingIs ==
    ASSUME NEW r, NEW f, FillOK(f), NEW pid, BookOK(PF!load(pid)), PF!load(pid).state # "closed"
    PROVE  LET c == PortfolioContext(r, f)
               p == PF!load(pid)
               new == PF!updated(p, c)
               v == PF!valuation(new, c.prices)
           IN  /\ PF!Succeeds(pid, c) <=> ~Refused(Held(p), f)
               /\ PF!Succeeds(pid, c) =>
                     /\ BookOK(new) /\ new.state = "active"
                     /\ new.cash = CashAfter(p.cash, f)
                     /\ Held(new) = QuantityAfter(Held(p), f)
                     /\ v.total_value = new.cash ++ (Held(new) \otimes f.price)
                     /\ v.total_value \in Rats /\ v # Absent
<1> DEFINE c == PortfolioContext(r, f)
           p == PF!load(pid)
           new == PF!updated(p, c)
           e == PF!entry(c)
           held == p.positions
<1>1. /\ PF!execution_ok(c) /\ EntryOK(e) /\ e.side = f.side /\ e.quantity = f.quantity
      /\ e.price = BookedAt(f) /\ e.price \in Rats
      /\ DOMAIN c.prices = {Symbol} /\ c.prices[Symbol] = f.price
  BY EntryIs
<1>2. /\ f.quantity \in Rats /\ Zero \prec f.quantity /\ f.price \in Rats
      /\ f.side \in {"buy", "sell"}
  BY DEF FillOK
<1>3. /\ p.cash \in Rats /\ p.realized_pnl \in Rats /\ PositionsOK(held) /\ LedgerOK(p.ledger)
  BY DEF BookOK
<1>4. /\ new.state = "active" /\ new.positions = PF!holdings_apply(held, e)
      /\ new.cash = PF!cash_apply(p.cash, e) /\ new.ledger = Append(p.ledger, e)
      /\ new.realized_pnl = p.realized_pnl ++ PF!_realized_delta(held, e)
  BY BookArithmetic DEF PF!updated
<1>5. /\ Held(p) \in Rats
      /\ Held(p) = IF Symbol \in DOMAIN held THEN held[Symbol].quantity ELSE Zero
  BY <1>3, ZeroOver DEF PositionsOK, PositionOK, Held
<1>6. PF!Succeeds(pid, c) <=> PF!holdings_ok(held, e) /\ DOMAIN new.positions \subseteq {Symbol}
  BY <1>1 DEF PF!Succeeds, PF!valuation_ok
<1> HIDE DEF c, p, new, e, held
<1>7. PF!holdings_ok(held, e) <=> ~Refused(Held(p), f)
  <2>1. f.quantity \preceq Held(p) <=> ~(Held(p) \prec f.quantity)
    BY <1>2, <1>5, Compared
  <2> QED BY <1>1, <1>2, <1>5, <2>1, BookArithmetic DEF PF!holdings_ok, EntryOK, Refused
<1>8. ASSUME PF!holdings_ok(held, e)
      PROVE  /\ BookOK(new)
             /\ new.cash = CashAfter(p.cash, f)
             /\ Held(new) = QuantityAfter(Held(p), f)
  <2>1. /\ PositionsOK(new.positions)
        /\ (IF Symbol \in DOMAIN new.positions THEN new.positions[Symbol].quantity ELSE Zero) =
              IF e.side = "buy" THEN Held(p) ++ e.quantity ELSE Held(p) -- e.quantity
    BY <1>1, <1>2, <1>3, <1>4, <1>5, <1>8, HoldingAfter
  <2>2. Held(new) = QuantityAfter(Held(p), f)
    BY <1>1, <2>1 DEF Held, QuantityAfter
  <2>3. f.quantity \otimes BookedAt(f) \in Rats
    BY <1>1, <1>2, Closed
  <2>4. new.cash = CashAfter(p.cash, f)
    BY <1>1, <1>4, BookArithmetic DEF PF!cash_apply, CashAfter
  <2>5. new.cash \in Rats
    BY <1>3, <2>3, <2>4, Closed DEF CashAfter
  <2>6. PF!_realized_delta(held, e) \in Rats
    <3>1. CASE e.side = "sell" /\ e.symbol \in DOMAIN held
      <4>1. held[e.symbol].average_cost \in Rats
        BY <1>3, <3>1 DEF PositionsOK, PositionOK
      <4>2. e.price -- held[e.symbol].average_cost \in Rats
        BY <1>1, <4>1, Closed
      <4>3. e.quantity \otimes (e.price -- held[e.symbol].average_cost) \in Rats
        BY <1>1, <1>2, <4>2, Closed
      <4> QED BY <3>1, <4>3, BookArithmetic DEF PF!_realized_delta
    <3>2. CASE ~(e.side = "sell" /\ e.symbol \in DOMAIN held)
      BY <3>2, ZeroOver, BookArithmetic DEF PF!_realized_delta
    <3> QED BY <3>1, <3>2
  <2>7. new.realized_pnl \in Rats
    BY <1>3, <1>4, <2>6, Closed
  <2>8. LedgerOK(new.ledger)
    <3>1. /\ IsSeq(new.ledger) /\ Len(p.ledger) \in Nat
          /\ DOMAIN new.ledger = 1..(Len(p.ledger) + 1) /\ DOMAIN p.ledger = 1..Len(p.ledger)
          /\ \A i \in 1..Len(p.ledger) : new.ledger[i] = p.ledger[i]
          /\ new.ledger[Len(p.ledger) + 1] = e
      BY <1>3, <1>4, AppendIs, SeqIs DEF LedgerOK
    <3>2. \A i \in DOMAIN new.ledger : i \in DOMAIN p.ledger \/ i = Len(p.ledger) + 1
      BY <3>1
    <3> QED BY <1>1, <1>3, <3>1, <3>2 DEF LedgerOK
  <2> QED BY <2>1, <2>2, <2>4, <2>5, <2>7, <2>8 DEF BookOK
<1>9. ASSUME PF!holdings_ok(held, e)
      PROVE  /\ DOMAIN new.positions \subseteq {Symbol}
             /\ PF!valuation(new, c.prices).total_value = new.cash ++ (Held(new) \otimes f.price)
             /\ PF!valuation(new, c.prices).total_value \in Rats
             /\ PF!valuation(new, c.prices) # Absent
  <2>1. BookOK(new)
    BY <1>8, <1>9
  <2>2. DOMAIN new.positions \subseteq {Symbol}
    BY <2>1 DEF BookOK, PositionsOK
  <2> QED BY <1>1, <1>2, <2>1, <2>2, ValuationIs
<1>10. PF!Succeeds(pid, c) <=> PF!holdings_ok(held, e)
  BY <1>6, <1>9
<1> QED BY <1>4, <1>7, <1>8, <1>9, <1>10 DEF c, p, new

-----------------------------------------------------------------------------
(* The history of a run.                                                     *)

\* The values of a curve and the changes between them.
CurveOK(curve, returns) ==
    /\ curve \in Seq(Rats) /\ returns \in Seq(Rats) /\ Len(curve) = Len(returns) + 1
    /\ \A i \in DOMAIN returns : returns[i] = Change(curve[i], curve[i + 1])

\* s is followed by e.
FollowedBy(s, e, t) == t = Append(s, e)

LEMMA CurveGrows ==
    ASSUME NEW curve, NEW returns, CurveOK(curve, returns), NEW equity \in Rats,
           NEW c, FollowedBy(curve, equity, c),
           NEW r, FollowedBy(returns, Change(curve[Len(curve)], equity), r)
    PROVE  /\ CurveOK(c, r) /\ Len(r) = Len(returns) + 1 /\ Len(returns) \in Nat
           /\ c[Len(c)] = equity
<1>1. /\ Len(returns) \in Nat /\ Len(curve) = Len(returns) + 1
      /\ DOMAIN returns = 1..Len(returns) /\ DOMAIN curve = 1..Len(curve)
      /\ curve \in Seq(Rats) /\ returns \in Seq(Rats)
  BY DEF CurveOK
<1>2. PICK prev \in Rats : prev = curve[Len(curve)]
  BY <1>1
<1>3. PICK change \in Rats : change = Change(prev, equity)
  <2>1. Zero \prec prev => (equity -- prev) \oslash prev \in Rats
    BY ScaledOrder, Closed
  <2> QED BY <2>1, ZeroOver DEF Change
<1>4. /\ c \in Seq(Rats) /\ Len(c) = Len(curve) + 1
      /\ \A i \in 1..Len(curve) : c[i] = curve[i]
      /\ c[Len(curve) + 1] = equity
  BY <1>1 DEF FollowedBy
<1>5. /\ r \in Seq(Rats) /\ Len(r) = Len(returns) + 1 /\ DOMAIN r = 1..(Len(returns) + 1)
      /\ \A i \in 1..Len(returns) : r[i] = returns[i]
      /\ r[Len(returns) + 1] = change
  BY <1>1, <1>2, <1>3 DEF FollowedBy
<1>6. ASSUME NEW i \in DOMAIN r PROVE r[i] = Change(c[i], c[i + 1])
  <2>1. CASE i = Len(returns) + 1
    <3>1. c[i] = prev /\ c[i + 1] = equity
      BY <1>1, <1>2, <1>4, <2>1
    <3> QED BY <1>3, <1>5, <2>1, <3>1
  <2>2. CASE i # Len(returns) + 1
    <3>1. i \in DOMAIN returns /\ i \in 1..Len(curve) /\ i + 1 \in 1..Len(curve)
      BY <1>1, <1>5, <2>2
    <3> QED BY <1>1, <1>4, <1>5, <3>1 DEF CurveOK
  <2> QED BY <2>1, <2>2
<1> QED BY <1>1, <1>4, <1>5, <1>6 DEF CurveOK

StepOK(s) == /\ s.fill = Absent \/ FillOK(s.fill)
             /\ ShownOK(s.shown, s.index)

StepsOK(steps) == IsSeq(steps) /\ \A i \in DOMAIN steps : StepOK(steps[i])

Filled(steps) == {i \in DOMAIN steps : steps[i].fill # Absent}
Charges(steps) == [i \in Filled(steps) |-> steps[i].fill.commission]

LEMMA ChargesAre ==
    ASSUME NEW steps, StepsOK(steps)
    PROVE  /\ Summable(Charges(steps)) /\ DOMAIN Charges(steps) = Filled(steps)
           /\ IsFiniteSet(Filled(steps)) /\ Cardinality(Filled(steps)) \in Nat
           /\ RatSum(Charges(steps)) \in Rats
<1>1. Len(steps) \in Nat /\ DOMAIN steps = 1..Len(steps)
  BY SeqIs DEF StepsOK
<1>2. IsFiniteSet(Filled(steps)) /\ Cardinality(Filled(steps)) \in Nat
  <2>1. IsFiniteSet(1..Len(steps)) /\ Filled(steps) \subseteq 1..Len(steps)
    BY <1>1, FS_Interval DEF Filled
  <2> QED BY <2>1, FS_Subset, FS_CardinalityType
<1>3. \A i \in Filled(steps) : Charges(steps)[i] \in Rats
  BY DEF Filled, Charges, StepsOK, StepOK, FillOK
<1>4. Summable(Charges(steps)) /\ DOMAIN Charges(steps) = Filled(steps)
  <2>1. DOMAIN Charges(steps) = Filled(steps)
    BY DEF Charges
  <2>2. Charges(steps) = [i \in DOMAIN Charges(steps) |-> Charges(steps)[i]]
    BY DEF Charges
  <2> QED BY <1>2, <1>3, <2>1, <2>2 DEF Summable
<1> QED BY <1>2, <1>4, SumIs

\* One more step.
LEMMA StepsGrow ==
    ASSUME NEW steps, StepsOK(steps), NEW s, StepOK(s), NEW t, FollowedBy(steps, s, t)
    PROVE  /\ StepsOK(t) /\ Len(t) = Len(steps) + 1 /\ Len(steps) \in Nat
           /\ s.fill = Absent =>
                 /\ Cardinality(Filled(t)) = Cardinality(Filled(steps))
                 /\ RatSum(Charges(t)) = RatSum(Charges(steps))
           /\ s.fill # Absent =>
                 /\ Cardinality(Filled(t)) = Cardinality(Filled(steps)) + 1
                 /\ RatSum(Charges(t)) = RatSum(Charges(steps)) ++ s.fill.commission
<1> DEFINE n == Len(steps) + 1
<1>1. /\ IsSeq(t) /\ Len(steps) \in Nat /\ Len(t) = n /\ t[n] = s
      /\ DOMAIN t = 1..n /\ DOMAIN steps = 1..Len(steps)
      /\ \A i \in 1..Len(steps) : t[i] = steps[i]
  BY AppendIs, SeqIs DEF StepsOK, FollowedBy
<1>2. DOMAIN t = DOMAIN steps \union {n} /\ n \notin DOMAIN steps
  BY <1>1
<1> HIDE DEF n
<1>3. \A i \in DOMAIN t : (i \in DOMAIN steps /\ t[i] = steps[i]) \/ (i = n /\ t[i] = s)
  BY <1>1, <1>2
<1>4. StepsOK(t)
  BY <1>1, <1>3 DEF StepsOK
<1>5. ASSUME s.fill = Absent
      PROVE  Filled(t) = Filled(steps) /\ Charges(t) = Charges(steps)
  <2>1. Filled(t) = Filled(steps)
    BY <1>1, <1>2, <1>3, <1>5 DEF Filled
  <2>2. \A i \in Filled(steps) : t[i].fill.commission = steps[i].fill.commission
    BY <1>1, <1>2 DEF Filled
  <2> QED BY <2>1, <2>2, Zenon DEF Charges
<1>6. ASSUME s.fill # Absent
      PROVE  /\ Filled(t) = Filled(steps) \union {n} /\ n \notin Filled(steps)
             /\ \A i \in Filled(steps) : Charges(t)[i] = Charges(steps)[i]
             /\ Charges(t)[n] = s.fill.commission
  <2>1. Filled(t) = Filled(steps) \union {n} /\ n \notin Filled(steps)
    BY <1>1, <1>2, <1>3, <1>6 DEF Filled
  <2>2. \A i \in Filled(steps) : i \in 1..Len(steps) /\ i \in Filled(t)
    BY <1>1, <2>1 DEF Filled
  <2> QED BY <1>1, <2>1, <2>2 DEF Charges
<1>7. ASSUME s.fill # Absent
      PROVE  /\ Cardinality(Filled(t)) = Cardinality(Filled(steps)) + 1
             /\ RatSum(Charges(t)) = RatSum(Charges(steps)) ++ s.fill.commission
  <2>1. Cardinality(Filled(t)) = Cardinality(Filled(steps)) + 1
    BY <1>6, <1>7, ChargesAre, FS_AddElement, Zenon
  <2>2. /\ Summable(Charges(t)) /\ DOMAIN Charges(t) = Filled(t)
        /\ Summable(Charges(steps)) /\ DOMAIN Charges(steps) = Filled(steps)
    BY <1>4, ChargesAre
  <2>3. RatSum(Charges(t)) = RatSum(Charges(steps)) ++ Charges(t)[n]
    BY <1>6, <1>7, <2>2, SumGrows
  <2> QED BY <1>6, <1>7, <2>1, <2>3
<1>8. Len(t) = Len(steps) + 1
  BY <1>1 DEF n
<1> QED BY <1>1, <1>4, <1>5, <1>7, <1>8

\* Where a limit stops a run.
Cap(limit) == IF limit < 0 THEN 0 ELSE limit

LEMMA CapIs ==
    ASSUME NEW limit \in Int
    PROVE  Max({0, limit}) = Cap(limit)
BY MaxIs DEF Cap

-----------------------------------------------------------------------------
(* A run.                                                                    *)

RunFields == {"at", "state", "context", "step_no", "fill", "shown", "equity_curve", "returns",
              "trades", "position_result", "trade_result", "portfolio_result", "previous",
              "steps", "fills", "total_commission", "cancelled"}

ScheduleOf(x) == iterate(x.context.candles, x.context.replay_speed)

RunTyped(x) ==
    /\ DOMAIN x = RunFields
    /\ x.context \in Backtests /\ x.context.replay_speed >= 1
    /\ x.fill = Absent \/ FillOK(x.fill)
    /\ x.at = "book" => x.fill # Absent
    /\ x.portfolio_result = Absent \/ x.portfolio_result.total_value \in Rats
    /\ x.at \in {"step", "book", "settle", "analyze", "done"}
    /\ x.state \in SimulationState
    /\ x.at # "done" => x.state = "running"

TradesOK(x) ==
    /\ x.trades \in Seq(Trades) /\ DistinctIds(x.trades)
    /\ x.trade_result = Absent \/ x.trade_result \in Trades
    /\ x.trade_result # Absent => x.trades # <<>> \/ x.context.trade_result # Absent

RunHistoryOK(x) ==
    /\ CurveOK(x.equity_curve, x.returns)
    /\ StepsOK(x.steps) /\ Len(x.steps) = x.step_no /\ Len(x.returns) = x.step_no

\* The step in progress.
InStep(x) == x.at \in {"book", "settle"}
Pending(x) == InStep(x) /\ x.fill # Absent

CountsOK(x) ==
    IF Pending(x)
    THEN /\ x.fills = Cardinality(Filled(x.steps)) + 1
         /\ x.total_commission = RatSum(Charges(x.steps)) ++ x.fill.commission
    ELSE /\ x.fills = Cardinality(Filled(x.steps))
         /\ x.total_commission = RatSum(Charges(x.steps))

ProgressOK(x) ==
    LET n == Len(ScheduleOf(x))  limits == x.context.cancel_after_steps IN
    /\ x.step_no \in Nat /\ x.step_no <= n
    /\ \A limit \in limits : x.step_no <= Cap(limit)
    /\ InStep(x) => /\ x.step_no < n /\ \A limit \in limits : x.step_no < limit
                    /\ ShownOK(x.shown, ScheduleOf(x)[x.step_no + 1])
    /\ x.at = "analyze" \/ x.state \in {"completed", "cancelled"} =>
          IF x.cancelled THEN \E limit \in limits : x.step_no = Cap(limit)
          ELSE x.step_no = n

RunOK(x) ==
    RunTyped(x) /\ TradesOK(x) /\ RunHistoryOK(x) /\ CountsOK(x) /\ ProgressOK(x)

-----------------------------------------------------------------------------
(* The steps of a run.                                                       *)

LEMMA NewRunIs ==
    ASSUME NEW c \in Backtests, c.replay_speed >= 1
    PROVE  RunOK(NewRun(c))
<1> DEFINE x == NewRun(c)
<1>1. /\ DOMAIN x = RunFields /\ x.context = c /\ x.fill = Absent /\ x.at = "step"
      /\ x.portfolio_result = c.portfolio_result /\ x.state = "running" /\ x.step_no = 0
      /\ x.trades = <<>> /\ x.trade_result = c.trade_result
      /\ x.equity_curve = <<InitialCash>> /\ x.returns = <<>> /\ x.steps = <<>>
      /\ x.fills = 0 /\ x.total_commission = Zero /\ x.cancelled = FALSE
  BY DEF NewRun, RunFields
<1> HIDE DEF x
<1>2. RunTyped(x)
  <2>1. x.portfolio_result = Absent \/ x.portfolio_result.total_value \in Rats
    BY <1>1, BacktestAssumption, IsRatIs
  <2> QED BY <1>1, <2>1 DEF RunTyped, SimulationState
<1>3. TradesOK(x)
  <2>1. <<>> \in Seq(Trades) /\ DOMAIN <<>> = {}
    OBVIOUS
  <2>2. c.trade_result = Absent \/ c.trade_result \in Trades
    BY BacktestAssumption
  <2> QED BY <1>1, <2>1, <2>2 DEF TradesOK, DistinctIds
<1>4. StepsOK(<<>>) /\ Filled(<<>>) = {} /\ Cardinality(Filled(<<>>)) = 0
  <2>1. IsSeq(<<>>) /\ DOMAIN <<>> = {}
    BY DEF IsSeq
  <2>2. Filled(<<>>) = {}
    BY <2>1 DEF Filled
  <2> QED BY <2>1, <2>2, FS_EmptySet DEF StepsOK
<1>5. RatSum(Charges(<<>>)) = Zero
  BY <1>4, ChargesAre, SumIs
<1>6. RunHistoryOK(x)
  <2>1. PICK cash \in Rats : cash = InitialCash
    BY CashIsRat
  <2>2. <<cash>> \in Seq(Rats) /\ Len(<<cash>>) = 1 /\ <<>> \in Seq(Rats) /\ Len(<<>>) = 0
    OBVIOUS
  <2>3. CurveOK(<<cash>>, <<>>)
    BY <2>2 DEF CurveOK
  <2> QED BY <1>1, <1>4, <2>1, <2>2, <2>3 DEF RunHistoryOK
<1>7. CountsOK(x)
  BY <1>1, <1>4, <1>5 DEF CountsOK, Pending, InStep
<1>8. ProgressOK(x)
  <2>1. Len(c.candles) \in Nat /\ c.replay_speed \in Int /\ c.cancel_after_steps \subseteq Int
    <3>1. c.candles \in Seq(Range(c.candles))
      BY BacktestAssumption
    <3> QED BY <3>1, BacktestAssumption
  <2>2. Len(ScheduleOf(x)) \in Nat
    BY <1>1, <2>1, ScheduleIs DEF ScheduleOf
  <2>3. \A limit \in c.cancel_after_steps : 0 <= Cap(limit)
    BY <2>1 DEF Cap
  <2> QED BY <1>1, <2>2, <2>3 DEF ProgressOK, InStep
<1> QED BY <1>2, <1>3, <1>6, <1>7, <1>8 DEF RunOK, x

\* What the schedule of a run is.
LEMMA RunScheduleIs ==
    ASSUME NEW x, RunOK(x)
    PROVE  LET s == ScheduleOf(x) IN
           /\ Len(s) \in Nat /\ x.context.cancel_after_steps \subseteq Int
           /\ x.step_no \in Nat /\ Len(x.context.candles) \in Nat
           /\ x.step_no < Len(s) => s[x.step_no + 1] \in 1..Len(x.context.candles)
<1>1. x.context \in Backtests /\ x.context.replay_speed >= 1 /\ x.step_no \in Nat
  BY DEF RunOK, RunTyped, ProgressOK
<1>2. /\ Len(x.context.candles) \in Nat /\ x.context.replay_speed \in Int
      /\ x.context.cancel_after_steps \subseteq Int
  <2>1. x.context.candles \in Seq(Range(x.context.candles))
    BY <1>1, BacktestAssumption
  <2> QED BY <1>1, <2>1, BacktestAssumption
<1>3. /\ Len(ScheduleOf(x)) \in Nat
      /\ \A k \in Nat : k < Len(ScheduleOf(x)) =>
            ScheduleOf(x)[k + 1] \in 1..Len(x.context.candles)
  BY <1>1, <1>2, ScheduleIs DEF ScheduleOf
<1> QED BY <1>1, <1>2, <1>3

\* What a step of a run leaves alone.
SameHistory(x, y) ==
    /\ DOMAIN y = RunFields
    /\ y.context = x.context /\ y.step_no = x.step_no /\ y.equity_curve = x.equity_curve
    /\ y.returns = x.returns /\ y.trades = x.trades /\ y.trade_result = x.trade_result
    /\ y.steps = x.steps

\* Nothing is booked by the step.
Quiet(x, y) ==
    /\ SameHistory(x, y) /\ y.portfolio_result = x.portfolio_result
    /\ y.at = "settle" => y.fill = Absent

LEMMA HistoryStays ==
    ASSUME NEW x, RunOK(x), NEW y, SameHistory(x, y)
    PROVE  /\ TradesOK(y) /\ RunHistoryOK(y) /\ ScheduleOf(y) = ScheduleOf(x)
           /\ y.context \in Backtests /\ y.context.replay_speed >= 1
BY DEF RunOK, SameHistory, TradesOK, RunHistoryOK, ScheduleOf, RunTyped

LEMMA FailedIs ==
    ASSUME NEW x, RunOK(x), x.at = "step",
           NEW y, y = [x EXCEPT !.at = "done", !.state = "failed"]
    PROVE  RunOK(y) /\ Quiet(x, y) /\ y.at = "done" /\ y.state = "failed"
<1>1. DOMAIN x = RunFields
  BY DEF RunOK, RunTyped
<1>2. SameHistory(x, y)
  BY <1>1 DEF SameHistory, RunFields
<1>3. /\ y.at = "done" /\ y.state = "failed" /\ y.fill = x.fill /\ y.fills = x.fills
      /\ y.portfolio_result = x.portfolio_result /\ y.total_commission = x.total_commission
  BY <1>1 DEF RunFields
<1>4. TradesOK(y) /\ RunHistoryOK(y)
  BY <1>2, HistoryStays
<1>5. RunTyped(y)
  BY <1>2, <1>3 DEF RunOK, RunTyped, SameHistory, SimulationState
<1>6. CountsOK(y)
  BY <1>2, <1>3 DEF RunOK, CountsOK, Pending, InStep, SameHistory
<1>7. ProgressOK(y)
  BY <1>2, <1>3 DEF RunOK, ProgressOK, InStep, SameHistory, ScheduleOf
<1> QED BY <1>2, <1>3, <1>4, <1>5, <1>6, <1>7 DEF RunOK, Quiet

LEMMA EndedIs ==
    ASSUME NEW x, RunOK(x), x.at = "step",
           \/ x.step_no = Len(ScheduleOf(x))
           \/ \E limit \in x.context.cancel_after_steps : x.step_no >= limit,
           NEW y, y = [x EXCEPT !.at = "analyze",
                                !.cancelled = x.step_no < Len(ScheduleOf(x))]
    PROVE  RunOK(y) /\ Quiet(x, y)
<1>1. DOMAIN x = RunFields
  BY DEF RunOK, RunTyped
<1>2. SameHistory(x, y)
  BY <1>1 DEF SameHistory, RunFields
<1>3. /\ y.at = "analyze" /\ y.state = x.state /\ y.fill = x.fill /\ y.fills = x.fills
      /\ y.portfolio_result = x.portfolio_result /\ y.total_commission = x.total_commission
      /\ y.cancelled = (x.step_no < Len(ScheduleOf(x)))
  BY <1>1 DEF RunFields
<1>4. TradesOK(y) /\ RunHistoryOK(y)
  BY <1>2, HistoryStays
<1>5. RunTyped(y)
  BY <1>2, <1>3 DEF RunOK, RunTyped, SameHistory
<1>6. CountsOK(y)
  BY <1>2, <1>3 DEF RunOK, CountsOK, Pending, InStep, SameHistory
<1>7. ProgressOK(y)
  <2>1. /\ Len(ScheduleOf(x)) \in Nat /\ x.context.cancel_after_steps \subseteq Int
        /\ x.step_no \in Nat
    BY RunScheduleIs
  <2>2. /\ x.step_no <= Len(ScheduleOf(x))
        /\ \A limit \in x.context.cancel_after_steps : x.step_no <= Cap(limit)
    BY DEF RunOK, ProgressOK
  <2>3. IF y.cancelled THEN \E limit \in x.context.cancel_after_steps : x.step_no = Cap(limit)
        ELSE x.step_no = Len(ScheduleOf(x))
    <3>1. CASE x.step_no < Len(ScheduleOf(x))
      <4>1. PICK limit \in x.context.cancel_after_steps : x.step_no >= limit
        BY <2>1, <3>1
      <4>2. x.step_no = Cap(limit)
        BY <2>1, <2>2, <4>1 DEF Cap
      <4> QED BY <1>3, <3>1, <4>2
    <3>2. CASE ~(x.step_no < Len(ScheduleOf(x)))
      <4>1. x.step_no = Len(ScheduleOf(x))
        BY <2>1, <2>2, <3>2
      <4>2. ~y.cancelled
        BY <1>3, <3>2, Zenon
      <4> QED BY <4>1, <4>2
    <3> QED BY <3>1, <3>2
  <2> QED BY <1>2, <1>3, <2>1, <2>2, <2>3 DEF ProgressOK, InStep, SameHistory, ScheduleOf
<1> QED BY <1>2, <1>3, <1>4, <1>5, <1>6, <1>7 DEF RunOK, Quiet

\* A step begins: it fills nothing, or it fills f.
LEMMA BegunIs ==
    ASSUME NEW x, RunOK(x), x.at = "step",
           x.step_no # Len(ScheduleOf(x)),
           \A limit \in x.context.cancel_after_steps : ~(x.step_no >= limit),
           NEW shown, ShownOK(shown, ScheduleOf(x)[x.step_no + 1]),
           NEW f, NEW y,
           \/ f = Absent /\ y = [x EXCEPT !.at = "settle", !.fill = Absent, !.shown = shown]
           \/ FillOK(f) /\ y = [x EXCEPT !.at = "book", !.fill = f, !.shown = shown,
                                         !.fills = @ + 1,
                                         !.total_commission = @ ++ f.commission]
    PROVE  RunOK(y) /\ Quiet(x, y)
<1>1. DOMAIN x = RunFields
  BY DEF RunOK, RunTyped
<1>2. SameHistory(x, y)
  BY <1>1 DEF SameHistory, RunFields
<1>3. /\ y.at = IF f = Absent THEN "settle" ELSE "book"
      /\ y.fill = f /\ y.state = x.state /\ y.shown = shown
      /\ y.portfolio_result = x.portfolio_result
      /\ y.fills = IF f = Absent THEN x.fills ELSE x.fills + 1
      /\ y.total_commission = IF f = Absent THEN x.total_commission
                              ELSE x.total_commission ++ f.commission
      /\ y.cancelled = x.cancelled
  BY <1>1 DEF RunFields, FillOK
<1>4. f = Absent \/ FillOK(f)
  OBVIOUS
<1>5. TradesOK(y) /\ RunHistoryOK(y)
  BY <1>2, HistoryStays
<1>6. RunTyped(y)
  BY <1>2, <1>3, <1>4 DEF RunOK, RunTyped, SameHistory
<1>7. CountsOK(y)
  BY <1>2, <1>3 DEF RunOK, CountsOK, Pending, InStep, SameHistory
<1>8. ProgressOK(y)
  <2>1. /\ Len(ScheduleOf(x)) \in Nat /\ x.context.cancel_after_steps \subseteq Int
        /\ x.step_no \in Nat
    BY RunScheduleIs
  <2>2. /\ x.step_no <= Len(ScheduleOf(x)) /\ x.state = "running"
        /\ \A limit \in x.context.cancel_after_steps : x.step_no <= Cap(limit)
    BY DEF RunOK, ProgressOK, RunTyped
  <2>3. /\ x.step_no < Len(ScheduleOf(x))
        /\ \A limit \in x.context.cancel_after_steps : x.step_no < limit
    BY <2>1, <2>2
  <2> QED BY <1>2, <1>3, <2>1, <2>2, <2>3 DEF ProgressOK, InStep, SameHistory, ScheduleOf
<1> QED BY <1>2, <1>3, <1>5, <1>6, <1>7, <1>8 DEF RunOK, Quiet

\* The fill is booked, with a new result or the one before.
BookedAs(x, v, p, y) ==
    y = [x EXCEPT !.at = "settle", !.portfolio_result = v, !.previous = p]

LEMMA BookedIs ==
    ASSUME NEW x, RunOK(x), x.at = "book", NEW v, NEW p,
           v = x.portfolio_result \/ v.total_value \in Rats,
           NEW y, BookedAs(x, v, p, y)
    PROVE  /\ RunOK(y) /\ SameHistory(x, y) /\ y.portfolio_result = v
           /\ y.at = "settle" /\ y.fill = x.fill
<1>1. DOMAIN x = RunFields
  BY DEF RunOK, RunTyped
<1>2. SameHistory(x, y)
  BY <1>1 DEF SameHistory, RunFields, BookedAs
<1>3. /\ y.at = "settle" /\ y.state = x.state /\ y.fill = x.fill /\ y.fills = x.fills
      /\ y.portfolio_result = v /\ y.total_commission = x.total_commission
      /\ y.shown = x.shown /\ y.cancelled = x.cancelled
  BY <1>1 DEF RunFields, BookedAs
<1>4. TradesOK(y) /\ RunHistoryOK(y)
  BY <1>2, HistoryStays
<1>5. RunTyped(y)
  BY <1>2, <1>3 DEF RunOK, RunTyped, SameHistory
<1>6. CountsOK(y)
  BY <1>2, <1>3 DEF RunOK, CountsOK, Pending, InStep, SameHistory
<1>7. ProgressOK(y)
  BY <1>2, <1>3 DEF RunOK, RunTyped, ProgressOK, InStep, SameHistory, ScheduleOf
<1> QED BY <1>2, <1>3, <1>4, <1>5, <1>6, <1>7 DEF RunOK

\* The end of a step.
StepOf(x) == SimulationStep(ScheduleOf(x)[x.step_no + 1], _equity(x.portfolio_result), x)

RecordedAs(x, p, t, y) ==
    y = [x EXCEPT
           !.at = "step",
           !.step_no = @ + 1,
           !.position_result = p,
           !.trade_result = t,
           !.trades = IF x.fill = Absent THEN @ ELSE _upsert_trade(@, t),
           !.equity_curve = Append(@, _equity(x.portfolio_result)),
           !.returns = Append(@, Change(x.equity_curve[Len(x.equity_curve)],
                                        _equity(x.portfolio_result))),
           !.steps = Append(@, StepOf(x))]

LEMMA SettledIs ==
    ASSUME NEW x, RunOK(x), x.at = "settle",
           NEW p, NEW t, t = x.trade_result \/ (x.fill # Absent /\ t \in Trades),
           NEW y, RecordedAs(x, p, t, y)
    PROVE  /\ RunOK(y)
           /\ y.equity_curve[Len(y.equity_curve)] = _equity(x.portfolio_result)
           /\ FollowedBy(x.steps, StepOf(x), y.steps) /\ StepOf(x).fill = x.fill
           /\ y.portfolio_result = x.portfolio_result
           /\ y.context = x.context /\ y.at = "step"
<1>1. PICK s : s = StepOf(x)
  OBVIOUS
<1>2. DOMAIN x = RunFields
  BY DEF RunOK, RunTyped
<1>3. PICK equity \in Rats : equity = _equity(x.portfolio_result)
  BY CashIsRat DEF RunOK, RunTyped, _equity
<1>4. /\ DOMAIN y = RunFields
      /\ y.at = "step" /\ y.state = x.state /\ y.fill = x.fill /\ y.fills = x.fills
      /\ y.portfolio_result = x.portfolio_result /\ y.total_commission = x.total_commission
      /\ y.context = x.context /\ y.step_no = x.step_no + 1 /\ y.trade_result = t
      /\ y.trades = (IF x.fill = Absent THEN x.trades ELSE _upsert_trade(x.trades, t))
      /\ y.equity_curve = Append(x.equity_curve, equity)
      /\ y.returns = Append(x.returns, Change(x.equity_curve[Len(x.equity_curve)], equity))
      /\ y.steps = Append(x.steps, s)
  BY <1>1, <1>2, <1>3 DEF RunFields, RecordedAs
<1>5. /\ s.index = ScheduleOf(x)[x.step_no + 1] /\ s.shown = x.shown /\ s.fill = x.fill
  BY <1>1 DEF SimulationStep, StepOf
<1>6. /\ RunTyped(x) /\ TradesOK(x) /\ RunHistoryOK(x) /\ CountsOK(x) /\ ProgressOK(x)
  BY DEF RunOK
<1>7. RunTyped(y)
  BY <1>4, <1>6 DEF RunTyped
<1>8. TradesOK(y)
  <2>1. CASE x.fill = Absent \/ t = Absent
    <3>1. y.trades = x.trades
      BY <1>4, <2>1 DEF _upsert_trade
    <3> QED BY <1>4, <1>6, <2>1, <3>1 DEF TradesOK
  <2>2. CASE x.fill # Absent /\ t # Absent
    <3>1. t \in Trades
      BY <1>6, <2>2 DEF TradesOK
    <3>2. x.trades \in Seq(Trades) /\ DistinctIds(x.trades)
      BY <1>6 DEF TradesOK
    <3>3. /\ _upsert_trade(x.trades, t) \in Seq(Trades)
          /\ DistinctIds(_upsert_trade(x.trades, t)) /\ _upsert_trade(x.trades, t) # <<>>
      BY <2>2, <3>1, <3>2, UpsertIs
    <3>4. y.trades = _upsert_trade(x.trades, t)
      BY <1>4, <2>2
    <3> QED BY <1>4, <3>1, <3>3, <3>4 DEF TradesOK
  <2> QED BY <2>1, <2>2
<1>9. StepOK(s)
  BY <1>5, <1>6 DEF RunTyped, ProgressOK, InStep, StepOK
<1>10. /\ StepsOK(x.steps) /\ CurveOK(x.equity_curve, x.returns)
      /\ Len(x.steps) = x.step_no /\ Len(x.returns) = x.step_no
  BY <1>6 DEF RunHistoryOK
<1> DEFINE change == Change(x.equity_curve[Len(x.equity_curve)], equity)
<1>11. /\ FollowedBy(x.equity_curve, equity, y.equity_curve)
      /\ FollowedBy(x.returns, change, y.returns)
      /\ FollowedBy(x.steps, s, y.steps)
  BY <1>4 DEF FollowedBy
<1>12. /\ StepsOK(y.steps) /\ Len(y.steps) = Len(x.steps) + 1
       /\ s.fill = Absent =>
             /\ Cardinality(Filled(y.steps)) = Cardinality(Filled(x.steps))
             /\ RatSum(Charges(y.steps)) = RatSum(Charges(x.steps))
       /\ s.fill # Absent =>
             /\ Cardinality(Filled(y.steps)) = Cardinality(Filled(x.steps)) + 1
             /\ RatSum(Charges(y.steps)) = RatSum(Charges(x.steps)) ++ s.fill.commission
  BY <1>11, <1>9, <1>10, StepsGrow
<1>13. /\ CurveOK(y.equity_curve, y.returns) /\ Len(y.returns) = Len(x.returns) + 1
       /\ y.equity_curve[Len(y.equity_curve)] = equity
  <2>1. PICK c, r, c1, r1 : /\ c = x.equity_curve /\ r = x.returns
                            /\ c1 = y.equity_curve /\ r1 = y.returns
    OBVIOUS
  <2>2. CurveOK(c, r) /\ FollowedBy(c, equity, c1)
    BY <1>11, <1>10, <2>1
  <2>3. FollowedBy(r, Change(c[Len(c)], equity), r1)
    BY <1>11, <2>1
  <2>4. CurveOK(c1, r1) /\ Len(r1) = Len(r) + 1 /\ c1[Len(c1)] = equity
    BY <2>2, <2>3, CurveGrows
  <2> QED BY <2>1, <2>4
<1>14. RunHistoryOK(y)
  BY <1>4, <1>10, <1>12, <1>13 DEF RunHistoryOK
<1>15. CountsOK(y)
  BY <1>4, <1>5, <1>6, <1>12 DEF CountsOK, Pending, InStep
<1>16. ProgressOK(y)
  <2>1. /\ Len(ScheduleOf(x)) \in Nat /\ x.context.cancel_after_steps \subseteq Int
        /\ x.step_no \in Nat
    BY RunScheduleIs
  <2>2. /\ x.step_no < Len(ScheduleOf(x)) /\ x.state = "running"
        /\ \A limit \in x.context.cancel_after_steps : x.step_no < limit
    BY <1>6 DEF ProgressOK, RunTyped, InStep
  <2>3. \A limit \in x.context.cancel_after_steps : x.step_no + 1 <= Cap(limit)
    BY <2>1, <2>2 DEF Cap
  <2> QED BY <1>4, <2>1, <2>2, <2>3 DEF ProgressOK, InStep, ScheduleOf
<1> QED BY <1>1, <1>11, <1>3, <1>4, <1>5, <1>7, <1>8, <1>13, <1>14, <1>15, <1>16 DEF RunOK

Analyzed(x, y) ==
    y = [x EXCEPT !.at = "done", !.state = IF x.cancelled THEN "cancelled" ELSE "completed"]

LEMMA AnalyzedIs ==
    ASSUME NEW x, RunOK(x), x.at = "analyze", NEW y, Analyzed(x, y)
    PROVE  RunOK(y) /\ Quiet(x, y) /\ y.at = "done"
           /\ y.state = (IF x.cancelled THEN "cancelled" ELSE "completed")
           /\ PerformanceContext(y) = PerformanceContext(x)
           /\ BacktestSummary(y) = BacktestSummary(x)
<1>1. DOMAIN x = RunFields
  BY DEF RunOK, RunTyped
<1>2. SameHistory(x, y)
  BY <1>1 DEF SameHistory, RunFields, Analyzed
<1>3. /\ y.at = "done" /\ y.state = (IF x.cancelled THEN "cancelled" ELSE "completed")
      /\ y.fill = x.fill /\ y.fills = x.fills
      /\ y.portfolio_result = x.portfolio_result /\ y.total_commission = x.total_commission
      /\ y.cancelled = x.cancelled /\ y.previous = x.previous
  BY <1>1 DEF RunFields, Analyzed
<1>4. TradesOK(y) /\ RunHistoryOK(y)
  BY <1>2, HistoryStays
<1>5. RunTyped(y)
  BY <1>2, <1>3 DEF RunOK, RunTyped, SameHistory, SimulationState
<1>6. CountsOK(y)
  BY <1>2, <1>3 DEF RunOK, CountsOK, Pending, InStep, SameHistory
<1>7. ProgressOK(y)
  BY <1>2, <1>3 DEF RunOK, ProgressOK, InStep, SameHistory, ScheduleOf
<1>8. /\ PerformanceContext(y) = PerformanceContext(x)
      /\ BacktestSummary(y) = BacktestSummary(x)
  <2>1. /\ y.portfolio_result = x.portfolio_result /\ y.previous = x.previous
        /\ y.trades = x.trades /\ y.trade_result = x.trade_result
        /\ y.equity_curve = x.equity_curve /\ y.returns = x.returns /\ y.step_no = x.step_no
        /\ y.fills = x.fills /\ y.total_commission = x.total_commission
    BY <1>2, <1>3 DEF SameHistory
  <2> QED BY <2>1, Zenon DEF PerformanceContext, BacktestSummary
<1> QED BY <1>2, <1>3, <1>4, <1>5, <1>6, <1>7, <1>8 DEF RunOK, Quiet

\* The first of the signals that can be filled.
LEMMA FirstIs ==
    ASSUME NEW signals \in Decisions, Fillable(signals) # {}
    PROVE  LET first == signals[Min(Fillable(signals))]
           IN  /\ first.direction \in {"buy", "sell"} /\ first.quantity \in Rats
               /\ first.limit = Absent \/ first.limit \in Rats
<1> DEFINE T == Fillable(signals)
<1>1. DOMAIN signals \subseteq Nat
  <2>1. signals \in Seq(Range(signals))
    BY BacktestAssumption
  <2> QED BY <2>1
<1>2. T \subseteq DOMAIN signals /\ T # {} /\ T \subseteq Nat
  BY <1>1 DEF Fillable
<1>3. \A i \in T : signals[i].direction # "hold"
  BY DEF Fillable
<1> HIDE DEF T
<1>4. PICK m \in T : \A k \in T : m <= k
  BY <1>2, LeastNatural
<1>5. Min(T) \in T
  BY <1>4 DEF Min
<1>6. /\ signals[Min(T)].direction \in {"hold", "buy", "sell"}
      /\ IsRat(signals[Min(T)].quantity)
      /\ signals[Min(T)].limit = Absent \/ IsRat(signals[Min(T)].limit)
  BY <1>2, <1>5, BacktestAssumption
<1> QED BY <1>3, <1>5, <1>6, IsRatIs DEF T

\* A simulated fill.
LEMMA SimulatedIs ==
    ASSUME NEW c \in Backtests, NEW close \in Rats, NEW signal,
           signal.direction \in {"buy", "sell"}, signal.quantity \in Rats,
           ~(signal.quantity \preceq Zero),
           signal.limit = Absent \/ signal.limit \in Rats
    PROVE  FillOK(simulate(signal, close, c))
<1> DEFINE scale == Rat(10000)
           slippage == (close \otimes c.slippage_bps) \oslash scale
           price == IF signal.direction = "buy" THEN close ++ slippage ELSE close -- slippage
           commission == ((price \otimes signal.quantity) \otimes c.commission_bps) \oslash scale
<1>1. scale \in Rats /\ scale # Zero /\ Zero \in Rats
  BY RatIsRat, ZeroOver DEF Zero, Rat
<1>2. c.slippage_bps \in Rats /\ c.commission_bps \in Rats
  BY BacktestAssumption, IsRatIs
<1> HIDE DEF scale
<1>3. slippage \in Rats
  <2>1. close \otimes c.slippage_bps \in Rats
    BY <1>2, Closed
  <2> QED BY <1>1, <2>1, Closed
<1> HIDE DEF slippage
<1>4. price \in Rats
  BY <1>3, Closed
<1> HIDE DEF price
<1>5. commission \in Rats
  <2>1. price \otimes signal.quantity \in Rats
    BY <1>4, Closed
  <2>2. (price \otimes signal.quantity) \otimes c.commission_bps \in Rats
    BY <1>2, <2>1, Closed
  <2> QED BY <1>1, <2>2, Closed
<1>6. simulate(signal, close, c) = SimulatedFill(signal, price, commission)
  BY DEF simulate, price, slippage, scale
<1> HIDE DEF commission
<1>7. Zero \prec signal.quantity
  BY <1>1, Compared
<1>8. SimulatedFill(signal, price, commission) # Absent
  BY DEF SimulatedFill, Absent
<1> QED BY <1>4, <1>5, <1>6, <1>7, <1>8 DEF SimulatedFill, FillOK

-----------------------------------------------------------------------------
(* The inductive invariant behind the reports.                               *)

RefusedRun == [Idle EXCEPT !.at = "done", !.state = "failed"]

LEMMA IdleIs ==
    /\ Idle.at = "idle" /\ RefusedRun.at = "done" /\ RefusedRun.state = "failed"
    /\ "context" \notin DOMAIN Idle /\ "context" \notin DOMAIN RefusedRun
BY DEF Idle, RefusedRun

RunsOK ==
    /\ runs = [r \in Runs |-> runs[r]]
    /\ \A r \in Runs : runs[r] = Idle \/ runs[r] = RefusedRun \/ RunOK(runs[r])

BooksOK ==
    /\ portfolios = [pid \in PortfolioIds |-> portfolios[pid]]
    /\ \A pid \in PortfolioIds :
          \/ portfolios[pid] = PF!NoPortfolio
          \/ BookOK(portfolios[pid]) /\ portfolios[pid].state = "active"

\* What is registered is the analysis of a run that is over, or what it was seeded with.
SnapshotOK(x, snapshot) ==
    /\ x.at = "done" /\ RunOK(x) /\ x.state \in {"completed", "cancelled"}
    /\ \E performance :
          /\ performance = IF "performance" \in engines THEN _compute(PerformanceContext(x))
                           ELSE x.context.performance_result
          /\ snapshot = BacktestSnapshot(x, x.state, performance)

SnapshotsOK ==
    \A r \in DOMAIN _snapshots : r \in Runs /\ SnapshotOK(runs[r], _snapshots[r])

BacktestInv == engines \in Wirings /\ RunsOK /\ BooksOK /\ SnapshotsOK

LEMMA BacktestStart ==
    ASSUME BacktestInit
    PROVE  BacktestInv
<1>1. /\ engines \in Wirings /\ portfolios = [pid \in PortfolioIds |-> PF!NoPortfolio]
      /\ runs = [r \in Runs |-> Idle] /\ DOMAIN _snapshots = {}
  BY DEF BacktestInit, PF!PortfolioInit
<1>2. RunsOK
  BY <1>1 DEF RunsOK
<1>3. BooksOK
  BY <1>1 DEF BooksOK
<1> QED BY <1>1, <1>2, <1>3 DEF BacktestInv, SnapshotsOK

\* A step of run r from x to y.
Steps(r, x, y) ==
    /\ r \in Runs /\ x = runs[r] /\ runs' = [runs EXCEPT ![r] = y]

LEMMA RunStep ==
    ASSUME BacktestInv, NEW r, NEW x, NEW y, Steps(r, x, y), x.at # "done",
           y = RefusedRun \/ RunOK(y), UNCHANGED <<engines, _snapshots>>
    PROVE  /\ engines' \in Wirings /\ RunsOK' /\ SnapshotsOK'
           /\ runs'[r] = y /\ \A q \in Runs \ {r} : runs'[q] = runs[q]
<1>1. runs = [q \in Runs |-> runs[q]] /\ r \in Runs /\ x = runs[r]
      /\ runs' = [runs EXCEPT ![r] = y]
  BY DEF BacktestInv, RunsOK, Steps
<1>2. runs' = [q \in Runs |-> runs'[q]]
  BY <1>1
<1>3. runs'[r] = y /\ \A q \in Runs \ {r} : runs'[q] = runs[q]
  BY <1>1
<1>4. RunsOK'
  BY <1>2, <1>3 DEF BacktestInv, RunsOK
<1>5. SnapshotsOK'
  <2>1. \A q \in DOMAIN _snapshots : q \in Runs /\ SnapshotOK(runs[q], _snapshots[q])
    BY DEF BacktestInv, SnapshotsOK
  <2>2. \A q \in DOMAIN _snapshots : q # r
    BY <1>1, <2>1 DEF SnapshotOK
  <2>3. _snapshots' = _snapshots
    OBVIOUS
  <2>4. ASSUME NEW q \in DOMAIN _snapshots
        PROVE  q \in Runs /\ SnapshotOK(runs'[q], _snapshots[q])
    BY <1>3, <2>1, <2>2
  <2> QED BY <2>3, <2>4 DEF SnapshotsOK, SnapshotOK
<1> QED BY <1>3, <1>4, <1>5 DEF BacktestInv

\* What a run is before a step of it.
LEMMA AtIs ==
    ASSUME BacktestInv, NEW r \in Runs, runs[r].at \notin {"idle", "done"}
    PROVE  RunOK(runs[r])
BY IdleIs DEF BacktestInv, RunsOK

\* Which steps book nothing: a run that starts, fails, ends its loop or begins a
\* step.
LEMMA StartStep ==
    ASSUME BacktestInv, NEW r \in Runs, run(r)
    PROVE  /\ BacktestInv' /\ UNCHANGED <<engines, portfolios>>
           /\ runs[r] = Idle
           /\ \E y : /\ Steps(r, runs[r], y)
                     /\ \/ y = RefusedRun
                        \/ \E c \in Backtests : y = NewRun(c) /\ RunOK(y)
<1>1. PICK y : /\ Steps(r, runs[r], y)
               /\ \/ y = RefusedRun
                  \/ \E c \in Backtests : y = NewRun(c) /\ c.replay_speed >= 1
  <2>1. PICK c \in Backtests :
           IF c.replay_speed < 1 THEN Set(r, RefusedRun) ELSE Set(r, NewRun(c))
    BY DEF run, RefusedRun
  <2>2. c.replay_speed \in Int
    BY BacktestAssumption
  <2>3. CASE c.replay_speed < 1
    <3>1. Set(r, RefusedRun)
      BY <2>1, <2>3
    <3> QED BY <3>1 DEF Set, Steps
  <2>4. CASE c.replay_speed >= 1
    <3>1. Set(r, NewRun(c))
      BY <2>1, <2>2, <2>4
    <3>2. Steps(r, runs[r], NewRun(c))
      BY <3>1 DEF Set, Steps
    <3> QED BY <2>4, <3>2
  <2> QED BY <2>2, <2>3, <2>4
<1>2. y = RefusedRun \/ \E c \in Backtests : y = NewRun(c) /\ RunOK(y)
  BY <1>1, NewRunIs
<1>3. runs[r].at = "idle" /\ UNCHANGED <<engines, portfolios, _snapshots>>
  BY DEF run
<1>4. runs[r] = Idle
  <2>1. runs[r] = Idle \/ runs[r] = RefusedRun \/ RunOK(runs[r])
    BY DEF BacktestInv, RunsOK
  <2> QED BY <1>3, <2>1, IdleIs DEF RunOK, RunTyped
<1>5. engines' \in Wirings /\ RunsOK' /\ SnapshotsOK'
  BY <1>1, <1>2, <1>3, RunStep
<1>6. BooksOK'
  BY <1>3 DEF BacktestInv, BooksOK
<1> QED BY <1>1, <1>2, <1>3, <1>4, <1>5, <1>6 DEF BacktestInv

\* A step of a run that books nothing, and the portfolios it leaves alone.
QuietStep(r) ==
    /\ UNCHANGED <<engines, portfolios>> /\ RunOK(runs[r])
    /\ runs[r].at \in {"step", "analyze"}
    /\ \E y : Steps(r, runs[r], y) /\ RunOK(y) /\ Quiet(runs[r], y)

LEMMA QuietIs ==
    ASSUME BacktestInv, NEW r \in Runs, RunOK(runs[r]), runs[r].at = "step",
           NEW y, Set(r, y), RunOK(y), Quiet(runs[r], y),
           UNCHANGED <<engines, portfolios, _snapshots>>
    PROVE  BacktestInv' /\ QuietStep(r)
<1>1. Steps(r, runs[r], y)
  BY DEF Steps, Set
<1>2. engines' \in Wirings /\ RunsOK' /\ SnapshotsOK'
  BY <1>1, RunStep
<1>3. BooksOK'
  BY DEF BacktestInv, BooksOK
<1> QED BY <1>1, <1>2, <1>3 DEF BacktestInv, QuietStep

LEMMA EndStep ==
    ASSUME BacktestInv, NEW r \in Runs, EndLoop(r)
    PROVE  BacktestInv' /\ QuietStep(r)
<1> DEFINE x == runs[r]
           y == [x EXCEPT !.at = "analyze", !.cancelled = x.step_no < Len(ScheduleOf(x))]
<1>1. /\ x.at = "step" /\ Set(r, y) /\ UNCHANGED <<engines, portfolios, _snapshots>>
      /\ \/ x.step_no = Len(ScheduleOf(x))
         \/ \E limit \in x.context.cancel_after_steps : x.step_no >= limit
  BY DEF EndLoop, LoopEnds, Schedule, ScheduleOf
<1>2. RunOK(x)
  BY <1>1, AtIs
<1>3. PICK w : w = y
  OBVIOUS
<1>4. RunOK(w) /\ Quiet(x, w)
  BY <1>1, <1>2, <1>3, EndedIs
<1> HIDE DEF y
<1> QED BY <1>1, <1>2, <1>3, <1>4, QuietIs

\* A strategy answers with signals of which none or the first is filled, or raises.
LEMMA StepStep ==
    ASSUME BacktestInv, NEW r \in Runs, _step(r)
    PROVE  BacktestInv' /\ QuietStep(r)
<1> DEFINE x == runs[r]
           c == x.context
           next == ScheduleOf(x)[x.step_no + 1]
           Begins(y) ==
              \E shown, f :
                /\ ShownOK(shown, next)
                /\ \/ f = Absent /\ y = [x EXCEPT !.at = "settle", !.fill = Absent, !.shown = shown]
                   \/ FillOK(f) /\ y = [x EXCEPT !.at = "book", !.fill = f, !.shown = shown,
                                                 !.fills = @ + 1,
                                                 !.total_commission = @ ++ f.commission]
           Fails(y) == y = [x EXCEPT !.at = "done", !.state = "failed"]
<1>1. /\ x.at = "step" /\ UNCHANGED <<engines, portfolios, _snapshots>>
      /\ x.step_no # Len(ScheduleOf(x))
      /\ \A limit \in x.context.cancel_after_steps : ~(x.step_no >= limit)
  BY DEF _step, LoopEnds, Schedule, ScheduleOf, _fail
<1>2. RunOK(x)
  BY <1>1, AtIs
<1>3. /\ next \in 1..Len(c.candles) /\ Len(c.candles) \in Nat /\ c \in Backtests
  <2>1. x.step_no < Len(ScheduleOf(x))
    <3>1. x.step_no <= Len(ScheduleOf(x))
      BY <1>2 DEF RunOK, ProgressOK
    <3>2. x.step_no \in Nat /\ Len(ScheduleOf(x)) \in Nat
      BY <1>2, RunScheduleIs
    <3> QED BY <1>1, <3>1, <3>2
  <2>2. c \in Backtests
    BY <1>2 DEF RunOK, RunTyped
  <2> QED BY <1>2, <2>1, <2>2, RunScheduleIs
<1>4. /\ Candle(r) = next /\ Close(r) = c.candles[next]
  BY DEF Candle, Close, Schedule, ScheduleOf
<1>5. Close(r) \in Rats
  <2>1. c.candles \in Seq(Range(c.candles)) /\ \A i \in DOMAIN c.candles : IsRat(c.candles[i])
    BY <1>3, BacktestAssumption
  <2>2. next \in DOMAIN c.candles
    BY <1>3, <2>1
  <2> QED BY <1>4, <2>1, <2>2, IsRatIs
<1>6. ShownOK({}, next) /\ ShownOK(recent_candles(next, Len(c.candles)), next)
  BY <1>3, RecentCandles DEF ShownOK
<1>7. PICK y : Set(r, y) /\ (Fails(y) \/ Begins(y))
  <2>1. CASE _fail(r)
    BY <2>1 DEF _fail
  <2>2. CASE ~c.strategy /\ ~_fail(r)
    <3>1. Set(r, [x EXCEPT !.at = "settle", !.fill = Absent, !.shown = {}])
      BY <2>2 DEF _step
    <3>2. Begins([x EXCEPT !.at = "settle", !.fill = Absent, !.shown = {}])
      BY <1>6
    <3> HIDE DEF Begins, Fails
    <3> QED BY <3>1, <3>2
  <2>3. CASE c.strategy /\ ~_fail(r)
    <3>1. PICK signals \in Decisions :
            LET fillable == Fillable(signals)
                shown == recent_candles(Candle(r), Len(c.candles))
                first == signals[Min(fillable)]
            IN  IF fillable = {} THEN
                   Set(r, [x EXCEPT !.at = "settle", !.fill = Absent, !.shown = shown])
                ELSE /\ ~(first.quantity \preceq Zero)
                     /\ Set(r, [x EXCEPT !.at = "book", !.fill = simulate(first, Close(r), c),
                                         !.shown = shown, !.fills = @ + 1,
                                         !.total_commission =
                                            @ ++ simulate(first, Close(r), c).commission])
      BY <2>3 DEF _step
    <3> DEFINE shown == recent_candles(Candle(r), Len(c.candles))
               first == signals[Min(Fillable(signals))]
               f == simulate(first, Close(r), c)
    <3>2. ShownOK(shown, next)
      BY <1>4, <1>6
    <3>3. CASE Fillable(signals) = {}
      <4>1. Set(r, [x EXCEPT !.at = "settle", !.fill = Absent, !.shown = shown])
        BY <3>1, <3>3
      <4>2. Begins([x EXCEPT !.at = "settle", !.fill = Absent, !.shown = shown])
        BY <3>2
      <4> HIDE DEF Begins, Fails
      <4> QED BY <4>1, <4>2
    <3>4. CASE Fillable(signals) # {}
      <4> DEFINE y == [x EXCEPT !.at = "book", !.fill = f, !.shown = shown, !.fills = @ + 1,
                                !.total_commission = @ ++ f.commission]
      <4>1. ~(first.quantity \preceq Zero) /\ Set(r, y)
        BY <3>1, <3>4
      <4>2. /\ first.direction \in {"buy", "sell"} /\ first.quantity \in Rats
            /\ first.limit = Absent \/ first.limit \in Rats
        BY <3>4, FirstIs
      <4> HIDE DEF first
      <4>3. FillOK(f)
        BY <1>3, <1>5, <4>1, <4>2, SimulatedIs
      <4> HIDE DEF f, shown
      <4>4. Begins(y)
        BY <3>2, <4>3
      <4> HIDE DEF Begins, Fails, y
      <4> QED BY <4>1, <4>4
    <3> QED BY <3>3, <3>4
  <2> QED BY <2>1, <2>2, <2>3
<1>8. RunOK(y) /\ Quiet(x, y)
  <2>1. CASE Fails(y)
    BY <1>1, <1>2, <2>1, FailedIs
  <2>2. CASE Begins(y)
    BY <1>1, <1>2, <2>2, BegunIs
  <2> QED BY <1>7, <2>1, <2>2
<1> HIDE DEF Begins, Fails
<1> QED BY <1>1, <1>2, <1>7, <1>8, QuietIs

\* The run is over: its analysis is registered.
LEMMA AnalyzeStep ==
    ASSUME BacktestInv, NEW r \in Runs, _analyze(r)
    PROVE  BacktestInv' /\ QuietStep(r)
<1> DEFINE x == runs[r]
           performance == IF "performance" \in engines THEN _compute(PerformanceContext(x))
                          ELSE x.context.performance_result
           state == IF x.cancelled THEN "cancelled" ELSE "completed"
           snapshot == BacktestSnapshot(x, state, performance)
           y == [x EXCEPT !.at = "done", !.state = state]
<1>1. /\ x.at = "analyze" /\ UNCHANGED <<engines, portfolios>> /\ Set(r, y)
      /\ _snapshots' = register(r, snapshot)
  BY DEF _analyze
<1>2. RunOK(x)
  BY <1>1, AtIs
<1>3. /\ RunOK(y) /\ Quiet(x, y) /\ y.at = "done" /\ y.state = state
      /\ PerformanceContext(y) = PerformanceContext(x)
      /\ BacktestSummary(y) = BacktestSummary(x)
  <2>1. PICK w : w = y /\ Analyzed(x, w)
    BY DEF Analyzed
  <2>2. /\ RunOK(w) /\ Quiet(x, w) /\ w.at = "done"
        /\ w.state = (IF x.cancelled THEN "cancelled" ELSE "completed")
        /\ PerformanceContext(w) = PerformanceContext(x)
        /\ BacktestSummary(w) = BacktestSummary(x)
    BY <1>1, <1>2, <2>1, AnalyzedIs
  <2> QED BY <2>1, <2>2
<1>4. SnapshotOK(y, snapshot)
  <2>1. y.trades = x.trades /\ y.context = x.context
    BY <1>3 DEF Quiet, SameHistory
  <2>2. snapshot = BacktestSnapshot(y, y.state, performance)
    BY <1>3, <2>1, Zenon DEF BacktestSnapshot
  <2>3. performance = IF "performance" \in engines THEN _compute(PerformanceContext(y))
                      ELSE y.context.performance_result
    BY <1>3, <2>1
  <2>4. y.state \in {"completed", "cancelled"}
    BY <1>3
  <2> HIDE DEF y, performance, snapshot, state
  <2> QED BY <1>3, <2>2, <2>3, <2>4 DEF SnapshotOK
<1> HIDE DEF y, snapshot, performance, state
<1>5. Steps(r, x, y)
  BY <1>1 DEF Steps, Set
<1>6. /\ runs = [q \in Runs |-> runs[q]] /\ runs' = [runs EXCEPT ![r] = y]
  BY <1>5 DEF BacktestInv, RunsOK, Steps
<1>7. runs'[r] = y /\ \A q \in Runs \ {r} : runs'[q] = runs[q]
  BY <1>6
<1>8. RunsOK'
  <2>1. runs' = [q \in Runs |-> runs'[q]]
    BY <1>6
  <2> QED BY <1>3, <1>7, <2>1 DEF BacktestInv, RunsOK
<1>9. SnapshotsOK'
  <2>1. /\ DOMAIN _snapshots' = DOMAIN _snapshots \union {r}
        /\ _snapshots'[r] = snapshot
        /\ \A q \in DOMAIN _snapshots : q # r => _snapshots'[q] = _snapshots[q]
    BY <1>1 DEF register
  <2>2. \A q \in DOMAIN _snapshots : q \in Runs /\ SnapshotOK(runs[q], _snapshots[q])
    BY DEF BacktestInv, SnapshotsOK
  <2>3. ASSUME NEW q \in DOMAIN _snapshots'
        PROVE  q \in Runs /\ SnapshotOK(runs'[q], _snapshots'[q])
    BY <1>4, <1>7, <2>1, <2>2
  <2> QED BY <1>1, <2>3 DEF SnapshotsOK, SnapshotOK
<1>10. BooksOK'
  BY <1>1 DEF BacktestInv, BooksOK
<1> QED BY <1>1, <1>2, <1>3, <1>5, <1>8, <1>9, <1>10 DEF BacktestInv, QuietStep

LEMMA UnregisteredStep ==
    ASSUME BacktestInv, NEW r \in Runs, unregister(r)
    PROVE  BacktestInv' /\ UNCHANGED <<engines, portfolios, runs>>
<1>1. /\ UNCHANGED <<engines, portfolios, runs>>
      /\ _snapshots' = Restrict(_snapshots, DOMAIN _snapshots \ {r})
  BY DEF unregister
<1>2. \A q \in DOMAIN _snapshots' : q \in DOMAIN _snapshots /\ _snapshots'[q] = _snapshots[q]
  BY <1>1 DEF Restrict
<1>3. \A q \in DOMAIN _snapshots : q \in Runs /\ SnapshotOK(runs[q], _snapshots[q])
  BY DEF BacktestInv, SnapshotsOK
<1>4. runs' = runs
  BY <1>1
<1>5. SnapshotsOK'
  BY <1>1, <1>2, <1>3, <1>4 DEF SnapshotsOK, SnapshotOK
<1>6. RunsOK' /\ BooksOK'
  BY <1>1 DEF BacktestInv, RunsOK, BooksOK
<1> QED BY <1>1, <1>5, <1>6 DEF BacktestInv

\* The portfolio of a run: a new one, or the registered one.
LEMMA LoadedIs ==
    ASSUME BooksOK, NEW pid \in PortfolioIds
    PROVE  /\ BookOK(PF!load(pid)) /\ PF!load(pid).state # "closed"
           /\ PF!load(pid) = IF portfolios[pid] = PF!NoPortfolio THEN PF!NewPortfolio
                             ELSE portfolios[pid]
BY NewBookOK DEF BooksOK, PF!load

\* The fill of run r is booked, refused, or there is no portfolio engine.
Booked(r) ==
    LET x == runs[r]
        pid == x.context.portfolio_id
        old == PF!load(pid)
    IN  \E y : /\ Steps(r, x, y) /\ RunOK(y) /\ SameHistory(x, y)
               /\ y.at = "settle" /\ y.fill = x.fill /\ FillOK(x.fill)
               /\ \/ "portfolio" \notin engines /\ UNCHANGED portfolios
                  \/ /\ Refused(Held(old), x.fill) /\ UNCHANGED portfolios
                     /\ y.portfolio_result = x.portfolio_result
                  \/ \E new : /\ ~Refused(Held(old), x.fill)
                              /\ portfolios' = [portfolios EXCEPT ![pid] = new]
                              /\ new # PF!NoPortfolio
                              /\ new.cash = CashAfter(old.cash, x.fill)
                              /\ Held(new) = QuantityAfter(Held(old), x.fill)
                              /\ y.portfolio_result # Absent
                              /\ y.portfolio_result.total_value =
                                    new.cash ++ (Held(new) \otimes x.fill.price)

LEMMA BookStep ==
    ASSUME BacktestInv, NEW r \in Runs, _book(r)
    PROVE  /\ BacktestInv' /\ UNCHANGED engines /\ Booked(r)
           /\ RunOK(runs[r]) /\ runs[r].at = "book"
<1> DEFINE x == runs[r]
           pid == x.context.portfolio_id
           c == PortfolioContext(r, x.fill)
           old == PF!load(pid)
           new == PF!updated(old, c)
           v == PF!valuation(new, c.prices)
<1>1. x.at = "book" /\ UNCHANGED <<engines, _snapshots>>
  BY DEF _book
<1>2. RunOK(x)
  BY <1>1, AtIs
<1>3. FillOK(x.fill) /\ pid \in PortfolioIds
  BY <1>1, <1>2, BacktestAssumption DEF RunOK, RunTyped
<1>4. BookOK(old) /\ old.state # "closed" /\ BooksOK
  BY <1>3, LoadedIs DEF BacktestInv
<1>5. /\ PF!Succeeds(pid, c) <=> ~Refused(Held(old), x.fill)
      /\ PF!Succeeds(pid, c) =>
            /\ BookOK(new) /\ new.state = "active"
            /\ new.cash = CashAfter(old.cash, x.fill)
            /\ Held(new) = QuantityAfter(Held(old), x.fill)
            /\ v.total_value = new.cash ++ (Held(new) \otimes x.fill.price)
            /\ v.total_value \in Rats /\ v # Absent
  BY <1>3, <1>4, BookingIs
<1>6. ASSUME NEW y, NEW w, NEW p, BookedAs(x, w, p, y), Set(r, y),
             w = x.portfolio_result \/ w.total_value \in Rats
      PROVE  /\ Steps(r, x, y) /\ RunOK(y) /\ SameHistory(x, y) /\ y.portfolio_result = w
             /\ y.at = "settle" /\ y.fill = x.fill
             /\ RunsOK' /\ SnapshotsOK'
  <2>1. RunOK(y) /\ SameHistory(x, y) /\ y.portfolio_result = w /\ y.at = "settle"
        /\ y.fill = x.fill
    BY <1>1, <1>2, <1>6, BookedIs
  <2>2. Steps(r, x, y)
    BY <1>6 DEF Steps, Set
  <2>3. x.at # "done"
    BY <1>1
  <2> HIDE DEF x
  <2>4. RunsOK' /\ SnapshotsOK'
    BY <1>1, <2>1, <2>2, <2>3, RunStep
  <2> QED BY <2>1, <2>2, <2>4
<1>7. ASSUME NEW y, y = [x EXCEPT !.at = "settle"]
      PROVE  BookedAs(x, x.portfolio_result, x.previous, y)
  BY <1>2, <1>7 DEF RunOK, RunTyped, RunFields, BookedAs
<1>8. CASE "portfolio" \notin engines
  <2>1. PICK y : y = [x EXCEPT !.at = "settle"] /\ Set(r, y) /\ UNCHANGED portfolios
    BY <1>8 DEF _book
  <2>2. BookedAs(x, x.portfolio_result, x.previous, y)
    BY <1>7, <2>1
  <2>3. /\ Steps(r, x, y) /\ RunOK(y) /\ SameHistory(x, y)
        /\ y.at = "settle" /\ y.fill = x.fill /\ RunsOK' /\ SnapshotsOK'
    BY <1>6, <2>1, <2>2
  <2>4. BooksOK'
    BY <1>4, <2>1 DEF BooksOK
  <2>5. Booked(r)
    BY <1>3, <1>8, <2>1, <2>3 DEF Booked
  <2> QED BY <1>1, <1>2, <2>3, <2>4, <2>5 DEF BacktestInv
<1>9. CASE "portfolio" \in engines /\ ~PF!Succeeds(pid, c)
  <2>1. PICK y : y = [x EXCEPT !.at = "settle"] /\ Set(r, y) /\ UNCHANGED portfolios
    BY <1>9 DEF _book, PF!Update, PF!UpdateFails, PF!portfolio_vars
  <2>2. BookedAs(x, x.portfolio_result, x.previous, y)
    BY <1>7, <2>1
  <2>3. /\ Steps(r, x, y) /\ RunOK(y) /\ SameHistory(x, y)
        /\ y.portfolio_result = x.portfolio_result
        /\ y.at = "settle" /\ y.fill = x.fill /\ RunsOK' /\ SnapshotsOK'
    BY <1>6, <2>1, <2>2
  <2>4. BooksOK'
    BY <1>4, <2>1 DEF BooksOK
  <2>5. Booked(r)
    BY <1>3, <1>5, <1>9, <2>1, <2>3 DEF Booked
  <2> QED BY <1>1, <1>2, <2>3, <2>4, <2>5 DEF BacktestInv
<1>10. CASE "portfolio" \in engines /\ PF!Succeeds(pid, c)
  <2>1. PICK y, p : /\ BookedAs(x, v, p, y) /\ Set(r, y)
                    /\ portfolios' = [portfolios EXCEPT ![pid] = new]
    BY <1>10 DEF _book, PF!Update, PF!UpdateFails, BookedAs
  <2> HIDE DEF v
  <2>2. v.total_value \in Rats
    BY <1>5, <1>10
  <2>3. /\ Steps(r, x, y) /\ RunOK(y) /\ SameHistory(x, y)
        /\ y.portfolio_result = v
        /\ y.at = "settle" /\ y.fill = x.fill /\ RunsOK' /\ SnapshotsOK'
    BY <1>6, <2>1, <2>2
  <2>4. new # PF!NoPortfolio
    BY <1>5, <1>10 DEF PF!NoPortfolio
  <2> HIDE DEF new, old, c
  <2>5. BooksOK'
    <3>1. BookOK(new) /\ new.state = "active"
      BY <1>5, <1>10
    <3>2. portfolios = [q \in PortfolioIds |-> portfolios[q]]
      BY <1>4 DEF BooksOK
    <3>3. /\ portfolios' = [q \in PortfolioIds |-> portfolios'[q]]
          /\ portfolios'[pid] = new
          /\ \A q \in PortfolioIds : q # pid => portfolios'[q] = portfolios[q]
      BY <1>3, <2>1, <3>2
    <3> QED BY <1>4, <3>1, <3>3 DEF BooksOK
  <2>6. Booked(r)
    <3>1. /\ ~Refused(Held(old), x.fill)
          /\ new.cash = CashAfter(old.cash, x.fill)
          /\ Held(new) = QuantityAfter(Held(old), x.fill)
          /\ v.total_value = new.cash ++ (Held(new) \otimes x.fill.price) /\ v # Absent
      BY <1>5, <1>10
    <3> QED BY <1>3, <2>1, <2>3, <2>4, <3>1 DEF Booked, old
  <2> QED BY <1>1, <1>2, <2>3, <2>5, <2>6 DEF BacktestInv
<1> QED BY <1>8, <1>9, <1>10

\* The end of a step of run r.
SettledRun(r) ==
    LET x == runs[r] IN
    \E y, s : /\ Steps(r, x, y) /\ RunOK(y) /\ y.context = x.context /\ y.at = "step"
              /\ y.equity_curve[Len(y.equity_curve)] = _equity(x.portfolio_result)
              /\ FollowedBy(x.steps, s, y.steps) /\ s.fill = x.fill
              /\ y.portfolio_result = x.portfolio_result

LEMMA SettleStep ==
    ASSUME BacktestInv, NEW r \in Runs, Settle(r)
    PROVE  /\ BacktestInv' /\ UNCHANGED <<engines, portfolios>> /\ SettledRun(r)
           /\ RunOK(runs[r]) /\ runs[r].at = "settle"
<1> DEFINE x == runs[r]
<1>1. x.at = "settle" /\ UNCHANGED <<engines, portfolios, _snapshots>>
  BY DEF Settle
<1>2. RunOK(x)
  BY <1>1, AtIs
<1>3. PICK p, t, y :
        /\ t = x.trade_result \/ (x.fill # Absent /\ t \in Trades)
        /\ Set(r, y)
        /\ RecordedAs(x, p, t, y)
  BY DEF Settle, Positions, TradeResults, Candle, Schedule, ScheduleOf, RecordedAs, StepOf
<1>5. /\ RunOK(y)
      /\ y.equity_curve[Len(y.equity_curve)] = _equity(x.portfolio_result)
      /\ FollowedBy(x.steps, StepOf(x), y.steps) /\ StepOf(x).fill = x.fill
      /\ y.portfolio_result = x.portfolio_result
      /\ y.context = x.context /\ y.at = "step"
  BY <1>1, <1>2, <1>3, SettledIs
<1>6. Steps(r, x, y)
  BY <1>3 DEF Steps, Set
<1>7. SettledRun(r)
  BY <1>5, <1>6 DEF SettledRun
<1>8. engines' \in Wirings /\ RunsOK' /\ SnapshotsOK'
  BY <1>1, <1>5, <1>6, RunStep
<1>9. BooksOK'
  BY <1>1 DEF BacktestInv, BooksOK
<1> QED BY <1>1, <1>2, <1>7, <1>8, <1>9 DEF BacktestInv

LEMMA BacktestStep ==
    ASSUME BacktestInv, [BacktestNext]_backtest
    PROVE  BacktestInv'
<1>1. CASE UNCHANGED backtest
  BY <1>1 DEF backtest, BacktestInv, RunsOK, BooksOK, SnapshotsOK, SnapshotOK
<1>2. CASE BacktestNext
  <2>1. PICK r \in Runs : \/ run(r) \/ EndLoop(r) \/ _step(r) \/ _book(r)
                          \/ Settle(r) \/ _analyze(r) \/ unregister(r)
    BY <1>2 DEF BacktestNext
  <2> QED BY <2>1, StartStep, EndStep, StepStep, BookStep, SettleStep, AnalyzeStep,
             UnregisteredStep
<1> QED BY <1>1, <1>2

-----------------------------------------------------------------------------
(* The analysis.                                                             *)

\* The trades an analysis counts: the run's own, or the one it was seeded with.
LEMMA CountedTrades ==
    ASSUME NEW x, TradesOK(x), NEW c, c = PerformanceContext(x)
    PROVE  /\ completed_trades(c) \in Seq(Trades)
           /\ x.trades # <<>> \/ x.context.trade_result = Absent => completed_trades(c) = x.trades
<1>1. c.trades = x.trades /\ c.trade_result = x.trade_result
  BY DEF PerformanceContext
<1>2. CASE x.trades # <<>>
  BY <1>1, <1>2 DEF completed_trades, TradesOK
<1>3. CASE x.trades = <<>> /\ x.trade_result = Absent
  <2>1. completed_trades(c) = <<>>
    BY <1>1, <1>3 DEF completed_trades
  <2> QED BY <1>3, <2>1
<1>4. CASE x.trades = <<>> /\ x.trade_result # Absent
  <2>1. x.trade_result \in Trades /\ x.context.trade_result # Absent
    BY <1>4 DEF TradesOK
  <2>2. completed_trades(c) = <<x.trade_result>>
    BY <1>1, <1>4 DEF completed_trades
  <2> QED BY <1>4, <2>1, <2>2
<1> QED BY <1>2, <1>3, <1>4

LEMMA MetricsAre ==
    ASSUME BacktestInv
    PROVE  MetricsAgree
<1> SUFFICES ASSUME NEW r \in Done, "performance" \in engines
             PROVE  LET x == runs[r]  p == _snapshots[r].performance
                    IN
                    /\ x.trades # <<>> \/ x.context.trade_result = Absent =>
                         _snapshots[r].metrics.average_trade = p.statistics.expectancy
                    /\ p.statistics.expectancy =
                         (p.statistics.win_rate \otimes p.statistics.average_win) ++
                         (p.statistics.loss_rate \otimes p.statistics.average_loss)
                    /\ (\A i \in DOMAIN x.equity_curve : Zero \prec x.equity_curve[i]) =>
                       /\ p.returns.compound_return = _cumulative(x.equity_curve)
                       /\ p.risk.max_drawdown = _max_drawdown_from_returns(x.returns)
  BY DEF MetricsAgree, ExpectancyDecomposes
<1> DEFINE x == runs[r]
           c == PerformanceContext(x)
           counted == completed_trades(c)
           pnls == [i \in DOMAIN counted |-> counted[i].realized_pnl]
<1>1. PICK p : /\ p = _compute(c)
               /\ _snapshots[r] = BacktestSnapshot(x, x.state, p) /\ RunOK(x)
  BY DEF BacktestInv, SnapshotsOK, SnapshotOK, Done
<1>2. /\ _snapshots[r].performance = p
      /\ _snapshots[r].metrics.average_trade =
            _mean([i \in DOMAIN x.trades |-> x.trades[i].realized_pnl])
  <2>1. p # Absent
    BY <1>1 DEF _compute, Absent
  <2> QED BY <1>1, <2>1 DEF BacktestSnapshot, BacktestMetrics
<1>3. c.returns = x.returns /\ c.equity_curve = x.equity_curve
  BY DEF PerformanceContext
<1>4. /\ counted \in Seq(Trades)
      /\ x.trades # <<>> \/ x.context.trade_result = Absent => counted = x.trades
  BY <1>1, CountedTrades DEF RunOK
<1>5. pnls \in Seq(Rats) /\ Len(pnls) = Len(counted) /\ (counted = <<>> <=> pnls = <<>>)
  <2>1. \A t \in Trades : t.realized_pnl \in Rats
    BY BacktestAssumption, IsRatIs
  <2> HIDE DEF counted
  <2> QED BY <1>4, <2>1
<1> HIDE DEF c, x
<1>6. /\ p.statistics.expectancy = _mean(pnls)
      /\ p.statistics.win_rate = Rate(Len(Gains(pnls)), counted)
      /\ p.statistics.average_win = _mean(Gains(pnls))
      /\ p.statistics.loss_rate = Rate(Len(Losses(pnls)), counted)
      /\ p.statistics.average_loss = _mean(Losses(pnls))
  BY <1>1 DEF _compute, StatisticsMetrics
<1>9. x.trades # <<>> \/ x.context.trade_result = Absent =>
         _snapshots[r].metrics.average_trade = _mean(pnls)
  <2> HIDE DEF counted
  <2> QED BY <1>2, <1>4
<1> HIDE DEF pnls, counted
<1>7. p.statistics.expectancy =
        (p.statistics.win_rate \otimes p.statistics.average_win) ++
        (p.statistics.loss_rate \otimes p.statistics.average_loss)
  BY <1>5, <1>6, MeanDecomposes
<1>8. ASSUME \A i \in DOMAIN x.equity_curve : Zero \prec x.equity_curve[i]
      PROVE  /\ p.returns.compound_return = _cumulative(x.equity_curve)
             /\ p.risk.max_drawdown = _max_drawdown_from_returns(x.returns)
  <2>1. CurveOK(x.equity_curve, x.returns)
    BY <1>1 DEF RunOK, RunHistoryOK
  <2>2. IsCurve(x.equity_curve, x.returns)
    BY <1>8, <2>1 DEF CurveOK, IsCurve
  <2>3. p.returns.compound_return = _compound(x.returns)
    BY <1>1, <1>3 DEF _compute, ReturnsMetrics
  <2>4. p.risk.max_drawdown = (IF _drawdowns(x.equity_curve) = <<>> THEN Zero
                              ELSE Greatest(_drawdowns(x.equity_curve)))
    BY <1>1, <1>3 DEF _compute, RiskMetrics
  <2> QED BY <2>2, <2>3, <2>4, CompoundedGrowth, SameDrawdown
<1> QED BY <1>2, <1>6, <1>7, <1>8, <1>9 DEF x

-----------------------------------------------------------------------------
(* The replay of the fills.                                                  *)

Accounts == [cash : Rats, quantity : Rats, worth : Rats]

\* What a run starts with: the initial cash, worth what it was seeded with.
Opening(seed) == [cash |-> InitialCash, quantity |-> Zero, worth |-> _equity(seed)]
SeedOK(seed) == seed = Absent \/ seed.total_value \in Rats

\* What a fill makes of an account.
After(before, f) ==
    IF f = Absent \/ Refused(before.quantity, f) THEN before
    ELSE [cash |-> CashAfter(before.cash, f), quantity |-> QuantityAfter(before.quantity, f),
          worth |-> CashAfter(before.cash, f) ++
                       (QuantityAfter(before.quantity, f) \otimes f.price)]

LEMMA AfterIs ==
    ASSUME NEW a \in Accounts, NEW f, f = Absent \/ FillOK(f)
    PROVE  After(a, f) \in Accounts
<1>1. CASE f = Absent \/ Refused(a.quantity, f)
  BY <1>1 DEF After
<1>2. CASE ~(f = Absent \/ Refused(a.quantity, f))
  <2>1. /\ f.quantity \in Rats /\ f.price \in Rats /\ BookedAt(f) \in Rats
        /\ a.cash \in Rats /\ a.quantity \in Rats
    BY <1>2 DEF FillOK, BookedAt, Accounts
  <2>2. f.quantity \otimes BookedAt(f) \in Rats
    BY <2>1, Closed
  <2>3. CashAfter(a.cash, f) \in Rats /\ QuantityAfter(a.quantity, f) \in Rats
    BY <2>1, <2>2, Closed DEF CashAfter, QuantityAfter
  <2>4. QuantityAfter(a.quantity, f) \otimes f.price \in Rats
    BY <2>1, <2>3, Closed
  <2>5. CashAfter(a.cash, f) ++ (QuantityAfter(a.quantity, f) \otimes f.price) \in Rats
    BY <2>3, <2>4, Closed
  <2> QED BY <1>2, <2>3, <2>5 DEF After, Accounts
<1> QED BY <1>1, <1>2

\* Each account of w is what the next fill makes of the one before.
Chained(w, steps, n) == \A i \in 1..n : w[i] = After(w[i - 1], steps[i].fill)

\* The accounts after the fills, one after the other.
Follows(w, seed, steps) ==
    /\ w \in [0..Len(steps) -> Accounts] /\ w[0] = Opening(seed)
    /\ Chained(w, steps, Len(steps))

LEMMA FollowsOne ==
    ASSUME NEW steps, StepsOK(steps), NEW n \in Nat, n <= Len(steps),
           NEW w, NEW u, w[0] = u[0], Chained(w, steps, n), Chained(u, steps, n)
    PROVE  w[n] = u[n]
<1> DEFINE K == {k \in 0..n : w[k] = u[k]}
<1>1. 0 \in K
  OBVIOUS
<1>2. ASSUME NEW k \in 1..n, k - 1 \in K PROVE k \in K
  <2>1. w[k] = After(w[k - 1], steps[k].fill) /\ u[k] = After(u[k - 1], steps[k].fill)
    BY DEF Chained
  <2>2. w[k - 1] = u[k - 1] /\ k \in 0..n
    BY <1>2
  <2> QED BY <2>1, <2>2
<1>3. \A k \in 0..n : k \in K
  <2> HIDE DEF K
  <2> QED BY <1>1, <1>2, InductionTo
<1> QED BY <1>3

LEMMA ReplayIs ==
    ASSUME NEW seed, SeedOK(seed), NEW steps, StepsOK(steps)
    PROVE  \E w : Follows(w, seed, steps) /\ Replay(seed, steps) = w[Len(steps)]
<1>1. PICK n \in Nat : n = Len(steps) /\ DOMAIN steps = 1..n
  BY SeqIs DEF StepsOK
<1>2. Opening(seed) \in Accounts
  BY CashIsRat, ZeroOver DEF Opening, SeedOK, _equity, Accounts
<1> DEFINE start == Opening(seed)
<1> DEFINE h == [i \in 1..n |-> [a \in Accounts |-> After(a, steps[i].fill)]]
           Walks(w) == w = [i \in 0..n |-> IF i = 0 THEN start
                                           ELSE After(w[i - 1], steps[i].fill)]
<1>3. h \in [1..n -> [Accounts -> Accounts]]
  <2>1. \A i \in 1..n : \A a \in Accounts : After(a, steps[i].fill) \in Accounts
    BY <1>1, AfterIs DEF StepsOK, StepOK
  <2> QED BY <2>1
<1>4. PICK v : Walked(v, n, Accounts, start, h)
  <2> HIDE DEF h
  <2>1. Walkable(n, Accounts, start, h)
    BY <1>2, <1>3 DEF Walkable
  <2> QED BY <2>1, WalkExists
<1>5. /\ v \in [0..n -> Accounts] /\ v[0] = start
      /\ \A i \in 1..n : v[i] = After(v[i - 1], steps[i].fill)
  <2>1. v \in [0..n -> Accounts] /\ v[0] = start /\ \A i \in 1..n : v[i] = h[i][v[i - 1]]
    BY <1>4 DEF Walked
  <2>2. \A i \in 1..n : v[i - 1] \in Accounts
    BY <2>1
  <2> QED BY <2>1, <2>2
<1>6. Walks(v)
  <2>1. \A i \in 0..n : v[i] = IF i = 0 THEN start ELSE After(v[i - 1], steps[i].fill)
    BY <1>5
  <2> QED BY <1>5, <2>1
<1>7. Replay(seed, steps) = (CHOOSE w : Walks(w))[n]
  BY <1>1 DEF Replay, After, Opening, Refused, CashAfter, QuantityAfter, BookedAt
<1>8. Walks(CHOOSE w : Walks(w))
  <2> HIDE DEF Walks
  <2> QED BY <1>6
<1>9. ASSUME NEW w, Walks(w) PROVE w[n] = v[n]
  <2>1. w[0] = v[0]
    BY <1>5, <1>9
  <2>2. Chained(w, steps, n)
    BY <1>9 DEF Chained
  <2>3. Chained(v, steps, n)
    BY <1>5 DEF Chained
  <2> HIDE DEF Walks
  <2>4. n <= Len(steps)
    BY <1>1
  <2> QED BY <2>1, <2>2, <2>3, <2>4, FollowsOne
<1>10. Replay(seed, steps) = v[n]
  <2> HIDE DEF Walks
  <2> QED BY <1>7, <1>8, <1>9
<1> QED BY <1>1, <1>5, <1>10 DEF Follows, Chained

LEMMA ReplayStarts ==
    ASSUME NEW seed, SeedOK(seed)
    PROVE  Replay(seed, <<>>) = Opening(seed)
<1>1. StepsOK(<<>>) /\ Len(<<>>) = 0
  BY DEF StepsOK, IsSeq
<1>2. PICK s : s = <<>>
  OBVIOUS
<1>3. PICK w : Follows(w, seed, s) /\ Replay(seed, s) = w[Len(s)]
  BY <1>1, <1>2, ReplayIs
<1> QED BY <1>1, <1>2, <1>3 DEF Follows

LEMMA ReplayStep ==
    ASSUME NEW seed, SeedOK(seed), NEW steps, StepsOK(steps), NEW s, StepOK(s),
           NEW t, FollowedBy(steps, s, t)
    PROVE  Replay(seed, t) = After(Replay(seed, steps), s.fill)
<1>1. PICK n \in Nat : n = Len(steps)
  BY SeqIs DEF StepsOK
<1>2. /\ StepsOK(t) /\ Len(t) = n + 1 /\ t[n + 1] = s
      /\ \A i \in 1..n : t[i] = steps[i]
  <2>1. StepsOK(t) /\ Len(t) = n + 1
    BY <1>1, StepsGrow
  <2>2. t[n + 1] = s /\ \A i \in 1..n : t[i] = steps[i]
    BY <1>1, AppendIs DEF StepsOK, FollowedBy
  <2> QED BY <2>1, <2>2
<1>3. PICK w : Follows(w, seed, steps) /\ Replay(seed, steps) = w[n]
  BY <1>1, ReplayIs
<1>4. PICK u : Follows(u, seed, t) /\ Replay(seed, t) = u[n + 1]
  BY <1>2, ReplayIs
<1>5. /\ w[0] = u[0] /\ Chained(w, steps, n) /\ Chained(u, steps, n)
      /\ u[n + 1] = After(u[n], s.fill)
  <2>1. /\ w[0] = Opening(seed) /\ Chained(w, steps, n)
    BY <1>1, <1>3 DEF Follows
  <2>2. /\ u[0] = Opening(seed) /\ \A i \in 1..(n + 1) : u[i] = After(u[i - 1], t[i].fill)
    BY <1>2, <1>4 DEF Follows, Chained
  <2>3. \A i \in 1..n : i \in 1..(n + 1)
    OBVIOUS
  <2>4. n + 1 \in 1..(n + 1) /\ (n + 1) - 1 = n
    OBVIOUS
  <2>5. Chained(u, steps, n)
    BY <1>2, <2>2, <2>3 DEF Chained
  <2> QED BY <1>2, <2>1, <2>2, <2>4, <2>5
<1>6. w[n] = u[n]
  <2>1. n <= Len(steps)
    BY <1>1
  <2> QED BY <1>5, <2>1, FollowsOne
<1> QED BY <1>3, <1>4, <1>5, <1>6

-----------------------------------------------------------------------------
(* A run that has its portfolio to itself.                                   *)

Started(r) == "context" \in DOMAIN runs[r]

\* A portfolio belongs to a run.
OwnedOK ==
    \A pid \in PortfolioIds : portfolios[pid] # PF!NoPortfolio =>
        \E r \in Runs : Started(r) /\ runs[r].context.portfolio_id = pid

\* What the fills of a run so far have made of its cash.
Replayed(x) == Replay(x.context.portfolio_result, x.steps)
Account(x) == IF x.at = "settle" THEN After(Replayed(x), x.fill) ELSE Replayed(x)

\* The account a is the portfolio p and the value v it was last found to have.
AccountIs(a, p, v) == p.cash = a.cash /\ Held(p) = a.quantity /\ _equity(v) = a.worth

MirrorOK(r) ==
    LET x == runs[r] IN
    /\ AccountIs(Account(x), PF!load(x.context.portfolio_id), x.portfolio_result)
    /\ x.equity_curve[Len(x.equity_curve)] =
          IF x.steps = <<>> THEN InitialCash ELSE Replayed(x).worth

MirrorsOK ==
    "portfolio" \in engines =>
        \A r \in Runs : Started(r) /\ HasPortfolioToItself(r) => MirrorOK(r)

\* The inductive invariant behind ReportsAreTrue.
ReportInv == BacktestInv /\ OwnedOK /\ MirrorsOK

LEMMA StartedIs ==
    ASSUME BacktestInv, NEW r \in Runs
    PROVE  /\ Started(r) <=> RunOK(runs[r])
           /\ RunOK(runs[r]) => /\ runs[r].context.portfolio_id \in PortfolioIds
                                /\ StepsOK(runs[r].steps)
<1>1. RunOK(runs[r]) => /\ DOMAIN runs[r] = RunFields /\ runs[r].context \in Backtests
                        /\ StepsOK(runs[r].steps)
  BY DEF RunOK, RunTyped, RunHistoryOK
<1>2. "context" \in RunFields
  BY DEF RunFields
<1>3. runs[r] = Idle \/ runs[r] = RefusedRun \/ RunOK(runs[r])
  BY DEF BacktestInv, RunsOK
<1> QED BY <1>1, <1>2, <1>3, IdleIs, BacktestAssumption DEF Started

\* A step that keeps the context of its run leaves all contexts alone.
LEMMA ContextsStay ==
    ASSUME BacktestInv, NEW r \in Runs, RunOK(runs[r]), NEW y, Steps(r, runs[r], y),
           RunOK(y), y.context = runs[r].context
    PROVE  /\ runs'[r] = y /\ \A q \in Runs : q # r => runs'[q] = runs[q]
           /\ \A q \in Runs : /\ Started(q)' <=> Started(q)
                              /\ Started(q) => runs'[q].context = runs[q].context
                              /\ Started(q) /\ HasPortfolioToItself(q)' => HasPortfolioToItself(q)
           /\ Started(r)
<1>1. runs = [q \in Runs |-> runs[q]] /\ runs' = [runs EXCEPT ![r] = y]
  BY DEF BacktestInv, RunsOK, Steps
<1>2. runs'[r] = y /\ \A q \in Runs : q # r => runs'[q] = runs[q]
  BY <1>1
<1>3. "context" \in DOMAIN y /\ "context" \in DOMAIN runs[r]
  BY DEF RunOK, RunTyped, RunFields
<1>4. \A q \in Runs : /\ ("context" \in DOMAIN runs'[q]) <=> ("context" \in DOMAIN runs[q])
                      /\ "context" \in DOMAIN runs[q] => runs'[q].context = runs[q].context
  BY <1>2, <1>3
<1> QED BY <1>2, <1>3, <1>4 DEF Started, HasPortfolioToItself

LEMMA OwnersStay ==
    ASSUME BacktestInv, OwnedOK, NEW r \in Runs, RunOK(runs[r]), NEW y, Steps(r, runs[r], y),
           RunOK(y), y.context = runs[r].context,
           \A pid \in PortfolioIds  :
              pid # y.context.portfolio_id => portfolios'[pid] = portfolios[pid]
    PROVE  OwnedOK'
<1>1. /\ \A q \in Runs : /\ Started(q)' <=> Started(q)
                         /\ Started(q) => runs'[q].context = runs[q].context
      /\ Started(r)
  BY ContextsStay
<1>2. runs'[r].context = y.context
  BY <1>1
<1>3. ASSUME NEW pid \in PortfolioIds, portfolios'[pid] # PF!NoPortfolio
      PROVE  \E q \in Runs : Started(q)' /\ runs'[q].context.portfolio_id = pid
  <2>1. CASE pid = y.context.portfolio_id
    BY <1>1, <1>2, <2>1
  <2>2. CASE pid # y.context.portfolio_id
    <3>1. PICK q \in Runs : Started(q) /\ runs[q].context.portfolio_id = pid
      BY <1>3, <2>2 DEF OwnedOK
    <3> QED BY <1>1, <3>1
  <2> QED BY <2>1, <2>2
<1>4. PF!NoPortfolio = PF!NoPortfolio'
  BY DEF PF!NoPortfolio
<1> QED BY <1>3, <1>4 DEF OwnedOK

\* The other runs do not see the step, and r keeps its account.
LEMMA MirrorsStay ==
    ASSUME ReportInv, NEW r \in Runs, RunOK(runs[r]), NEW y, Steps(r, runs[r], y),
           RunOK(y), y.context = runs[r].context, UNCHANGED engines,
           \A pid \in PortfolioIds  :
              pid # y.context.portfolio_id => portfolios'[pid] = portfolios[pid],
           "portfolio" \in engines /\ MirrorOK(r) => MirrorOK(r)'
    PROVE  OwnedOK' /\ MirrorsOK'
<1>1. BacktestInv /\ OwnedOK /\ MirrorsOK
  BY DEF ReportInv
<1>2. OwnedOK'
  BY <1>1, OwnersStay
<1>3. /\ runs'[r] = y /\ \A q \in Runs : q # r => runs'[q] = runs[q]
      /\ \A q \in Runs : /\ Started(q)' <=> Started(q)
                         /\ Started(q) => runs'[q].context = runs[q].context
                         /\ Started(q) /\ HasPortfolioToItself(q)' => HasPortfolioToItself(q)
      /\ Started(r)
  BY <1>1, ContextsStay
<1>4. ASSUME "portfolio" \in engines, NEW q \in Runs, Started(q)', HasPortfolioToItself(q)'
      PROVE  MirrorOK(q)'
  <2>1. Started(q) /\ HasPortfolioToItself(q) /\ MirrorOK(q)
    BY <1>1, <1>3, <1>4 DEF MirrorsOK
  <2>2. CASE q = r
    BY <1>4, <2>1, <2>2
  <2>3. CASE q # r
    <3>1. runs'[q] = runs[q]
      BY <1>3, <2>3
    <3>2. runs[q].context.portfolio_id # y.context.portfolio_id
      BY <1>3, <2>1, <2>3 DEF HasPortfolioToItself, Started
    <3>3. runs[q].context.portfolio_id \in PortfolioIds
      BY <1>1, <2>1, StartedIs
    <3>4. PF!load(runs[q].context.portfolio_id)' = PF!load(runs[q].context.portfolio_id)
      BY <3>1, <3>2, <3>3 DEF PF!load, PF!NoPortfolio, PF!NewPortfolio
    <3> QED BY <2>1, <3>1, <3>4 DEF MirrorOK
  <2> QED BY <2>2, <2>3
<1> QED BY <1>2, <1>4 DEF MirrorsOK

\* What is known of a run before and after its step.
LEMMA QuietMirrors ==
    ASSUME ReportInv, NEW r \in Runs, QuietStep(r)
    PROVE  OwnedOK' /\ MirrorsOK'
<1>1. PICK y : Steps(r, runs[r], y) /\ RunOK(y) /\ Quiet(runs[r], y)
  BY DEF QuietStep
<1>2. /\ y.context = runs[r].context /\ y.steps = runs[r].steps
      /\ y.equity_curve = runs[r].equity_curve
      /\ y.portfolio_result = runs[r].portfolio_result
      /\ y.at = "settle" => y.fill = Absent
  BY <1>1 DEF Quiet, SameHistory
<1>3. UNCHANGED <<engines, portfolios>> /\ RunOK(runs[r]) /\ runs[r].at # "settle"
  BY DEF QuietStep
<1>4. runs'[r] = y
  BY <1>1, <1>3, ContextsStay, <1>2 DEF ReportInv
<1>5. Account(y) = Account(runs[r]) /\ Replayed(y) = Replayed(runs[r])
  BY <1>2, <1>3 DEF Account, Replayed, After
<1>6. MirrorOK(r) => MirrorOK(r)'
  <2>1. PF!load(y.context.portfolio_id)' = PF!load(y.context.portfolio_id)
    BY <1>3, <1>2, <1>4 DEF PF!load, PF!NoPortfolio, PF!NewPortfolio
  <2> QED BY <1>2, <1>4, <1>5, <2>1 DEF MirrorOK
<1> QED BY <1>1, <1>2, <1>3, <1>6, MirrorsStay

LEMMA BookedMirrors ==
    ASSUME ReportInv, NEW r \in Runs, Booked(r), UNCHANGED engines,
           RunOK(runs[r]), runs[r].at = "book"
    PROVE  OwnedOK' /\ MirrorsOK'
<1> DEFINE x == runs[r]
           pid == x.context.portfolio_id
           old == PF!load(pid)
<1>1. PICK y : /\ Steps(r, x, y) /\ RunOK(y) /\ SameHistory(x, y)
               /\ y.at = "settle" /\ y.fill = x.fill /\ FillOK(x.fill)
               /\ \/ "portfolio" \notin engines /\ UNCHANGED portfolios
                  \/ /\ Refused(Held(old), x.fill) /\ UNCHANGED portfolios
                     /\ y.portfolio_result = x.portfolio_result
                  \/ \E new : /\ ~Refused(Held(old), x.fill)
                              /\ portfolios' = [portfolios EXCEPT ![pid] = new]
                              /\ new # PF!NoPortfolio
                              /\ new.cash = CashAfter(old.cash, x.fill)
                              /\ Held(new) = QuantityAfter(Held(old), x.fill)
                              /\ y.portfolio_result # Absent
                              /\ y.portfolio_result.total_value =
                                    new.cash ++ (Held(new) \otimes x.fill.price)
  BY DEF Booked
<1>2. /\ y.context = x.context /\ y.steps = x.steps /\ y.equity_curve = x.equity_curve
  BY <1>1 DEF SameHistory
<1>3. runs'[r] = y
  BY <1>1, <1>2, ContextsStay DEF ReportInv
<1>4. /\ portfolios = [q \in PortfolioIds |-> portfolios[q]] /\ pid \in PortfolioIds
  BY StartedIs DEF ReportInv, BacktestInv, BooksOK
<1>5. /\ x.fill # Absent /\ Account(y) = After(Account(x), x.fill)
      /\ Replayed(y) = Replayed(x)
  BY <1>1, <1>2 DEF Account, Replayed, FillOK
<1>6. \A q \in PortfolioIds : q # pid => portfolios'[q] = portfolios[q]
  BY <1>1, <1>4
<1>7. ASSUME "portfolio" \in engines, MirrorOK(r)
      PROVE  MirrorOK(r)'
  <2>1. /\ AccountIs(Account(x), old, x.portfolio_result)
        /\ x.equity_curve[Len(x.equity_curve)] =
              IF x.steps = <<>> THEN InitialCash ELSE Replayed(x).worth
    BY <1>7 DEF MirrorOK
  <2>2. PICK a : a = Account(x)
    OBVIOUS
  <2>3. a.cash = old.cash /\ a.quantity = Held(old) /\ a.worth = _equity(x.portfolio_result)
    BY <2>1, <2>2 DEF AccountIs
  <2>4. AccountIs(After(a, x.fill), PF!load(pid)', y.portfolio_result)
    <3>1. CASE Refused(Held(old), x.fill) /\ UNCHANGED portfolios
               /\ y.portfolio_result = x.portfolio_result
      <4>1. PF!load(pid)' = old
        BY <1>2, <1>3, <3>1 DEF PF!load, PF!NoPortfolio, PF!NewPortfolio
      <4>2. After(a, x.fill) = a
        BY <2>3, <3>1 DEF After
      <4> QED BY <2>3, <3>1, <4>1, <4>2 DEF AccountIs
    <3>2. ASSUME NEW new, ~Refused(Held(old), x.fill),
                 portfolios' = [portfolios EXCEPT ![pid] = new],
                 new # PF!NoPortfolio, new.cash = CashAfter(old.cash, x.fill),
                 Held(new) = QuantityAfter(Held(old), x.fill),
                 y.portfolio_result # Absent,
                 y.portfolio_result.total_value = new.cash ++ (Held(new) \otimes x.fill.price)
          PROVE  AccountIs(After(a, x.fill), PF!load(pid)', y.portfolio_result)
      <4>1. PF!load(pid)' = new
        <5>1. portfolios'[pid] = new
          BY <1>4, <3>2
        <5>2. (runs[r].context.portfolio_id)' = pid
          BY <1>2, <1>3
        <5>3. PF!NoPortfolio = PF!NoPortfolio'
          BY DEF PF!NoPortfolio
        <5> QED BY <3>2, <5>1, <5>2, <5>3 DEF PF!load
      <4>2. PICK b : b = After(a, x.fill)
        OBVIOUS
      <4>3. /\ b.cash = CashAfter(a.cash, x.fill) /\ b.quantity = QuantityAfter(a.quantity, x.fill)
            /\ b.worth = CashAfter(a.cash, x.fill) ++
                            (QuantityAfter(a.quantity, x.fill) \otimes x.fill.price)
        BY <1>5, <2>3, <3>2, <4>2 DEF After
      <4>4. _equity(y.portfolio_result) = new.cash ++ (Held(new) \otimes x.fill.price)
        BY <3>2 DEF _equity
      <4> HIDE DEF x, old
      <4> QED BY <2>3, <3>2, <4>1, <4>2, <4>3, <4>4 DEF AccountIs
    <3> QED BY <1>1, <1>7, <3>1, <3>2
  <2>5. AccountIs(Account(y), PF!load(y.context.portfolio_id)', y.portfolio_result)
    BY <1>2, <1>3, <1>5, <2>2, <2>4
  <2> QED BY <1>2, <1>3, <1>5, <2>1, <2>5 DEF MirrorOK
<1> QED BY <1>1, <1>2, <1>6, <1>7, MirrorsStay

LEMMA SettledMirrors ==
    ASSUME ReportInv, NEW r \in Runs, SettledRun(r), UNCHANGED <<engines, portfolios>>,
           RunOK(runs[r]), runs[r].at = "settle"
    PROVE  OwnedOK' /\ MirrorsOK'
<1> DEFINE x == runs[r]
<1>1. PICK y, s : /\ Steps(r, x, y) /\ RunOK(y) /\ y.context = x.context /\ y.at = "step"
                  /\ y.equity_curve[Len(y.equity_curve)] = _equity(x.portfolio_result)
                  /\ FollowedBy(x.steps, s, y.steps) /\ s.fill = x.fill
                  /\ y.portfolio_result = x.portfolio_result
  BY DEF SettledRun
<1>2. runs'[r] = y
  BY <1>1, ContextsStay DEF ReportInv
<1>3. StepsOK(x.steps) /\ StepsOK(y.steps)
  BY <1>1 DEF RunOK, RunHistoryOK
<1>4. StepOK(s)
  <2>1. /\ DOMAIN y.steps = 1..Len(y.steps) /\ Len(y.steps) = Len(x.steps) + 1
        /\ Len(x.steps) \in Nat /\ y.steps[Len(x.steps) + 1] = s
    BY <1>1, <1>3, AppendIs, SeqIs DEF StepsOK, FollowedBy
  <2> QED BY <1>3, <2>1 DEF StepsOK
<1>5. Replayed(y) = After(Replayed(x), x.fill) /\ y.steps # <<>>
  <2>1. SeedOK(x.context.portfolio_result)
    BY BacktestAssumption, IsRatIs DEF RunOK, RunTyped, SeedOK
  <2>2. Len(y.steps) = Len(x.steps) + 1 /\ Len(x.steps) \in Nat
    BY <1>1, <1>3, AppendIs, SeqIs DEF StepsOK, FollowedBy
  <2>3. Replay(x.context.portfolio_result, y.steps) =
           After(Replay(x.context.portfolio_result, x.steps), x.fill)
    BY <1>1, <1>3, <1>4, <2>1, ReplayStep
  <2> QED BY <1>1, <2>2, <2>3 DEF Replayed
<1>6. Account(y) = Account(x) /\ Account(x) = Replayed(y)
  BY <1>1, <1>5 DEF Account
<1>7. MirrorOK(r) => MirrorOK(r)'
  <2>1. PF!load(y.context.portfolio_id)' = PF!load(y.context.portfolio_id)
    BY <1>1, <1>2 DEF PF!load, PF!NoPortfolio, PF!NewPortfolio
  <2> QED BY <1>1, <1>2, <1>5, <1>6, <2>1 DEF MirrorOK, AccountIs
<1> QED BY <1>1, <1>7, MirrorsStay

\* A run that starts with a portfolio to itself starts with a new one.
LEMMA StartMirrors ==
    ASSUME ReportInv, NEW r \in Runs, UNCHANGED <<engines, portfolios>>, runs[r] = Idle,
           NEW y, Steps(r, runs[r], y),
           y = RefusedRun \/ \E c \in Backtests : y = NewRun(c) /\ RunOK(y)
    PROVE  OwnedOK' /\ MirrorsOK'
<1>1. runs = [q \in Runs |-> runs[q]] /\ runs' = [runs EXCEPT ![r] = y]
  BY DEF ReportInv, BacktestInv, RunsOK, Steps
<1>2. runs'[r] = y /\ \A q \in Runs : q # r => runs'[q] = runs[q]
  BY <1>1
<1>3. ~Started(r)
  BY IdleIs DEF Started
<1>4. \A q \in Runs : Started(q) => q # r /\ Started(q)' /\ runs'[q] = runs[q]
  BY <1>2, <1>3 DEF Started
<1>5. PF!NoPortfolio = PF!NoPortfolio' /\ PF!NewPortfolio = PF!NewPortfolio'
  BY DEF PF!NoPortfolio, PF!NewPortfolio
<1>6. OwnedOK'
  <2>1. ASSUME NEW pid \in PortfolioIds, portfolios'[pid] # PF!NoPortfolio
        PROVE  \E q \in Runs : Started(q)' /\ runs'[q].context.portfolio_id = pid
    <3>1. PICK q \in Runs : Started(q) /\ runs[q].context.portfolio_id = pid
      BY <2>1 DEF ReportInv, OwnedOK
    <3> QED BY <1>4, <3>1
  <2> QED BY <1>5, <2>1 DEF OwnedOK
<1>7. ASSUME "portfolio" \in engines, NEW q \in Runs, Started(q)', HasPortfolioToItself(q)',
             q # r
      PROVE  MirrorOK(q)'
  <2>1. Started(q) /\ runs'[q] = runs[q]
    BY <1>2, <1>7 DEF Started
  <2>2. HasPortfolioToItself(q)
    <3>1. ASSUME NEW p \in Runs \ {q}, "context" \in DOMAIN runs[p]
          PROVE  runs[p].context.portfolio_id # runs[q].context.portfolio_id
      <4>1. "context" \in DOMAIN runs'[p] /\ runs'[p] = runs[p]
        BY <1>4, <3>1 DEF Started
      <4> QED BY <1>7, <2>1, <4>1 DEF HasPortfolioToItself
    <3> QED BY <3>1 DEF HasPortfolioToItself
  <2>3. MirrorOK(q)
    BY <1>7, <2>1, <2>2 DEF ReportInv, MirrorsOK
  <2>4. PF!load(runs[q].context.portfolio_id)' = PF!load(runs[q].context.portfolio_id)
    BY <1>5, <2>1 DEF PF!load
  <2> QED BY <2>1, <2>3, <2>4 DEF MirrorOK
<1>8. ASSUME "portfolio" \in engines, Started(r)', HasPortfolioToItself(r)'
      PROVE  MirrorOK(r)'
  <2>1. PICK c \in Backtests : y = NewRun(c)
    BY <1>2, <1>8, IdleIs DEF Started
  <2>2. /\ y.context = c /\ y.at = "step" /\ y.steps = <<>>
        /\ y.portfolio_result = c.portfolio_result
        /\ y.equity_curve = <<InitialCash>>
    BY <2>1 DEF NewRun
  <2>3. c.portfolio_id \in PortfolioIds
    BY BacktestAssumption
  <2>4. portfolios[c.portfolio_id] = PF!NoPortfolio
    <3> SUFFICES ASSUME portfolios[c.portfolio_id] # PF!NoPortfolio PROVE FALSE
      OBVIOUS
    <3>1. PICK q \in Runs : Started(q) /\ runs[q].context.portfolio_id = c.portfolio_id
      BY <2>3 DEF ReportInv, OwnedOK
    <3>2. q # r /\ "context" \in DOMAIN runs'[q] /\ runs'[q] = runs[q]
      BY <1>4, <3>1 DEF Started
    <3> QED BY <1>2, <1>8, <2>2, <3>1, <3>2 DEF HasPortfolioToItself
  <2>5. PF!load(c.portfolio_id)' = PF!NewPortfolio
    BY <1>2, <1>5, <2>2, <2>4 DEF PF!load
  <2>6. PF!NewPortfolio.cash = InitialCash /\ Held(PF!NewPortfolio) = Zero
    BY NewBookOK
  <2>7. Account(y) = Opening(c.portfolio_result)
    <3>1. SeedOK(c.portfolio_result)
      BY BacktestAssumption, IsRatIs DEF SeedOK
    <3> QED BY <2>2, <3>1, ReplayStarts DEF Account, Replayed
  <2>8. y.equity_curve[Len(y.equity_curve)] = InitialCash
    <3>1. PICK curve : curve = <<InitialCash>> /\ y.equity_curve = curve
      BY <2>2
    <3>2. Len(curve) = 1 /\ curve[1] = InitialCash
      BY <3>1
    <3> QED BY <3>1, <3>2
  <2>9. AccountIs(Opening(c.portfolio_result), PF!NewPortfolio, c.portfolio_result)
    BY <2>6 DEF AccountIs, Opening, _equity
  <2> QED BY <1>2, <2>2, <2>5, <2>7, <2>8, <2>9 DEF MirrorOK
<1> QED BY <1>6, <1>7, <1>8 DEF MirrorsOK

LEMMA ReportStart ==
    ASSUME BacktestInit
    PROVE  ReportInv
<1>1. /\ portfolios = [pid \in PortfolioIds |-> PF!NoPortfolio]
      /\ runs = [r \in Runs |-> Idle]
  BY DEF BacktestInit, PF!PortfolioInit
<1>2. OwnedOK
  BY <1>1 DEF OwnedOK
<1>3. MirrorsOK
  BY <1>1, IdleIs DEF MirrorsOK, Started
<1> QED BY <1>2, <1>3, BacktestStart DEF ReportInv

LEMMA ReportStep ==
    ASSUME ReportInv, [BacktestNext]_backtest
    PROVE  ReportInv'
<1>1. BacktestInv /\ BacktestInv'
  BY BacktestStep DEF ReportInv
<1>2. ASSUME UNCHANGED <<engines, portfolios, runs>>
      PROVE  OwnedOK' /\ MirrorsOK'
  BY <1>2 DEF ReportInv, OwnedOK, MirrorsOK, Started, HasPortfolioToItself, MirrorOK,
              PF!load, PF!NoPortfolio, PF!NewPortfolio
<1>3. CASE UNCHANGED backtest
  BY <1>1, <1>2, <1>3 DEF backtest, ReportInv
<1>4. CASE BacktestNext
  <2>1. PICK r \in Runs : \/ run(r) \/ EndLoop(r) \/ _step(r) \/ _book(r)
                          \/ Settle(r) \/ _analyze(r) \/ unregister(r)
    BY <1>4 DEF BacktestNext
  <2>2. CASE run(r)
    <3>1. /\ UNCHANGED <<engines, portfolios>> /\ runs[r] = Idle
          /\ \E y : /\ Steps(r, runs[r], y)
                    /\ \/ y = RefusedRun
                       \/ \E c \in Backtests : y = NewRun(c) /\ RunOK(y)
      BY <1>1, <2>2, StartStep
    <3>2. OwnedOK' /\ MirrorsOK'
      BY <3>1, StartMirrors
    <3> QED BY <1>1, <3>2 DEF ReportInv
  <2>3. CASE EndLoop(r) \/ _step(r) \/ _analyze(r)
    <3>1. QuietStep(r)
      BY <1>1, <2>3, EndStep, StepStep, AnalyzeStep
    <3> QED BY <1>1, <3>1, QuietMirrors DEF ReportInv
  <2>4. CASE _book(r)
    <3>1. UNCHANGED engines /\ Booked(r) /\ RunOK(runs[r]) /\ runs[r].at = "book"
      BY <1>1, <2>4, BookStep
    <3> QED BY <1>1, <3>1, BookedMirrors DEF ReportInv
  <2>5. CASE Settle(r)
    <3>1. /\ UNCHANGED <<engines, portfolios>> /\ SettledRun(r)
          /\ RunOK(runs[r]) /\ runs[r].at = "settle"
      BY <1>1, <2>5, SettleStep
    <3> QED BY <1>1, <3>1, SettledMirrors DEF ReportInv
  <2>6. CASE unregister(r)
    BY <1>1, <1>2, <2>6, UnregisteredStep DEF ReportInv
  <2> QED BY <2>1, <2>2, <2>3, <2>4, <2>5, <2>6
<1> QED BY <1>3, <1>4

-----------------------------------------------------------------------------
(* The reports.                                                              *)

\* What a snapshot says of the run it is registered for.
LEMMA DoneIs ==
    ASSUME BacktestInv, NEW r \in DOMAIN _snapshots
    PROVE  /\ r \in Runs /\ runs[r].at = "done" /\ RunOK(runs[r])
           /\ runs[r].state \in {"completed", "cancelled"}
           /\ _snapshots[r].summary = BacktestSummary(runs[r])
BY DEF BacktestInv, SnapshotsOK, SnapshotOK, BacktestSnapshot

LEMMA BacktestTyped ==
    ASSUME BacktestInv
    PROVE  BacktestTypeOK
<1>1. PF!PortfolioTypeOK
  <2> SUFFICES ASSUME NEW pid \in PortfolioIds, portfolios[pid] # PF!NoPortfolio
               PROVE  LET p == portfolios[pid]
                      IN  /\ p.state \in {"active", "closed"}
                          /\ DOMAIN p.positions \subseteq {Symbol}
                          /\ \A s \in DOMAIN p.positions :
                                /\ PF!IsRat(p.positions[s].quantity)
                                /\ PF!IsRat(p.positions[s].average_cost)
                          /\ PF!IsRat(p.cash) /\ PF!IsRat(p.realized_pnl)
                          /\ \A i \in DOMAIN p.ledger : PF!EntryOK(p.ledger[i])
    BY DEF PF!PortfolioTypeOK, PF!Registered
  <2>1. BookOK(portfolios[pid]) /\ portfolios[pid].state = "active"
    BY DEF BacktestInv, BooksOK
  <2>2. \A x \in Rats : PF!IsRat(x)
    BY IsRatIs, BookArithmetic
  <2>3. PICK p : p = portfolios[pid]
    OBVIOUS
  <2>4. /\ p.cash \in Rats /\ p.realized_pnl \in Rats /\ DOMAIN p.positions \subseteq {Symbol}
        /\ \A s \in DOMAIN p.positions :
              p.positions[s].quantity \in Rats /\ p.positions[s].average_cost \in Rats
    BY <2>1, <2>3 DEF BookOK, PositionsOK, PositionOK
  <2>5. \A i \in DOMAIN p.ledger : EntryOK(p.ledger[i])
    BY <2>1, <2>3 DEF BookOK, LedgerOK
  <2>6. \A e : EntryOK(e) => PF!EntryOK(e)
    BY <2>2 DEF EntryOK, PF!EntryOK
  <2> QED BY <2>1, <2>2, <2>3, <2>4, <2>5, <2>6
<1>2. ASSUME NEW r \in Runs PROVE runs[r].state \in SimulationState
  <2>1. Idle.state = "created" /\ RefusedRun.state = "failed"
    BY IdleIs DEF Idle
  <2>2. RunOK(runs[r]) => runs[r].state \in SimulationState
    BY DEF RunOK, RunTyped
  <2>3. runs[r] = Idle \/ runs[r] = RefusedRun \/ RunOK(runs[r])
    BY DEF BacktestInv, RunsOK
  <2> QED BY <2>1, <2>2, <2>3 DEF SimulationState
<1>3. DOMAIN _snapshots \subseteq {r \in Runs : runs[r].at = "done"}
  BY DoneIs
<1>4. engines \in Wirings
  BY DEF BacktestInv
<1> QED BY <1>1, <1>2, <1>3, <1>4 DEF BacktestTypeOK

LEMMA EquityIs ==
    ASSUME ReportInv
    PROVE  EquityIsReplayed
<1> SUFFICES ASSUME NEW r \in Done, "portfolio" \in engines, HasPortfolioToItself(r)
             PROVE  _snapshots[r].summary.final_equity =
                       IF runs[r].steps = <<>> THEN InitialCash ELSE Replayed(runs[r]).worth
  BY DEF EquityIsReplayed, Replayed
<1>1. BacktestInv /\ r \in DOMAIN _snapshots /\ r \in Runs
  BY DoneIs DEF ReportInv, Done
<1>2. RunOK(runs[r]) /\ _snapshots[r].summary = BacktestSummary(runs[r])
  BY <1>1, DoneIs
<1>3. Started(r)
  BY <1>1, <1>2, StartedIs
<1>4. MirrorOK(r)
  BY <1>1, <1>3 DEF ReportInv, MirrorsOK
<1> QED BY <1>2, <1>4 DEF MirrorOK, BacktestSummary

LEMMA SummaryIs ==
    ASSUME BacktestInv
    PROVE  SummaryAddsUp
<1> SUFFICES ASSUME NEW r \in Done
             PROVE
      LET this == runs[r]  summary == _snapshots[r].summary
          filled == {i \in DOMAIN this.steps : this.steps[i].fill # Absent}
          limits == IF this.cancelled
                    THEN {Max({0, n}) : n \in this.context.cancel_after_steps}
                    ELSE {Len(Schedule(r))}
      IN  /\ summary.total_steps = Len(this.steps) /\ summary.total_steps \in limits
          /\ summary.total_fills = Cardinality(filled)
          /\ summary.total_commission = RatSum([i \in filled |-> this.steps[i].fill.commission])
          /\ summary.total_trades = Cardinality({this.trades[i].id : i \in DOMAIN this.trades})
          /\ Len(this.returns) = Len(this.equity_curve) - 1
  BY DEF SummaryAddsUp
<1>1. PICK x : x = runs[r]
  OBVIOUS
<1>2. /\ RunOK(x) /\ x.at = "done" /\ x.state \in {"completed", "cancelled"}
      /\ _snapshots[r].summary = BacktestSummary(x)
  BY <1>1, DoneIs DEF Done
<1>3. /\ TradesOK(x) /\ RunHistoryOK(x) /\ CountsOK(x) /\ ProgressOK(x)
  BY <1>2 DEF RunOK
<1>4. /\ x.fills = Cardinality(Filled(x.steps)) /\ x.total_commission = RatSum(Charges(x.steps))
  BY <1>2, <1>3 DEF CountsOK, Pending, InStep
<1>5. /\ Len(x.steps) = x.step_no
      /\ Len(x.returns) = Len(x.equity_curve) - 1
  <2>1. Len(x.returns) \in Nat /\ Len(x.equity_curve) = Len(x.returns) + 1
    BY <1>3 DEF RunHistoryOK, CurveOK
  <2> QED BY <1>3, <2>1 DEF RunHistoryOK
<1>6. x.step_no \in (IF x.cancelled THEN {Max({0, n}) : n \in x.context.cancel_after_steps}
                     ELSE {Len(Schedule(r))})
  <2>1. CASE x.cancelled
    <3>1. PICK limit \in x.context.cancel_after_steps : x.step_no = Cap(limit)
      BY <1>2, <1>3, <2>1 DEF ProgressOK
    <3>2. limit \in Int
      BY <1>2, <3>1, RunScheduleIs
    <3>3. x.step_no = Max({0, limit})
      BY <3>1, <3>2, CapIs
    <3> QED BY <2>1, <3>1, <3>3
  <2>2. CASE ~x.cancelled
    <3>1. x.step_no = Len(ScheduleOf(x))
      BY <1>2, <1>3, <2>2 DEF ProgressOK
    <3> QED BY <1>1, <2>2, <3>1 DEF Schedule, ScheduleOf
  <2> QED BY <2>1, <2>2
<1>7. Len(x.trades) = Cardinality({x.trades[i].id : i \in DOMAIN x.trades})
  BY <1>3, IdsCount DEF TradesOK
<1>8. /\ _snapshots[r].summary.total_steps = x.step_no
      /\ _snapshots[r].summary.total_fills = x.fills
      /\ _snapshots[r].summary.total_trades = Len(x.trades)
      /\ _snapshots[r].summary.total_commission = x.total_commission
  BY <1>2 DEF BacktestSummary
<1>9. /\ Filled(x.steps) = {i \in DOMAIN x.steps : x.steps[i].fill # Absent}
      /\ Charges(x.steps) = [i \in {i \in DOMAIN x.steps : x.steps[i].fill # Absent} |->
                                x.steps[i].fill.commission]
  BY Zenon DEF Filled, Charges
<1> QED BY <1>1, <1>4, <1>5, <1>6, <1>7, <1>8, <1>9

LEMMA ShownIs ==
    ASSUME BacktestInv
    PROVE  NoLookahead
<1> SUFFICES ASSUME NEW r \in Runs, runs[r].at # "idle", runs[r].state # "failed",
                    NEW i \in DOMAIN runs[r].steps
             PROVE  LET s == runs[r].steps[i]
                    IN  s.shown # {} => s.index = Max(s.shown) /\ Cardinality(s.shown) <= Window
  BY DEF NoLookahead
<1>1. RunOK(runs[r])
  BY IdleIs DEF BacktestInv, RunsOK
<1>2. StepOK(runs[r].steps[i])
  BY <1>1 DEF RunOK, RunHistoryOK, StepsOK
<1> QED BY <1>2 DEF StepOK, ShownOK

LEMMA ReportsAre ==
    ASSUME ReportInv
    PROVE  ReportsAreTrue
BY BacktestTyped, EquityIs, SummaryIs, ShownIs DEF ReportInv, ReportsAreTrue

-----------------------------------------------------------------------------
(* The backtests.                                                            *)

\* The metrics of every registered analysis that the performance engine made agree
\* with each other and with the run's history, a seeded trade result excepted
\* (backtesting/manager.py, performance).
THEOREM MetricsAgreeAlways == ServicesSpec => []MetricsAgree
<1>1. ServicesInit => BacktestInv
  BY BacktestStart DEF ServicesInit
<1>2. BacktestInv /\ [ServicesNext]_services => BacktestInv'
  BY StepsOfServices, BacktestStep
<1>3. BacktestInv => MetricsAgree
  BY MetricsAre
<1> QED BY <1>1, <1>2, <1>3, PTL DEF ServicesSpec

\* The report of every registered backtest is true: replaying its fills on what the
\* run was seeded with gives the equity it ends with, its summary is that of its
\* history, and no strategy was shown a later candle, for every set of contexts,
\* seeded or not, of decisions and of wirings.
THEOREM ReportsTrueAlways == ServicesSpec => []ReportsAreTrue
<1>1. ServicesInit => ReportInv
  BY ReportStart DEF ServicesInit
<1>2. ReportInv /\ [ServicesNext]_services => ReportInv'
  BY StepsOfServices, ReportStep
<1>3. ReportInv => ReportsAreTrue
  BY ReportsAre
<1> QED BY <1>1, <1>2, <1>3, PTL DEF ServicesSpec
=============================================================================
