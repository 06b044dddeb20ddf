------------------------ MODULE TradingEngineProofs ------------------------
(***************************************************************************)
(* EngineInv, the inductive invariant of the trading engine's lifecycle,    *)
(* for any set of tasks and services, with dynamic registration and with    *)
(* cancellation.                                                           *)
(***************************************************************************)
EXTENDS TradingEngine, SequenceTheorems, TLAPS

\* What the list of stop_services() holds: the registered services.
LEMMA ReverseSet ==
    ASSUME NEW S, NEW s \in Seq(S)
    PROVE  Reverse(s) \in Seq(S) /\ ToSet(Reverse(s)) = ToSet(s)
<1>1. Reverse(s) \in Seq(S) /\ Len(Reverse(s)) = Len(s)
  BY DEF Reverse
<1>2. ASSUME NEW i \in 1..Len(s)
      PROVE  Reverse(s)[i] = s[Len(s) - i + 1] /\ Len(s) - i + 1 \in 1..Len(s)
  BY DEF Reverse
<1>3. ASSUME NEW i \in 1..Len(s)
      PROVE  s[i] = Reverse(s)[Len(s) - i + 1] /\ Len(s) - i + 1 \in 1..Len(s)
  <2> DEFINE j == Len(s) - i + 1
  <2>1. j \in 1..Len(s) /\ Len(s) - j + 1 = i
    OBVIOUS
  <2> QED BY <2>1, <1>2
<1>4. DOMAIN Reverse(s) = 1..Len(s) /\ DOMAIN s = 1..Len(s)
  BY <1>1
<1>5. ASSUME NEW x \in ToSet(Reverse(s)) PROVE x \in ToSet(s)
  <2>1. PICK i \in 1..Len(s) : x = Reverse(s)[i]
    BY <1>4 DEF ToSet
  <2> QED BY <2>1, <1>2, <1>4 DEF ToSet
<1>6. ASSUME NEW x \in ToSet(s) PROVE x \in ToSet(Reverse(s))
  <2>1. PICK i \in 1..Len(s) : x = s[i]
    BY <1>4 DEF ToSet
  <2> QED BY <2>1, <1>3, <1>4 DEF ToSet
<1> QED BY <1>1, <1>5, <1>6

\* RemoveAt, entry by entry: what was before index i stays, the rest moves up.
LEMMA RemoveAtIs ==
    ASSUME NEW S, NEW s \in Seq(S), NEW i \in 1..Len(s)
    PROVE  /\ RemoveAt(s, i) \in Seq(S)
           /\ Len(RemoveAt(s, i)) = Len(s) - 1
           /\ \A j \in 1..(i - 1) : RemoveAt(s, i)[j] = s[j]
           /\ \A j \in (i + 1)..Len(s) : RemoveAt(s, i)[j - 1] = s[j]
<1> DEFINE front == SubSeq(s, 1, i - 1)
           back  == SubSeq(s, i + 1, Len(s))
<1>1. RemoveAt(s, i) = front \o back
  BY DEF RemoveAt
<1>2. /\ front \in Seq(S)
      /\ Len(front) = i - 1
      /\ \A j \in 1..(i - 1) : front[j] = s[j]
  OBVIOUS
<1>3. /\ back \in Seq(S)
      /\ Len(back) = Len(s) - i
      /\ \A j \in 1..(Len(s) - i) : back[j] = s[i + j]
  OBVIOUS
<1> HIDE DEF front, back
<1>4. RemoveAt(s, i) \in Seq(S) /\ Len(RemoveAt(s, i)) = Len(s) - 1
  BY <1>1, <1>2, <1>3
<1>5. \A j \in 1..(i - 1) : RemoveAt(s, i)[j] = s[j]
  BY <1>1, <1>2, <1>3
<1>6. ASSUME NEW j \in (i + 1)..Len(s) PROVE RemoveAt(s, i)[j - 1] = s[j]
  <2> DEFINE k == j - i
  <2>0. Len(s) \in Nat /\ i \in 1..Len(s)
    OBVIOUS
  <2>a. Len(front) = i - 1 /\ Len(back) = Len(s) - i
    BY <1>2, <1>3
  <2>1. /\ Len(s) \in Nat /\ i \in Nat /\ j \in Nat
        /\ k \in 1..Len(back) /\ j - 1 = Len(front) + k /\ i + k = j
    BY ONLY <2>0, <2>a, j \in (i + 1)..Len(s)
  <2> HIDE DEF k
  <2>2. (front \o back)[Len(front) + k] = back[k]
    <3> DEFINE p == Len(front) + k
    <3>1. \A q \in 1 .. Len(front) + Len(back) :
            (front \o back)[q] = IF q <= Len(front) THEN front[q]
                                 ELSE back[q - Len(front)]
      BY <1>2, <1>3, ConcatProperties
    <3>2. Len(front) \in Nat /\ Len(back) \in Nat
      BY <1>2, <1>3
    <3>3. p \in 1 .. Len(front) + Len(back) /\ ~(p <= Len(front)) /\ p - Len(front) = k
      BY <2>1, <3>2
    <3> HIDE DEF p
    <3>4. (front \o back)[p] = back[k]
      BY <3>1, <3>3
    <3> QED BY <3>4 DEF p
  <2>3. back[k] = s[i + k]
    BY <1>3, <2>1
  <2> QED BY <1>1, <2>1, <2>2, <2>3
<1> QED BY <1>4, <1>5, <1>6

\* What is left after RemoveAt stands in the order it had before.
LEMMA RemoveAtOrder ==
    ASSUME NEW S, NEW s \in Seq(S), NEW i \in 1..Len(s)
    PROVE  \A k, l \in 1..Len(RemoveAt(s, i)) : \E a, b \in 1..Len(s) :
              /\ RemoveAt(s, i)[k] = s[a]
              /\ RemoveAt(s, i)[l] = s[b]
              /\ k < l <=> a < b
              /\ k = l <=> a = b
<1> DEFINE r == RemoveAt(s, i)
           at(m) == IF m < i THEN m ELSE m + 1
<1>1. ASSUME NEW m \in 1..Len(r) PROVE at(m) \in 1..Len(s) /\ r[m] = s[at(m)]
  <2>1. /\ Len(r) = Len(s) - 1 /\ Len(s) \in Nat
        /\ \A j \in 1..(i - 1) : r[j] = s[j]
        /\ \A j \in (i + 1)..Len(s) : r[j - 1] = s[j]
    BY RemoveAtIs
  <2> HIDE DEF r
  <2>2. CASE m < i
    BY <2>1, <2>2
  <2>3. CASE ~(m < i)
    <3>1. m + 1 \in (i + 1)..Len(s) /\ (m + 1) - 1 = m
      BY <2>1, <2>3
    <3> QED BY <2>1, <2>3, <3>1
  <2> QED BY <2>2, <2>3
<1>2. Len(r) = Len(s) - 1 /\ Len(s) \in Nat
  BY RemoveAtIs
<1>3. \A k, l \in 1..Len(r) : (k < l <=> at(k) < at(l)) /\ (k = l <=> at(k) = at(l))
  BY <1>2
<1> QED BY <1>1, <1>3

\* Initially the invariant holds.
LEMMA InitInv == Init => EngineInv
<1> SUFFICES ASSUME Init PROVE EngineInv
  OBVIOUS
<1>1. services = <<>> /\ services \in Seq(Services) /\ ToSet(services) = {}
  BY DEF Init, ToSet
<1>2. TypeOK
  <2>1. todo \in [Tasks -> Seq(Services)]
    BY DEF Init
  <2>2. /\ pc \in [Tasks -> Labels] /\ cur \in [Tasks -> Services \union {None}]
        /\ position \in [Tasks -> Nat] /\ expected \in [Tasks -> Int]
        /\ size \in [Tasks -> Nat]
    BY DEF Init, Labels
  <2>3. /\ slot \in [Services -> Nat] /\ filled \in Nat /\ room \in Int
        /\ adopted \subseteq Services
        /\ state \in EngineStates /\ runtime \in EngineStates
    BY DEF Init, EngineStates
  <2>4. up \in [Services -> BOOLEAN] /\ rebuilt \in BOOLEAN /\ abandoned \in BOOLEAN
    BY DEF Init
  <2> QED BY <1>1, <2>1, <2>2, <2>3, <2>4 DEF TypeOK
<1>3. OneDriver /\ PassedAreUp /\ UpArePending
  BY DEF Init, OneDriver, Driving, StartLabels, StopLabels, PassedAreUp, UpArePending
<1>4. RegisteredOnce /\ PlacesDiffer /\ AdoptedRegistered
  BY <1>1 DEF Init, RegisteredOnce, PlacesDiffer, AdoptedRegistered
<1>5. ServicesUpWhileRunning /\ ServicesDownWhenStopped
  BY DEF Init, ServicesUpWhileRunning, ServicesDownWhenStopped
<1> QED BY <1>2, <1>3, <1>4, <1>5 DEF EngineInv

\* A task that drives the engine is alone.
LEMMA Alone ==
    ASSUME OneDriver, NEW t \in Tasks, Driving(t), NEW u \in Tasks \ {t}
    PROVE  ~Driving(u)
BY DEF OneDriver

\* A call is accepted only in a state in which nobody drives the engine.
LEMMA NobodyDrives ==
    ASSUME OneDriver, state \notin Transient, NEW u \in Tasks
    PROVE  ~Driving(u)
BY DEF OneDriver, Driving, StartLabels, StopLabels, Transient

\* How one driver stays one: the others are not driving, and the state the task
\* enters is the one its new label stands for.
LEMMA OneDriverStep ==
    ASSUME TypeOK, NEW t \in Tasks, NEW label, pc' = [pc EXCEPT ![t] = label],
           \A u \in Tasks \ {t} : ~Driving(u),
           label = "initializing" => state' = "initializing",
           label \in StartLabels => state' = "starting",
           label \in StopLabels => state' = "stopping"
    PROVE  OneDriver'
<1>1. \A u \in Tasks \ {t} : pc'[u] = pc[u]
  BY DEF TypeOK
<1>2. pc'[t] = label
  BY DEF TypeOK
<1>3. \A u \in Tasks \ {t} : ~Driving(u)'
  BY <1>1 DEF Driving, StartLabels, StopLabels
<1>4. \A u, v \in Tasks : Driving(u)' /\ Driving(v)' => u = v
  BY <1>3
<1>5. ASSUME NEW u \in Tasks
      PROVE  /\ pc'[u] = "initializing" => state' = "initializing"
             /\ pc'[u] \in StartLabels => state' = "starting"
             /\ pc'[u] \in StopLabels => state' = "stopping"
  <2>1. CASE u = t
    BY <1>2, <2>1
  <2>2. CASE u # t
    BY <1>3, <2>2 DEF Driving, StartLabels, StopLabels
  <2> QED BY <2>1, <2>2
<1> QED BY <1>4, <1>5 DEF OneDriver

\* A task that lets go of the engine, or only publishes, disturbs no driver.
LEMMA OneDriverRelease ==
    ASSUME TypeOK, OneDriver, NEW t \in Tasks, NEW label \in {"idle", "notify"},
           pc' = [pc EXCEPT ![t] = label], state' = state
    PROVE  OneDriver'
<1>1. \A u \in Tasks : Driving(u)' => Driving(u) /\ pc'[u] = pc[u]
  BY DEF TypeOK, Driving, StartLabels, StopLabels
<1> QED BY <1>1 DEF OneDriver, Driving, StartLabels, StopLabels

\* _enter(), or _fail() where it is refused, by the only task that may drive.
LEMMA EnterOrFailStep ==
    ASSUME TypeOK, NEW t \in Tasks, NEW target \in EngineStates,
           NEW label \in Labels,
           \A u \in Tasks \ {t} : ~Driving(u),
           EnterOrFail(t, target, label),
           label = "initializing" => target = "initializing",
           label \in StartLabels => target = "starting",
           label \in StopLabels => target = "stopping"
    PROVE  /\ OneDriver'
           /\ state' \in EngineStates
           /\ runtime' \in EngineStates
           /\ pc' \in [Tasks -> Labels]
<1>1. CASE Enter(target) /\ Goto(t, label)
  <2>1. OneDriver'
    BY <1>1, OneDriverStep DEF Enter, Goto
  <2> QED BY <1>1, <2>1 DEF Enter, Goto, TypeOK, EngineStates, Labels
<1>2. CASE Fail(t)
  <2>1. OneDriver'
    BY <1>2, OneDriverStep DEF Fail, Goto, StartLabels, StopLabels
  <2> QED BY <1>2, <2>1 DEF Fail, Goto, TypeOK, EngineStates, Labels
<1> QED BY <1>1, <1>2 DEF EnterOrFail

\* The iterators of the other tasks are where they were.
OthersKept(t) ==
    \A u \in Tasks \ {t} :
        cur'[u] = cur[u] /\ position'[u] = position[u] /\ todo'[u] = todo[u]

\* The locals of the loops after a step keep their types.
LocalsTyped ==
    /\ cur' \in [Tasks -> Services \union {None}]
    /\ position' \in [Tasks -> Nat]
    /\ expected' \in [Tasks -> Int]
    /\ size' \in [Tasks -> Nat]
    /\ todo' \in [Tasks -> Seq(Services)]

\* A loop that is over leaves the other iterators alone.
LEMMA DroppedIterator ==
    ASSUME TypeOK, NEW t \in Tasks, DropIterator(t),
           \/ todo' = todo
           \/ todo' = [todo EXCEPT ![t] = <<>>]
    PROVE  OthersKept(t) /\ LocalsTyped
<1>1. <<>> \in Seq(Services)
  OBVIOUS
<1>2. todo' \in [Tasks -> Seq(Services)] /\ \A u \in Tasks \ {t} : todo'[u] = todo[u]
  BY <1>1 DEF TypeOK
<1>3. /\ cur' \in [Tasks -> Services \union {None}]
      /\ \A u \in Tasks \ {t} : cur'[u] = cur[u]
  BY DEF TypeOK, DropIterator
<1>4. /\ position' \in [Tasks -> Nat]
      /\ \A u \in Tasks \ {t} : position'[u] = position[u]
  BY DEF TypeOK, DropIterator
<1>5. expected' \in [Tasks -> Int] /\ size' \in [Tasks -> Nat]
  BY DEF TypeOK, DropIterator
<1> QED BY <1>2, <1>3, <1>4, <1>5 DEF OthersKept, LocalsTyped

\* A step of a task that ends or begins a call: the registry and the loops of the
\* other tasks are left alone, and the task itself runs no loop after it.
LEMMA CallStep ==
    ASSUME EngineInv, NEW t \in Tasks, NEW label \in Labels \ {"start_service", "stop_service"},
           pc' = [pc EXCEPT ![t] = label], OthersKept(t),
           UNCHANGED <<registry, up>>, adopted' \subseteq adopted,
           rebuilt' = rebuilt \/ \A u \in Tasks : ~Driving(u)
    PROVE  /\ RegisteredOnce' /\ PlacesDiffer'
           /\ PassedAreUp' /\ UpArePending' /\ AdoptedRegistered'
<1> USE DEF EngineInv, registry, table
<1>1. \A u \in Tasks : pc'[u] \in {"start_service", "stop_service"} =>
          pc'[u] = pc[u] /\ u # t /\ Driving(u)
  BY DEF TypeOK, Driving, StartLabels, StopLabels
<1>2. \A u \in Tasks : pc'[u] = "start_service" =>
          rebuilt' = rebuilt /\ cur'[u] = cur[u] /\ position'[u] = position[u]
  BY <1>1 DEF OthersKept
<1>3. PassedAreUp'
  BY <1>1, <1>2 DEF PassedAreUp
<1>4. UpArePending'
  BY <1>1 DEF UpArePending, OthersKept
<1> QED BY <1>3, <1>4 DEF RegisteredOnce, PlacesDiffer, AdoptedRegistered

\* _fail() by the task that drives the engine.
LEMMA FailStep ==
    ASSUME EngineInv, NEW t \in Tasks, Driving(t), Fail(t),
           OthersKept(t), LocalsTyped, UNCHANGED <<registry, auxiliary>>,
           up' \in [Services -> BOOLEAN]
    PROVE  EngineInv'
<1> USE DEF EngineInv, registry, table, auxiliary
<1>1. OneDriver'
  BY Alone, OneDriverStep DEF Fail, Goto, StartLabels, StopLabels
<1>2. TypeOK'
  BY DEF TypeOK, LocalsTyped, Fail, Goto, EngineStates, Labels
<1>3. \A u \in Tasks : pc'[u] \notin {"start_service", "stop_service"}
  BY Alone DEF Fail, Goto, TypeOK, Driving, StartLabels, StopLabels
<1>4. PassedAreUp' /\ UpArePending'
  BY <1>3 DEF PassedAreUp, UpArePending
<1>5. RegisteredOnce' /\ PlacesDiffer' /\ AdoptedRegistered'
  BY DEF RegisteredOnce, PlacesDiffer, AdoptedRegistered
<1>6. ServicesUpWhileRunning' /\ ServicesDownWhenStopped'
  BY DEF Fail, ServicesUpWhileRunning, ServicesDownWhenStopped
<1> QED BY <1>1, <1>2, <1>4, <1>5, <1>6

\* One iteration of start_services(): unless the table was rebuilt, everything the
\* iterator passed is up, so the engine enters RUNNING with every registered
\* service up.
LEMMA StartLoopStep ==
    ASSUME EngineInv, NEW t \in Tasks, pc[t] \in StartLabels,
           NEW place \in Nat, NEW n \in Nat, NEW m \in Int, StartLoop(t, place, n, m),
           UNCHANGED <<registry, todo, rebuilt, abandoned>>,
           up' \in [Services -> BOOLEAN],
           ~rebuilt => place <= filled,
           ~rebuilt => \A s \in ToSet(services) : slot[s] <= place => up'[s]
    PROVE  EngineInv'
<1> USE DEF EngineInv, registry, table
<1>1. Driving(t) /\ state = "starting"
  BY DEF OneDriver, Driving
<1>2. \A u \in Tasks \ {t} : ~Driving(u)
  BY <1>1, Alone
<1>3. ToSet(services) \subseteq Services
  BY DEF TypeOK, ToSet
<1>4. CASE DictChanged(t, place, n, m)
  <2>1. OthersKept(t) /\ LocalsTyped
    BY <1>4, DroppedIterator DEF DictChanged
  <2> QED BY <1>1, <1>4, <2>1, FailStep DEF DictChanged, auxiliary
<1>5. CASE AwaitNextStart(t, place, n, m)
  <2>1. PICK next \in Unvisited(place) :
            /\ \A other \in Unvisited(place) : slot[next] <= slot[other]
            /\ cur' = [cur EXCEPT ![t] = next]
            /\ position' = [position EXCEPT ![t] = slot[next]]
    BY <1>5 DEF AwaitNextStart
  <2>2. next \in ToSet(services) /\ next \in Services
    BY <1>3 DEF Unvisited
  <2>3. OneDriver'
    BY <1>1, <1>2, <1>5, OneDriverStep DEF AwaitNextStart, Goto, StartLabels, StopLabels
  <2>4. TypeOK'
    BY <1>5, <2>1, <2>2 DEF TypeOK, AwaitNextStart, Goto, Labels
  <2>5. PassedAreUp'
    <3>1. \A u \in Tasks : pc'[u] = "start_service" => u = t
      BY <1>2, <1>5 DEF TypeOK, AwaitNextStart, Goto, Driving, StartLabels
    <3>2. cur'[t] = next /\ position'[t] = slot[next] /\ slot[next] <= filled
      BY <2>1, <2>2 DEF TypeOK, PlacesDiffer
    <3>3. ASSUME ~rebuilt, NEW s \in ToSet(services), slot[s] <= slot[next]
          PROVE  up'[s] \/ s = next
      <4>1. CASE slot[s] <= place
        BY <3>3, <4>1
      <4>2. CASE slot[s] > place
        <5>1. slot[s] = slot[next]
          BY <1>3, <2>1, <2>2, <3>3, <4>2 DEF Unvisited, TypeOK
        <5> QED BY <2>2, <3>3, <5>1 DEF PlacesDiffer
      <4> QED BY <1>3, <4>1, <4>2 DEF TypeOK
    <3> QED BY <2>2, <3>1, <3>2, <3>3 DEF PassedAreUp
  <2>6. UpArePending'
    BY <1>2, <1>5 DEF TypeOK, AwaitNextStart, Goto, UpArePending, Driving, StopLabels
  <2>7. AdoptedRegistered' /\ ServicesUpWhileRunning' /\ ServicesDownWhenStopped'
    BY <1>1, <1>5 DEF AwaitNextStart, AdoptedRegistered, ServicesUpWhileRunning,
                      ServicesDownWhenStopped
  <2> QED BY <2>3, <2>4, <2>5, <2>6, <2>7
          DEF RegisteredOnce, PlacesDiffer
<1>6. CASE EnterRunning(t, place, n)
  <2>1. OneDriver'
    BY <1>2, <1>6, OneDriverStep DEF EnterRunning, Fail, Goto, StartLabels, StopLabels
  <2>2. ~rebuilt => \A s \in ToSet(services) : up'[s]
    BY <1>3, <1>6 DEF EnterRunning, Unvisited, TypeOK
  <2>3. OthersKept(t) /\ LocalsTyped
    BY <1>6, DroppedIterator DEF EnterRunning
  <2>4. TypeOK'
    BY <1>3, <1>6, <2>3 DEF TypeOK, LocalsTyped, EnterRunning, Fail, Goto, EngineStates, Labels
  <2>5. PassedAreUp' /\ UpArePending'
    <3>1. pc' = [pc EXCEPT ![t] = "notify"]
      BY <1>6 DEF EnterRunning, Fail, Goto
    <3>2. \A u \in Tasks : pc'[u] \notin {"start_service", "stop_service"}
      BY <1>2, <3>1 DEF TypeOK, Driving, StartLabels, StopLabels
    <3> QED BY <3>2 DEF PassedAreUp, UpArePending
  <2>6. AdoptedRegistered' /\ ServicesUpWhileRunning' /\ ServicesDownWhenStopped'
    BY <1>6, <2>2 DEF EnterRunning, Fail, AdoptedRegistered, ServicesUpWhileRunning,
                      ServicesDownWhenStopped
  <2> QED BY <2>1, <2>4, <2>5, <2>6 DEF RegisteredOnce, PlacesDiffer
<1> QED BY <1>4, <1>5, <1>6 DEF StartLoop

\* One iteration of stop_services(): what is up is on the list, so the engine
\* enters STOPPED with nothing it started still up.
LEMMA StopLoopStep ==
    ASSUME EngineInv, NEW t \in Tasks, pc[t] \in StopLabels,
           NEW rest \in Seq(Services), StopLoop(t, rest),
           UNCHANGED <<registry, cur, position, expected, size, auxiliary>>,
           up' \in [Services -> BOOLEAN],
           \A s \in adopted : up'[s] => s \in ToSet(rest)
    PROVE  EngineInv'
<1> USE DEF EngineInv, registry, table, auxiliary
<1>1. Driving(t) /\ state = "stopping"
  BY DEF OneDriver, Driving
<1>2. \A u \in Tasks \ {t} : ~Driving(u)
  BY <1>1, Alone
<1>3. CASE rest # <<>>
  <2>1. Goto(t, "stop_service") /\ UNCHANGED <<state, runtime>>
    BY <1>3 DEF StopLoop
  <2>2. OneDriver'
    BY <1>1, <1>2, <2>1, OneDriverStep DEF Goto, StartLabels, StopLabels
  <2>3. TypeOK'
    BY <2>1 DEF TypeOK, StopLoop, Goto, Labels
  <2>4. PassedAreUp'
    BY <1>2, <2>1 DEF TypeOK, Goto, PassedAreUp, Driving, StartLabels
  <2>5. UpArePending'
    BY <1>2, <1>3, <2>1 DEF TypeOK, Goto, StopLoop, UpArePending, Driving, StopLabels
  <2>6. AdoptedRegistered' /\ ServicesUpWhileRunning' /\ ServicesDownWhenStopped'
    BY <1>1, <2>1 DEF AdoptedRegistered, ServicesUpWhileRunning, ServicesDownWhenStopped
  <2> QED BY <2>2, <2>3, <2>4, <2>5, <2>6 DEF RegisteredOnce, PlacesDiffer
<1>4. CASE rest = <<>>
  <2>1. EnterOrFail(t, "stopped", "notify")
    BY <1>4 DEF StopLoop
  <2>2. /\ OneDriver'
        /\ state' \in EngineStates
        /\ runtime' \in EngineStates
        /\ pc' \in [Tasks -> Labels]
    BY <1>2, <2>1, EnterOrFailStep DEF EngineStates, Labels, StartLabels, StopLabels
  <2>3. TypeOK'
    BY <2>2 DEF TypeOK, StopLoop
  <2>4. \A s \in adopted : ~up'[s]
    BY <1>4 DEF ToSet
  <2>5. PassedAreUp' /\ UpArePending'
    <3>1. pc' = [pc EXCEPT ![t] = "notify"]
      BY <2>1 DEF EnterOrFail, Fail, Goto
    <3>2. \A u \in Tasks : pc'[u] \notin {"start_service", "stop_service"}
      BY <1>2, <3>1 DEF TypeOK, Driving, StartLabels, StopLabels
    <3> QED BY <3>2 DEF PassedAreUp, UpArePending
  <2>6. AdoptedRegistered' /\ ServicesUpWhileRunning' /\ ServicesDownWhenStopped'
    BY <2>1, <2>4 DEF EnterOrFail, Enter, Fail, AdoptedRegistered,
                      ServicesUpWhileRunning, ServicesDownWhenStopped
  <2> QED BY <2>2, <2>3, <2>5, <2>6 DEF RegisteredOnce, PlacesDiffer
<1> QED BY <1>3, <1>4

\* _enter(), or _fail(), between two publishes of the only task that may drive.
LEMMA TransitionStep ==
    ASSUME EngineInv, NEW t \in Tasks,
           Driving(t) \/ state \notin Transient,
           NEW target \in Transient,
           EnterOrFail(t, target, target),
           UNCHANGED <<registry, up, iterators>>, adopted' \subseteq adopted,
           rebuilt' = rebuilt \/ (rebuilt' = FALSE /\ state \notin Transient),
           abandoned' = abandoned
    PROVE  EngineInv'
<1> USE DEF EngineInv
<1>1. \A u \in Tasks \ {t} : ~Driving(u)
  BY Alone, NobodyDrives
<1>2. target \in Labels \ {"start_service", "stop_service"} /\ target \in EngineStates
  BY DEF Transient, Labels, EngineStates
<1>3. /\ OneDriver'
      /\ state' \in EngineStates
      /\ runtime' \in EngineStates
      /\ pc' \in [Tasks -> Labels]
  BY <1>1, <1>2, EnterOrFailStep DEF StartLabels, StopLabels, Transient
<1>4. TypeOK'
  BY <1>3 DEF TypeOK, iterators, registry, table
<1>5. rebuilt' = rebuilt \/ \A u \in Tasks : ~Driving(u)
  BY NobodyDrives
<1>6. RegisteredOnce' /\ PlacesDiffer' /\ PassedAreUp' /\ UpArePending' /\ AdoptedRegistered'
  BY <1>2, <1>5, CallStep DEF EnterOrFail, Fail, Goto, Labels, OthersKept, iterators
<1>7. ServicesUpWhileRunning' /\ ServicesDownWhenStopped'
  BY DEF EnterOrFail, Enter, Fail, Transient, ServicesUpWhileRunning,
         ServicesDownWhenStopped
<1> QED BY <1>3, <1>4, <1>6, <1>7

\* pause() and resume(), accepted in a state in which nobody drives the engine.
LEMMA PauseResumeStep ==
    ASSUME EngineInv, NEW t \in Tasks, state \in {"running", "paused"},
           NEW target \in {"running", "paused"}, Enter(target), Goto(t, "notify"),
           UNCHANGED <<registry, up, iterators, auxiliary>>
    PROVE  EngineInv'
<1> USE DEF EngineInv, auxiliary
<1>1. \A u \in Tasks \ {t} : ~Driving(u)
  BY NobodyDrives DEF Transient
<1>2. OneDriver'
  BY <1>1, OneDriverStep DEF Goto, StartLabels, StopLabels
<1>3. TypeOK'
  BY DEF TypeOK, Enter, Goto, EngineStates, Labels, iterators, registry, table
<1>4. RegisteredOnce' /\ PlacesDiffer' /\ PassedAreUp' /\ UpArePending' /\ AdoptedRegistered'
  BY CallStep DEF Goto, Labels, OthersKept, iterators
<1>5. ServicesUpWhileRunning' /\ ServicesDownWhenStopped'
  BY DEF Enter, ServicesUpWhileRunning, ServicesDownWhenStopped
<1> QED BY <1>2, <1>3, <1>4, <1>5

\* The end of a call, with the awaited service's effect when it is cancelled.
LEMMA ReturnStep ==
    ASSUME EngineInv, NEW t \in Tasks, Return(t), abandoned' \in BOOLEAN,
           \/ up' = up
           \/ pc[t] = "start_service" /\ up' = [up EXCEPT ![cur[t]] = TRUE]
           \/ pc[t] = "stop_service" /\ up' = [up EXCEPT ![Head(todo[t])] = FALSE]
    PROVE  EngineInv'
<1> USE DEF EngineInv, registry, table
<1>1. OneDriver'
  BY OneDriverRelease DEF Return, Goto
<1>2. OthersKept(t) /\ LocalsTyped
  BY DroppedIterator DEF Return
<1>3. TypeOK'
  <2>1. up' \in [Services -> BOOLEAN]
    BY DEF TypeOK
  <2> QED BY <1>2, <2>1 DEF TypeOK, LocalsTyped, Return, Goto, Labels
<1>4. \A u \in Tasks : pc'[u] \in {"start_service", "stop_service"} =>
          u # t /\ pc'[u] = pc[u] /\ up' = up
  BY Alone DEF TypeOK, Return, Goto, Driving, StartLabels, StopLabels
<1>5. PassedAreUp'
  BY <1>2, <1>4 DEF Return, PassedAreUp, OthersKept
<1>6. UpArePending'
  BY <1>2, <1>4 DEF Return, UpArePending, OthersKept
<1>7. RegisteredOnce' /\ PlacesDiffer' /\ AdoptedRegistered'
  BY DEF Return, RegisteredOnce, PlacesDiffer, AdoptedRegistered
<1>8. CASE up' = up
  BY <1>1, <1>3, <1>5, <1>6, <1>7, <1>8
  DEF Return, ServicesUpWhileRunning, ServicesDownWhenStopped
<1>9. CASE pc[t] \in {"start_service", "stop_service"}
  <2>1. state' \in Transient
    BY <1>9 DEF OneDriver, Return, StartLabels, StopLabels, Transient
  <2> QED BY <1>1, <1>3, <1>5, <1>6, <1>7, <2>1
          DEF ServicesUpWhileRunning, ServicesDownWhenStopped, Transient
<1> QED BY <1>8, <1>9

\* A new entry goes to the end of the dict.
LEMMA Appended ==
    ASSUME EngineInv, NEW s \in Services, s \notin ToSet(services),
           services' = Append(services, s)
    PROVE  /\ services' \in Seq(Services)
           /\ RegisteredOnce'
           /\ ToSet(services') = ToSet(services) \union {s}
           /\ DOMAIN services = 1..Len(services) /\ Len(services) \in Nat
           /\ DOMAIN services' = 1..(Len(services) + 1)
           /\ \A k \in DOMAIN services : services'[k] = services[k] /\ services[k] # s
           /\ services'[Len(services) + 1] = s
<1>1. services \in Seq(Services)
  BY DEF EngineInv, TypeOK
<1>2. /\ DOMAIN services = 1..Len(services) /\ Len(services) \in Nat
      /\ DOMAIN services' = 1..(Len(services) + 1)
      /\ services' \in Seq(Services)
      /\ \A k \in DOMAIN services : services'[k] = services[k] /\ services[k] # s
      /\ services'[Len(services) + 1] = s
  BY <1>1 DEF ToSet
<1>3. RegisteredOnce'
  BY <1>2 DEF EngineInv, RegisteredOnce
<1>4. ASSUME NEW x \in ToSet(services) \union {s} PROVE x \in ToSet(services')
  <2>1. CASE x = s
    BY <1>2, <2>1 DEF ToSet
  <2>2. CASE x \in ToSet(services)
    <3>1. PICK k \in DOMAIN services : x = services[k]
      BY <2>2 DEF ToSet
    <3>2. k \in DOMAIN services' /\ x = services'[k]
      BY <1>2, <3>1
    <3> QED BY <3>2 DEF ToSet
  <2> QED BY <2>1, <2>2
<1>5. ASSUME NEW x \in ToSet(services') PROVE x \in ToSet(services) \union {s}
  <2>1. PICK k \in DOMAIN services' : x = services'[k]
    BY DEF ToSet
  <2>2. CASE k \in DOMAIN services
    <3>1. x = services[k]
      BY <1>2, <2>1, <2>2
    <3> QED BY <2>2, <3>1 DEF ToSet
  <2>3. CASE k = Len(services) + 1
    BY <1>2, <2>1, <2>3
  <2> QED BY <1>2, <2>1, <2>2, <2>3
<1> QED BY <1>2, <1>3, <1>4, <1>5

\* register_service(): the new entry has a place of its own ahead of every
\* iterator, and the other entries keep theirs unless the table is rebuilt.
LEMMA RegisterStep ==
    ASSUME EngineInv, NEW s \in Services, RegisterService(s)
    PROVE  EngineInv'
<1> USE DEF EngineInv, iterators
<1>1. UNCHANGED <<state, runtime, up, pc, iterators, adopted, abandoned>>
  BY DEF RegisterService
<1>2. /\ services' \in Seq(Services) /\ RegisteredOnce'
      /\ ToSet(services') = ToSet(services) \union {s}
      /\ DOMAIN services = 1..Len(services) /\ Len(services) \in Nat
      /\ s \notin ToSet(services) /\ ToSet(services) \subseteq Services
  <2>1. ToSet(services) \subseteq Services
    BY DEF TypeOK, ToSet
  <2> QED BY <2>1, Appended DEF RegisterService
<1>3. ASSUME \/ UseRoom(s)
             \/ filled = Len(services) /\ filled' = filled + 1 /\ room' \in Int
                /\ slot' = [slot EXCEPT ![s] = filled + 1] /\ rebuilt' = rebuilt
      PROVE  EngineInv'
  <2>1. /\ slot' = [slot EXCEPT ![s] = filled + 1] /\ filled' = filled + 1
        /\ rebuilt' = rebuilt /\ room' \in Int
    BY <1>3 DEF UseRoom, TypeOK
  <2>2. TypeOK'
    BY <1>1, <1>2, <2>1 DEF TypeOK
  <2>3. slot'[s] = filled + 1 /\ \A x \in ToSet(services) : slot'[x] = slot[x]
    BY <1>2, <2>1 DEF TypeOK
  <2>4. PlacesDiffer'
    <3>1. \A x \in ToSet(services') : slot'[x] \in 1 .. filled'
      BY <1>2, <2>1, <2>3 DEF PlacesDiffer, TypeOK
    <3>2. \A x, y \in ToSet(services') : slot'[x] = slot'[y] => x = y
      BY <1>2, <2>1, <2>3 DEF PlacesDiffer, TypeOK
    <3> QED BY <3>1, <3>2 DEF PlacesDiffer
  <2>5. PassedAreUp'
    BY <1>1, <1>2, <2>1, <2>3 DEF PassedAreUp, TypeOK
  <2>6. OneDriver' /\ UpArePending' /\ AdoptedRegistered'
    BY <1>1, <1>2 DEF OneDriver, Driving, UpArePending, AdoptedRegistered
  <2> QED BY <1>1, <1>2, <2>1, <2>2, <2>4, <2>5, <2>6
          DEF ServicesUpWhileRunning, ServicesDownWhenStopped
<1>4. ASSUME GrowTable(s), filled # Len(services) PROVE EngineInv'
  <2> DEFINE n == Len(services)
             at(x) == CHOOSE i \in 1 .. n : services[i] = x
  <2>1. /\ slot' = [x \in Services |-> IF x = s THEN n + 1
                                       ELSE IF x \in ToSet(services) THEN at(x) ELSE 0]
        /\ filled' = n + 1 /\ room' \in Int
        /\ rebuilt' = (rebuilt \/ \E t \in Tasks : pc[t] = "start_service")
    <3>1. room' \in Int
      <4>1. PICK places \in 8 .. 6 * n + 8 : room' = (2 * places) \div 3 - n - 1
        BY <1>4 DEF GrowTable
      <4> QED BY <1>2, <4>1
    <3> QED BY <1>4, <3>1 DEF GrowTable
  <2>2. \A x \in ToSet(services) : at(x) \in 1 .. n /\ services[at(x)] = x
    <3>1. \A x \in ToSet(services) : \E i \in 1 .. n : services[i] = x
      BY <1>2 DEF ToSet
    <3> QED BY <3>1
  <2> HIDE DEF at
  <2>3. /\ slot'[s] = n + 1
        /\ \A x \in ToSet(services) : slot'[x] = at(x)
    BY <1>2, <2>1
  <2>4. slot' \in [Services -> Nat]
    BY <1>2, <2>1, <2>2
  <2>5. TypeOK'
    BY <1>1, <1>2, <2>1, <2>4 DEF TypeOK
  <2>6. PlacesDiffer'
    <3>1. \A x \in ToSet(services') : slot'[x] \in 1 .. filled'
      BY <1>2, <2>1, <2>2, <2>3
    <3>2. \A x, y \in ToSet(services') : slot'[x] = slot'[y] => x = y
      <4> SUFFICES ASSUME NEW x \in ToSet(services'), NEW y \in ToSet(services'),
                          slot'[x] = slot'[y]
                   PROVE  x = y
        OBVIOUS
      <4>1. CASE x = s \/ y = s
        BY <1>2, <2>2, <2>3, <4>1
      <4>2. CASE x # s /\ y # s
        BY <1>2, <2>2, <2>3, <4>2
      <4> QED BY <4>1, <4>2
    <3> QED BY <3>1, <3>2 DEF PlacesDiffer
  <2>7. PassedAreUp'
    BY <1>1, <2>1 DEF PassedAreUp
  <2>8. OneDriver' /\ UpArePending' /\ AdoptedRegistered'
    BY <1>1, <1>2 DEF OneDriver, Driving, UpArePending, AdoptedRegistered
  <2> QED BY <1>1, <1>2, <2>1, <2>5, <2>6, <2>7, <2>8
          DEF ServicesUpWhileRunning, ServicesDownWhenStopped
<1>5. ASSUME GrowTable(s), filled = Len(services) PROVE EngineInv'
  <2>1. room' \in Int
    <3>1. PICK places \in 8 .. 6 * Len(services) + 8 :
              room' = (2 * places) \div 3 - Len(services) - 1
      BY <1>5 DEF GrowTable
    <3> QED BY <1>2, <3>1
  <2> QED BY <1>3, <1>5, <2>1 DEF GrowTable
<1> QED BY <1>3, <1>4, <1>5 DEF RegisterService

\* unregister_service(): the entries that stay keep their order.
LEMMA Removed ==
    ASSUME EngineInv, NEW s \in Services, NEW x \in DOMAIN services,
           services[x] = s, services' = RemoveAt(services, x)
    PROVE  /\ services' \in Seq(Services)
           /\ RegisteredOnce'
           /\ ToSet(services') = ToSet(services) \ {s}
           /\ \A k, l \in DOMAIN services' : \E a, b \in DOMAIN services :
                 /\ services'[k] = services[a]
                 /\ services'[l] = services[b]
                 /\ k < l <=> a < b
                 /\ k = l <=> a = b
<1> USE DEF EngineInv
<1>1. services \in Seq(Services) /\ x \in 1..Len(services) /\ DOMAIN services = 1..Len(services)
  BY DEF TypeOK
<1>2. /\ services' \in Seq(Services)
      /\ Len(services') = Len(services) - 1
      /\ \A j \in 1..(x - 1) : services'[j] = services[j]
      /\ \A j \in (x + 1)..Len(services) : services'[j - 1] = services[j]
  BY <1>1, RemoveAtIs
<1>3. \A k, l \in DOMAIN services' : \E a, b \in DOMAIN services :
          /\ services'[k] = services[a]
          /\ services'[l] = services[b]
          /\ k < l <=> a < b
          /\ k = l <=> a = b
  <2> SUFFICES ASSUME NEW k \in DOMAIN services', NEW l \in DOMAIN services'
               PROVE  \E a, b \in DOMAIN services :
                         /\ services'[k] = services[a]
                         /\ services'[l] = services[b]
                         /\ k < l <=> a < b
                         /\ k = l <=> a = b
    OBVIOUS
  <2>1. k \in 1..Len(RemoveAt(services, x)) /\ l \in 1..Len(RemoveAt(services, x))
    BY <1>2
  <2>2. \A m, n \in 1..Len(RemoveAt(services, x)) : \E a, b \in 1..Len(services) :
            /\ RemoveAt(services, x)[m] = services[a]
            /\ RemoveAt(services, x)[n] = services[b]
            /\ m < n <=> a < b
            /\ m = n <=> a = b
    BY <1>1, RemoveAtOrder, ZenonT(40)
  <2>3. PICK a, b \in 1..Len(services) :
            /\ RemoveAt(services, x)[k] = services[a]
            /\ RemoveAt(services, x)[l] = services[b]
            /\ k < l <=> a < b
            /\ k = l <=> a = b
    BY <2>1, <2>2, Zenon
  <2> QED BY <1>1, <2>3
<1>4. RegisteredOnce'
  BY <1>3 DEF RegisteredOnce
<1>5. ASSUME NEW y \in ToSet(services) \ {s} PROVE y \in ToSet(services')
  <2>1. PICK j \in 1..Len(services) : services[j] = y
    BY <1>1 DEF ToSet
  <2>2. CASE j < x
    <3>1. j \in 1..Len(services') /\ services'[j] = y
      BY <1>1, <1>2, <2>1, <2>2
    <3> QED BY <1>2, <3>1 DEF ToSet
  <2>3. CASE j > x
    <3>1. j \in (x + 1)..Len(services) /\ j - 1 \in 1..Len(services')
      BY <1>1, <1>2, <2>1, <2>3
    <3>2. services'[j - 1] = y
      BY <1>2, <2>1, <3>1
    <3> QED BY <1>2, <3>1, <3>2 DEF ToSet
  <2> QED BY <1>1, <1>5, <2>1, <2>2, <2>3
<1>6. ASSUME NEW y \in ToSet(services') PROVE y \in ToSet(services) \ {s}
  <2>1. PICK k \in 1..Len(services') : services'[k] = y
    BY <1>2 DEF ToSet
  <2>2. CASE k < x
    <3>1. services[k] = y /\ k \in 1..Len(services) /\ k # x
      BY <1>1, <1>2, <2>1, <2>2
    <3> QED BY <1>1, <3>1 DEF ToSet, RegisteredOnce
  <2>3. CASE ~(k < x)
    <3>1. k + 1 \in (x + 1)..Len(services) /\ (k + 1) - 1 = k /\ k + 1 # x
      BY <1>1, <1>2, <2>1, <2>3
    <3>2. services[k + 1] = y /\ k + 1 \in 1..Len(services)
      BY <1>1, <1>2, <2>1, <3>1
    <3> QED BY <1>1, <3>1, <3>2 DEF ToSet, RegisteredOnce
  <2> QED BY <2>2, <2>3
<1> QED BY <1>2, <1>3, <1>4, <1>5, <1>6

\* unregister_service(): only the removed service is given up.
LEMMA UnregisterStep ==
    ASSUME EngineInv, NEW s \in Services, UnregisterService(s)
    PROVE  EngineInv'
<1> USE DEF EngineInv, UnregisterService, iterators
<1>1. PICK i \in DOMAIN services : services[i] = s /\ services' = RemoveAt(services, i)
  OBVIOUS
<1>2. /\ services' \in Seq(Services) /\ RegisteredOnce'
      /\ ToSet(services') = ToSet(services) \ {s}
      /\ ToSet(services) \subseteq Services
  <2>1. ToSet(services) \subseteq Services
    BY DEF TypeOK, ToSet
  <2> QED BY <1>1, <2>1, Removed
<1>3. TypeOK'
  BY <1>2 DEF TypeOK
<1>4. \A x \in ToSet(services') : slot'[x] = slot[x]
  BY <1>2 DEF TypeOK
<1>5. PlacesDiffer' /\ PassedAreUp'
  BY <1>2, <1>4 DEF PlacesDiffer, PassedAreUp
<1>6. OneDriver'
  BY DEF OneDriver, Driving
<1>7. UpArePending' /\ AdoptedRegistered'
  BY <1>2 DEF UpArePending, AdoptedRegistered
<1> QED BY <1>2, <1>3, <1>5, <1>6, <1>7 DEF ServicesUpWhileRunning, ServicesDownWhenStopped

\* Every step preserves the invariant.
LEMMA StepInv == EngineInv /\ [Next]_vars => EngineInv'
<1> SUFFICES ASSUME EngineInv, [Next]_vars PROVE EngineInv'
  OBVIOUS
<1> USE DEF EngineInv
<1>1. ASSUME NEW t \in Tasks, Start(t) PROVE EngineInv'
  <2>1. state \notin Transient /\ adopted' \subseteq adopted
    BY <1>1 DEF Start, STARTABLE, Transient
  <2> QED BY <1>1, <2>1, TransitionStep DEF Start, Transient
<1>2. ASSUME NEW t \in Tasks, InitializingPublished(t) PROVE EngineInv'
  <2>1. (Driving(t) \/ state \notin Transient) /\ "starting" \in Transient
    BY <1>2 DEF InitializingPublished, Driving, Transient
  <2>2. /\ EnterOrFail(t, "starting", "starting")
        /\ UNCHANGED <<registry, up, iterators>> /\ adopted' \subseteq adopted
        /\ rebuilt' = rebuilt \/ (rebuilt' = FALSE /\ state \notin Transient)
        /\ abandoned' = abandoned
    BY <1>2 DEF InitializingPublished, auxiliary
  <2> QED BY <2>1, <2>2, TransitionStep
<1>3. ASSUME NEW t \in Tasks, StartServices(t) PROVE EngineInv'
  <2>1. Len(services) \in Nat /\ up' \in [Services -> BOOLEAN]
    BY <1>3 DEF StartServices, TypeOK
  <2>2. StartLoop(t, 0, Len(services), Len(services))
    BY <1>3 DEF StartServices
  <2>3. 0 <= filled /\ \A s \in ToSet(services) : slot[s] <= 0 => up'[s]
    BY <1>3 DEF PlacesDiffer, TypeOK
  <2> QED BY <1>3, <2>1, <2>2, <2>3, StartLoopStep DEF StartServices, StartLabels
<1>4. ASSUME NEW t \in Tasks, ServiceStarted(t) PROVE EngineInv'
  <2>1. /\ position[t] \in Nat /\ size[t] \in Nat /\ expected[t] \in Int
        /\ up' \in [Services -> BOOLEAN]
    BY <1>4 DEF ServiceStarted, TypeOK
  <2>2. ~rebuilt => /\ position[t] <= filled
                    /\ \A s \in ToSet(services) : slot[s] <= position[t] => up'[s]
    BY <1>4 DEF ServiceStarted, PassedAreUp, TypeOK, ToSet
  <2> QED BY <1>4, <2>1, <2>2, StartLoopStep DEF ServiceStarted, StartLabels
<1>5. ASSUME NEW t \in Tasks, ServiceStartRaised(t) PROVE EngineInv'
  <2>1. OthersKept(t) /\ LocalsTyped
    BY <1>5, DroppedIterator DEF ServiceStartRaised
  <2> QED BY <1>5, <2>1, FailStep DEF ServiceStartRaised, Driving, StartLabels, TypeOK
<1>6. ASSUME NEW t \in Tasks, Stop(t) PROVE EngineInv'
  BY <1>6, TransitionStep DEF Stop, Transient, auxiliary
<1>7. ASSUME NEW t \in Tasks, StopServices(t) PROVE EngineInv'
  <2>1. StopSnapshot \in Seq(Services) /\ ToSet(StopSnapshot) = ToSet(services)
    BY ReverseSet DEF StopSnapshot, TypeOK
  <2>2. up' \in [Services -> BOOLEAN]
    BY <1>7 DEF StopServices, TypeOK
  <2>3. \A s \in adopted : s \in ToSet(StopSnapshot)
    BY <2>1 DEF AdoptedRegistered
  <2> QED BY <1>7, <2>1, <2>2, <2>3, StopLoopStep DEF StopServices, StopLabels
<1>8. ASSUME NEW t \in Tasks, ServiceStopped(t) PROVE EngineInv'
  <2> DEFINE list == todo[t]
  <2>1. list \in Seq(Services) /\ list # <<>>
    BY <1>8 DEF ServiceStopped, UpArePending, TypeOK
  <2>2. Tail(list) \in Seq(Services) /\ Head(list) \in Services
    BY <2>1
  <2>3. \A s \in ToSet(list) : s = Head(list) \/ s \in ToSet(Tail(list))
    <3> SUFFICES ASSUME NEW i \in 1..Len(list), i # 1
                 PROVE  list[i] \in ToSet(Tail(list))
      BY <2>1 DEF ToSet
    <3>1. i - 1 \in DOMAIN Tail(list) /\ Tail(list)[i - 1] = list[i]
      BY <2>1
    <3> QED BY <3>1 DEF ToSet
  <2>4. up' \in [Services -> BOOLEAN]
    BY <1>8, <2>2 DEF ServiceStopped, TypeOK
  <2>5. \A s \in adopted : up'[s] => s \in ToSet(Tail(list))
    BY <1>8, <2>2, <2>3 DEF ServiceStopped, UpArePending, TypeOK
  <2> QED BY <1>8, <2>2, <2>4, <2>5, StopLoopStep DEF ServiceStopped, StopLabels
<1>9. ASSUME NEW t \in Tasks, ServiceStopRaised(t) PROVE EngineInv'
  <2>1. <<>> \in Seq(Services)
    OBVIOUS
  <2>2. OthersKept(t) /\ LocalsTyped
    BY <1>9, <2>1 DEF ServiceStopRaised, OthersKept, LocalsTyped, TypeOK
  <2> QED BY <1>9, <2>2, FailStep DEF ServiceStopRaised, Driving, StopLabels, TypeOK
<1>10. ASSUME NEW t \in Tasks, Pause(t) \/ Resume(t) PROVE EngineInv'
  BY <1>10, PauseResumeStep DEF Pause, Resume
<1>11. ASSUME NEW t \in Tasks, Notified(t) \/ Cancel(t) PROVE EngineInv'
  <2>1. abandoned' \in BOOLEAN
    BY <1>11 DEF Notified, Cancel, TypeOK
  <2> QED BY <1>11, <2>1, ReturnStep DEF Notified, Cancel
<1>12. ASSUME NEW s \in Services, RegisterService(s) \/ UnregisterService(s)
       PROVE  EngineInv'
  BY <1>12, RegisterStep, UnregisterStep
<1>13. ASSUME UNCHANGED vars PROVE EngineInv'
  BY <1>13 DEF vars, registry, table, iterators, auxiliary, TypeOK, RegisteredOnce,
               PlacesDiffer, OneDriver, Driving, PassedAreUp, UpArePending,
               AdoptedRegistered, ServicesUpWhileRunning, ServicesDownWhenStopped
<1> QED
  BY <1>1, <1>2, <1>3, <1>4, <1>5, <1>6, <1>7, <1>8, <1>9, <1>10, <1>11, <1>12, <1>13
  DEF Next, Progress

\* The invariant holds in every behaviour of the engine.
THEOREM EngineInvariant == Spec => []EngineInv
BY InitInv, StepInv, PTL DEF Spec

\* At most one start() or stop() drives the engine, from the state it left.
THEOREM OneDriverAlways == Spec => []OneDriver
<1>1. EngineInv => OneDriver
  BY DEF EngineInv
<1> QED BY <1>1, EngineInvariant, PTL

\* While the engine runs or is paused, the services it started are up.
THEOREM RunningServicesUp == Spec => []ServicesUpWhileRunning
<1>1. EngineInv => ServicesUpWhileRunning
  BY DEF EngineInv
<1> QED BY <1>1, EngineInvariant, PTL

\* Once the engine has stopped, the services it started are down.
THEOREM StoppedServicesDown == Spec => []ServicesDownWhenStopped
<1>1. EngineInv => ServicesDownWhenStopped
  BY DEF EngineInv
<1> QED BY <1>1, EngineInvariant, PTL

\* Every variable stays in its type.
THEOREM TypeCorrect == Spec => []TypeOK
<1>1. EngineInv => TypeOK
  BY DEF EngineInv
<1> QED BY <1>1, EngineInvariant, PTL

-----------------------------------------------------------------------------
(* Reverse shutdown.                                                        *)

\* A step after which no task is in stop_services() and the engine is not
\* stopping, with the registry as it was.
LEMMA NotStoppingStep ==
    ASSUME ShutdownInv, services' = services,
           \A u \in Tasks : pc'[u] # "stop_service", state' # "stopping"
    PROVE  ShutdownInv'
BY DEF ShutdownInv, StopListReversed, ReverseShutdown

\* A step that leaves the registry, what is up and the list of stop_services()
\* alone: also one with which the engine begins to stop, with everything up.
LEMMA QuietStep ==
    ASSUME EngineInv, ShutdownInv, UNCHANGED <<services, up>>,
           \A u \in Tasks : pc'[u] = "stop_service" =>
               pc[u] = "stop_service" /\ todo'[u] = todo[u],
           adopted' \subseteq adopted,
           state' = "stopping" =>
               rebuilt' = rebuilt /\ state \in {"running", "paused", "stopping"}
    PROVE  ShutdownInv'
<1>1. StopListReversed'
  BY DEF ShutdownInv, StopListReversed
<1>2. ReverseShutdown'
  <2>1. CASE state = "stopping"
    BY <2>1 DEF ShutdownInv, ReverseShutdown
  <2>2. CASE state \in {"running", "paused"}
    BY <2>2 DEF EngineInv, ServicesUpWhileRunning, ReverseShutdown
  <2>3. CASE state' # "stopping"
    BY <2>3 DEF ReverseShutdown
  <2> QED BY <2>1, <2>2, <2>3
<1> QED BY <1>1, <1>2 DEF ShutdownInv

\* The service at the head of the list goes down: whatever was registered after
\* it is not on the list any more, so it is down already.
LEMMA HeadStopped ==
    ASSUME EngineInv, ShutdownInv, NEW t \in Tasks, pc[t] = "stop_service",
           UNCHANGED <<services, adopted, rebuilt>>,
           up' = [up EXCEPT ![Head(todo[t])] = FALSE]
    PROVE  ReverseShutdown'
<1> USE DEF EngineInv, ShutdownInv
<1> SUFFICES ASSUME ~rebuilt,
                    NEW i \in DOMAIN services, NEW j \in DOMAIN services, i < j,
                    services[i] \in adopted, services[j] \in adopted,
                    up'[services[j]]
             PROVE  up'[services[i]]
  BY DEF ReverseShutdown
<1>1. state = "stopping"
  BY DEF OneDriver, StopLabels
<1>2. todo[t] \in Seq(Services) /\ todo[t] # <<>>
  BY DEF TypeOK, UpArePending
<1>3. Head(todo[t]) = todo[t][1] /\ 1 \in DOMAIN todo[t] /\ Head(todo[t]) \in Services
  BY <1>2
<1>4. services[i] \in Services /\ services[j] \in Services /\ i \in Nat /\ j \in Nat
  BY DEF TypeOK
<1>5. up[services[j]] /\ services[j] # Head(todo[t])
  BY <1>3, <1>4 DEF TypeOK
<1>6. up[services[i]]
  BY <1>1, <1>5 DEF ReverseShutdown
<1>7. services[i] # Head(todo[t])
  <2> SUFFICES ASSUME services[i] = todo[t][1] PROVE FALSE
    BY <1>3
  <2>1. PICK b \in DOMAIN todo[t] : todo[t][b] = services[j]
    BY <1>5 DEF UpArePending, ToSet
  <2>2. b \in 1..Len(todo[t]) /\ b # 1
    BY <1>2, <1>3, <1>5, <2>1
  <2>3. 1 < b
    BY <1>2, <2>2
  <2>4. j < i
    BY <1>3, <2>1, <2>3 DEF StopListReversed
  <2> QED BY <1>4, <2>4
<1> QED BY <1>4, <1>6, <1>7 DEF TypeOK

\* The rest of the list after an iteration is in reverse order as the list was.
LEMMA TailReversed ==
    ASSUME EngineInv, ShutdownInv, NEW t \in Tasks, pc[t] = "stop_service",
           UNCHANGED <<services, adopted>>,
           todo' = [todo EXCEPT ![t] = Tail(todo[t])],
           \A u \in Tasks : pc'[u] = "stop_service" => u = t
    PROVE  StopListReversed'
<1> DEFINE list == todo[t]
           rest == Tail(list)
<1>1. list \in Seq(Services) /\ list # <<>>
  BY DEF EngineInv, TypeOK, UpArePending
<1>2. todo'[t] = rest
  BY DEF EngineInv, TypeOK
<1> HIDE DEF rest
<1> SUFFICES ASSUME NEW a \in DOMAIN rest, NEW b \in DOMAIN rest,
                    NEW i \in DOMAIN services, NEW j \in DOMAIN services,
                    a < b, {services[i], services[j]} \subseteq adopted,
                    services[i] = rest[a], services[j] = rest[b]
             PROVE  j < i
  BY <1>2 DEF StopListReversed
<1>3. /\ a + 1 \in DOMAIN list /\ b + 1 \in DOMAIN list /\ a + 1 < b + 1
      /\ rest[a] = list[a + 1] /\ rest[b] = list[b + 1]
  BY <1>1 DEF rest
<1> QED BY <1>3 DEF ShutdownInv, StopListReversed

\* The snapshot of stop_services() has every registered service in reverse order.
LEMMA SnapshotReversed ==
    ASSUME EngineInv, ShutdownInv, NEW t \in Tasks,
           UNCHANGED <<services, adopted>>,
           todo' = [todo EXCEPT ![t] = StopSnapshot],
           \A u \in Tasks : pc'[u] = "stop_service" => u = t
    PROVE  StopListReversed'
<1>1. services \in Seq(Services) /\ Len(services) \in Nat
  BY DEF EngineInv, TypeOK
<1>2. todo'[t] = Reverse(services)
  BY DEF EngineInv, TypeOK, StopSnapshot
<1>3. DOMAIN Reverse(services) = 1..Len(services) /\ DOMAIN services = 1..Len(services)
  BY <1>1 DEF Reverse
<1> SUFFICES ASSUME NEW a \in 1..Len(services), NEW b \in 1..Len(services),
                    NEW i \in 1..Len(services), NEW j \in 1..Len(services),
                    a < b, services[i] = Reverse(services)[a],
                    services[j] = Reverse(services)[b]
             PROVE  j < i
  BY <1>2, <1>3 DEF StopListReversed
<1>4. ASSUME NEW m \in 1..Len(services), NEW k \in 1..Len(services),
             services[k] = Reverse(services)[m]
      PROVE  k = Len(services) - m + 1
  <2>1. /\ Reverse(services)[m] = services[Len(services) - m + 1]
        /\ Len(services) - m + 1 \in 1..Len(services)
    BY <1>1 DEF Reverse
  <2> QED BY <1>3, <1>4, <2>1 DEF EngineInv, RegisteredOnce
<1>5. i = Len(services) - a + 1 /\ j = Len(services) - b + 1
  BY <1>4
<1> QED BY <1>1, <1>5

\* register_service(): a new entry goes to the end, and is not yet to be stopped.
LEMMA RegisterShutdown ==
    ASSUME EngineInv, ShutdownInv, NEW s \in Services, RegisterService(s)
    PROVE  ShutdownInv'
<1> USE DEF EngineInv, ShutdownInv, iterators
<1>1. UNCHANGED <<state, up, pc, todo, adopted>> /\ s \notin adopted
  BY DEF RegisterService, AdoptedRegistered
<1>2. /\ DOMAIN services = 1..Len(services)
      /\ DOMAIN services' = 1..(Len(services) + 1)
      /\ \A k \in DOMAIN services : services'[k] = services[k]
      /\ services'[Len(services) + 1] = s
      /\ Len(services) \in Nat
  BY Appended DEF RegisterService
<1>3. \A k \in DOMAIN services' : services'[k] \in adopted' =>
          k \in DOMAIN services /\ services'[k] = services[k]
  BY <1>1, <1>2
<1>4. StopListReversed'
  BY <1>1, <1>3 DEF StopListReversed
<1>5. state = "stopping" /\ ~rebuilt' => ~rebuilt
  BY DEF RegisterService, GrowTable, UseRoom
<1>6. ReverseShutdown'
  BY <1>1, <1>3, <1>5 DEF ReverseShutdown
<1> QED BY <1>4, <1>6

\* unregister_service(): the entries that stay keep their order.
LEMMA UnregisterShutdown ==
    ASSUME EngineInv, ShutdownInv, NEW s \in Services, UnregisterService(s)
    PROVE  ShutdownInv'
<1> USE DEF ShutdownInv
<1>1. UNCHANGED <<state, up, pc, todo, rebuilt>> /\ adopted' \subseteq adopted
  BY DEF UnregisterService, iterators
<1>2. \A k, l \in DOMAIN services' : \E a, b \in DOMAIN services :
          /\ services'[k] = services[a]
          /\ services'[l] = services[b]
          /\ k < l <=> a < b
          /\ k = l <=> a = b
  <2>1. PICK x \in DOMAIN services : services[x] = s /\ services' = RemoveAt(services, x)
    BY DEF UnregisterService
  <2> QED BY <2>1, Removed
<1>3. StopListReversed'
  <2> SUFFICES ASSUME NEW t \in Tasks, pc[t] = "stop_service",
                      NEW a \in DOMAIN todo[t], NEW b \in DOMAIN todo[t],
                      NEW i \in DOMAIN services', NEW j \in DOMAIN services',
                      a < b, {services'[i], services'[j]} \subseteq adopted',
                      services'[i] = todo[t][a], services'[j] = todo[t][b]
               PROVE  j < i
    BY <1>1 DEF StopListReversed
  <2>1. PICK d, c \in DOMAIN services :
            services'[j] = services[d] /\ services'[i] = services[c] /\ (j < i <=> d < c)
    BY <1>2
  <2>2. {services[c], services[d]} \subseteq adopted
    BY <1>1, <2>1
  <2>3. d < c
    BY <2>1, <2>2 DEF StopListReversed
  <2> QED BY <2>1, <2>3
<1>4. ReverseShutdown'
  <2> SUFFICES ASSUME state = "stopping", ~rebuilt,
                      NEW i \in DOMAIN services', NEW j \in DOMAIN services', i < j,
                      {services'[i], services'[j]} \subseteq adopted', up[services'[j]]
               PROVE  up[services'[i]]
    BY <1>1 DEF ReverseShutdown
  <2>1. PICK c, d \in DOMAIN services :
            services'[i] = services[c] /\ services'[j] = services[d] /\ (i < j <=> c < d)
    BY <1>2
  <2> QED BY <1>1, <2>1 DEF ReverseShutdown
<1> QED BY <1>3, <1>4

\* Every step preserves ShutdownInv.
LEMMA ShutdownStep == EngineInv /\ ShutdownInv /\ [Next]_vars => ShutdownInv'
<1> SUFFICES ASSUME EngineInv, ShutdownInv, [Next]_vars PROVE ShutdownInv'
  OBVIOUS
<1> USE DEF EngineInv, registry, table, auxiliary
<1>1. ASSUME NEW t \in Tasks, Start(t) \/ InitializingPublished(t) PROVE ShutdownInv'
  <2>1. \A u \in Tasks : pc'[u] = "stop_service" => pc[u] = "stop_service"
    BY <1>1 DEF Start, InitializingPublished, EnterOrFail, Fail, Goto, TypeOK
  <2> QED BY <1>1, <2>1, QuietStep
          DEF Start, InitializingPublished, EnterOrFail, Enter, Fail, iterators
<1>2. ASSUME NEW t \in Tasks, NEW place, NEW n, NEW m, StartLoop(t, place, n, m),
             pc[t] \in StartLabels, services' = services
      PROVE  ShutdownInv'
  <2>1. Driving(t) /\ state = "starting"
    BY <1>2 DEF OneDriver, Driving
  <2>2. state' # "stopping"
    BY <1>2, <2>1 DEF StartLoop, DictChanged, AwaitNextStart, EnterRunning, Fail
  <2>3. \A u \in Tasks : pc'[u] # "stop_service"
    <3>1. \A u \in Tasks \ {t} : pc[u] # "stop_service"
      BY <2>1, Alone DEF Driving, StopLabels
    <3>2. pc' = [pc EXCEPT ![t] = "notify"] \/ pc' = [pc EXCEPT ![t] = "start_service"]
      BY <1>2 DEF StartLoop, DictChanged, AwaitNextStart, EnterRunning, Fail, Goto
    <3> QED BY <3>1, <3>2 DEF TypeOK
  <2> QED BY <1>2, <2>2, <2>3, NotStoppingStep
<1>3. ASSUME NEW t \in Tasks, StartServices(t) \/ ServiceStarted(t) PROVE ShutdownInv'
  BY <1>2, <1>3 DEF StartServices, ServiceStarted, StartLabels
<1>4. ASSUME NEW t \in Tasks, ServiceStartRaised(t) \/ ServiceStopRaised(t)
      PROVE  ShutdownInv'
  <2>1. \A u \in Tasks : pc'[u] = "stop_service" =>
            pc[u] = "stop_service" /\ todo'[u] = todo[u]
    BY <1>4 DEF ServiceStartRaised, ServiceStopRaised, Fail, Goto, TypeOK
  <2> QED BY <1>4, <2>1, QuietStep
          DEF ServiceStartRaised, ServiceStopRaised, Fail, iterators
<1>5. ASSUME NEW t \in Tasks, Stop(t) \/ Pause(t) \/ Resume(t) PROVE ShutdownInv'
  <2>1. \A u \in Tasks : pc'[u] = "stop_service" => pc[u] = "stop_service"
    BY <1>5 DEF Stop, Pause, Resume, EnterOrFail, Fail, Goto, TypeOK
  <2> QED BY <1>5, <2>1, QuietStep DEF Stop, Pause, Resume, iterators
<1>6. ASSUME NEW t \in Tasks, NEW rest, StopLoop(t, rest), pc[t] \in StopLabels
      PROVE  /\ state' # "stopping" \/ state' = state
             /\ todo' = [todo EXCEPT ![t] = rest]
             /\ \A u \in Tasks : pc'[u] = "stop_service" => u = t
  <2>1. Driving(t)
    BY <1>6 DEF Driving
  <2>2. \A u \in Tasks \ {t} : pc[u] # "stop_service"
    BY <2>1, Alone DEF Driving, StopLabels
  <2>3. \E label : pc' = [pc EXCEPT ![t] = label]
    BY <1>6 DEF StopLoop, EnterOrFail, Fail, Goto
  <2> QED BY <1>6, <2>2, <2>3 DEF TypeOK, StopLoop, EnterOrFail, Enter, Fail
<1>7. ASSUME NEW t \in Tasks, StopServices(t) PROVE ShutdownInv'
  <2>1. /\ state' # "stopping" \/ state' = state
        /\ todo' = [todo EXCEPT ![t] = StopSnapshot]
        /\ \A u \in Tasks : pc'[u] = "stop_service" => u = t
        /\ UNCHANGED <<services, up, adopted, rebuilt>>
    BY <1>6, <1>7 DEF StopServices, StopLabels
  <2>2. StopListReversed'
    BY <2>1, SnapshotReversed
  <2> QED BY <2>1, <2>2 DEF ShutdownInv, ReverseShutdown
<1>8. ASSUME NEW t \in Tasks, ServiceStopped(t) PROVE ShutdownInv'
  <2>1. /\ todo' = [todo EXCEPT ![t] = Tail(todo[t])]
        /\ \A u \in Tasks : pc'[u] = "stop_service" => u = t
        /\ UNCHANGED <<services, adopted>>
    BY <1>6, <1>8 DEF ServiceStopped, StopLabels
  <2>2. StopListReversed'
    BY <1>8, <2>1, TailReversed DEF ServiceStopped
  <2>3. ReverseShutdown'
    BY <1>8, HeadStopped DEF ServiceStopped
  <2> QED BY <2>1, <2>2, <2>3 DEF ShutdownInv
<1>9. ASSUME NEW t \in Tasks, Return(t), up' = up PROVE ShutdownInv'
  <2>1. \A u \in Tasks : pc'[u] = "stop_service" =>
            pc[u] = "stop_service" /\ todo'[u] = todo[u]
    BY <1>9 DEF Return, Goto, TypeOK
  <2> QED BY <1>9, <2>1, QuietStep DEF Return, OneDriver
<1>10. ASSUME NEW t \in Tasks, Cancel(t), up' # up PROVE ShutdownInv'
  <2>1. Driving(t) /\ pc[t] \in {"start_service", "stop_service"}
    BY <1>10 DEF Cancel, Driving, StartLabels, StopLabels
  <2>2. \A u \in Tasks : pc'[u] # "stop_service"
    BY <1>10, <2>1, Alone DEF Cancel, Return, Goto, TypeOK, Driving, StopLabels
  <2>3. CASE pc[t] = "start_service"
    <3>1. state' # "stopping"
      BY <1>10, <2>3 DEF Cancel, Return, OneDriver, StartLabels
    <3> QED BY <1>10, <2>2, <3>1, NotStoppingStep DEF Cancel, Return
  <2>4. CASE pc[t] = "stop_service"
    <3>1. ReverseShutdown'
      BY <1>10, <2>4, HeadStopped DEF Cancel, Return
    <3> QED BY <1>10, <2>2, <3>1
            DEF Cancel, Return, ShutdownInv, StopListReversed
  <2> QED BY <2>1, <2>3, <2>4
<1>11. ASSUME NEW s \in Services, RegisterService(s) \/ UnregisterService(s)
       PROVE  ShutdownInv'
  BY <1>11, RegisterShutdown, UnregisterShutdown
<1>12. ASSUME UNCHANGED vars PROVE ShutdownInv'
  BY <1>12 DEF vars, iterators, ShutdownInv, StopListReversed, ReverseShutdown
<1> QED
  BY <1>1, <1>3, <1>4, <1>5, <1>7, <1>8, <1>9, <1>10, <1>11, <1>12
  DEF Next, Progress, Notified, Cancel

\* Services are stopped in the reverse of the order they were registered in,
\* even if services come and go, or the call is cancelled, while they are.
THEOREM ReverseShutdownAlways == Spec => []ReverseShutdown
<1>1. Init => ShutdownInv
  BY DEF Init, ShutdownInv, StopListReversed, ReverseShutdown
<1>2. ShutdownInv => ReverseShutdown
  BY DEF ShutdownInv
<1> QED BY <1>1, <1>2, EngineInvariant, ShutdownStep, PTL DEF Spec
=============================================================================
