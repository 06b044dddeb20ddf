--------------------------- MODULE TradingEngine ---------------------------
(***************************************************************************)
(* The trading engine's lifecycle: TradingEngine (trading/engine.py), the   *)
(* LifecycleManager state machine (trading/lifecycle.py, trading/state.py)  *)
(* and the service registry of TradingCoordinator (trading/coordinator.py). *)
(*                                                                         *)
(* The engine's methods are coroutines of one event loop.  The code between *)
(* two awaits is one atomic step of the calling task, so every action below *)
(* runs from one await to the next and pc[t] says at which await the task t *)
(* is suspended:                                                           *)
(*    "idle"          no engine call is in progress                        *)
(*    "initializing"  start(), publishing EngineInitializing               *)
(*    "starting"      start(), publishing EngineStarting                   *)
(*    "start_service" start(), inside start_services(), awaiting cur[t]    *)
(*    "stopping"      stop(), publishing EngineStopping                    *)
(*    "stop_service"  stop(), inside stop_services(), awaiting todo[t][1]  *)
(*    "notify"        any call, publishing its last event                  *)
(* Publishing never raises (EventBus gathers handlers with                 *)
(* return_exceptions=True).  A call the engine refuses (start() of a       *)
(* running engine, ...) raises before it touches any state: it is a        *)
(* stuttering step.                                                        *)
(*                                                                         *)
(* start_services() iterates over the live dict of services, so what it     *)
(* meets after an await depends on how CPython lays a dict out: a table of  *)
(* entries in insertion order, in which a deletion leaves a hole, and which *)
(* is built anew, without its holes, when an insertion finds it full.  The  *)
(* iterator keeps a position in that table, the size of the dict when the   *)
(* loop began and the number of entries it still expects.                   *)
(***************************************************************************)
EXTENDS Integers, SequencesExt

CONSTANTS
    Tasks,        \* the asyncio tasks that call the engine
    Services      \* the names register_service() may be called with

None == "none"

ASSUME ConstantsAssumption == None \notin Services

VARIABLES
    state,     \* LifecycleManager._state
    runtime,   \* TradingEngine._runtime's copy of the state (its timestamps,
               \* counters and last error are left out)
    services,  \* TradingCoordinator._services, a dict: names in insertion order
    slot,      \* the place of each name in the dict's entry table, 0 if it has none
    filled,    \* the places of that table in use, by entries or by holes
    room,      \* the places an insertion can still take
    up,        \* is the service running? (owned by the service itself)
    pc,        \* the await at which each task is suspended
    cur,       \* the service whose start() the task awaits, or None
    position,  \* the last place of the table start_services()'s iterator has passed
    expected,  \* the entries that iterator has still to find
    size,      \* the dict size that iterator remembers
    todo,      \* stop_services()'s remaining list of services
    adopted,   \* auxiliary: registered ever since start() entered RUNNING
    rebuilt,   \* auxiliary: was the table compacted under start_services()'s iterator?
    abandoned  \* auxiliary: was a call cancelled while it drove the engine?

table == <<slot, filled, room>>
registry == <<services, table>>
iterators == <<cur, position, expected, size, todo>>
auxiliary == <<adopted, rebuilt, abandoned>>
vars == <<state, runtime, registry, up, pc, iterators, auxiliary>>

EngineStates == {"created", "initializing", "starting", "running", "paused",
                 "stopping", "stopped", "failed"}

VALID_TRANSITIONS ==
    [created      |-> {"initializing"},
     initializing |-> {"starting", "failed"},
     starting     |-> {"running", "failed"},
     running      |-> {"paused", "stopping", "failed"},
     paused       |-> {"running", "stopping", "failed"},
     stopping     |-> {"stopped", "failed"},
     stopped      |-> {"initializing"},
     failed       |-> {"initializing"}]

can_transition(source, target) == target \in VALID_TRANSITIONS[source]

STARTABLE == {"created", "stopped", "failed"}

Goto(t, label) == pc' = [pc EXCEPT ![t] = label]

-----------------------------------------------------------------------------
(* _enter(), _fail() and the loops of the coordinator.                      *)

\* _enter(target): the lifecycle and its mirror in the runtime state.
Enter(target) ==
    /\ can_transition(state, target)
    /\ state' = target
    /\ runtime' = target

\* Mutant of Fail: the runtime is told, but lifecycle.fail() is not called.
Mutant_FailWithoutTransition(t) ==
    /\ runtime' = "failed"
    /\ Goto(t, "notify")
    /\ UNCHANGED state

\* _fail(exc): FAILED from any state, EngineFailed published.
Fail(t) ==
    /\ state' = "failed"
    /\ runtime' = "failed"
    /\ Goto(t, "notify")

\* An _enter() that raises LifecycleTransitionError ends in the except clause.
EnterOrFail(t, target, label) ==
    \/ Enter(target) /\ Goto(t, label)
    \/ ~can_transition(state, target) /\ Fail(t)

\* The loop is over, and its iterator with it.
DropIterator(t) ==
    /\ cur' = [cur EXCEPT ![t] = None]
    /\ position' = [position EXCEPT ![t] = 0]
    /\ expected' = [expected EXCEPT ![t] = 0]
    /\ size' = [size EXCEPT ![t] = 0]

\* The registered services the iterator at this place of the table has not met.
Unvisited(place) == {s \in ToSet(services) : slot[s] > place}

\* One step of CPython's dict iterator at a place of the table, in a dict that had n
\* entries and of which it expects m more.  It raises RuntimeError when the dict has
\* another size, or when it finds an entry although it expects none; otherwise it
\* goes to the next entry, or is exhausted, and start() marks the start and enters
\* RUNNING.
DictChanged(t, place, n, m) ==
    /\ Len(services) # n \/ (m = 0 /\ Unvisited(place) # {})
    /\ Fail(t)
    /\ DropIterator(t)
    /\ UNCHANGED adopted

AwaitNextStart(t, place, n, m) ==
    /\ Len(services) = n
    /\ m # 0
    /\ \E s \in Unvisited(place) :
          /\ \A other \in Unvisited(place) : slot[s] <= slot[other]
          /\ cur' = [cur EXCEPT ![t] = s]
          /\ position' = [position EXCEPT ![t] = slot[s]]
    /\ expected' = [expected EXCEPT ![t] = m - 1]
    /\ size' = [size EXCEPT ![t] = n]
    /\ Goto(t, "start_service")
    /\ UNCHANGED <<state, runtime, adopted>>

EnterRunning(t, place, n) ==
    /\ Len(services) = n
    /\ Unvisited(place) = {}
    /\ \/ /\ can_transition(state, "running")
          /\ state' = "running"
          /\ runtime' = "running"
          /\ adopted' = ToSet(services)
          /\ Goto(t, "notify")
       \/ ~can_transition(state, "running") /\ Fail(t) /\ UNCHANGED adopted
    /\ DropIterator(t)

StartLoop(t, place, n, m) ==
    \/ DictChanged(t, place, n, m)
    \/ AwaitNextStart(t, place, n, m)
    \/ EnterRunning(t, place, n)

\* Mutant of StopSnapshot: the list is not reversed.
Mutant_StopInRegistrationOrder == services

\* list(self._services.items()), reversed.
StopSnapshot == Reverse(services)

StopLoop(t, rest) ==
    /\ todo' = [todo EXCEPT ![t] = rest]
    /\ \/ rest # <<>> /\ Goto(t, "stop_service") /\ UNCHANGED <<state, runtime>>
       \/ rest = <<>> /\ EnterOrFail(t, "stopped", "notify")

-----------------------------------------------------------------------------
\* Mutant of Start: the check of _STARTABLE is dropped.
Mutant_StartUnchecked(t) ==
    /\ pc[t] = "idle"
    /\ EnterOrFail(t, "initializing", "initializing")
    /\ UNCHANGED <<registry, up, iterators, auxiliary>>

\* Mutant of ServiceStartRaised: the loop logs the exception and goes on.
Mutant_StartErrorSwallowed(t) ==
    /\ pc[t] = "start_service"
    /\ StartLoop(t, position[t], size[t], expected[t])
    /\ UNCHANGED <<registry, up, todo, rebuilt, abandoned>>

\* Mutant of ServiceStopRaised: the loop gives up, but stop() completes.
Mutant_StopErrorSwallowed(t) ==
    /\ pc[t] = "stop_service"
    /\ StopLoop(t, <<>>)
    /\ UNCHANGED <<registry, up, cur, position, expected, size, auxiliary>>

(* start()                                                                  *)

Start(t) ==
    /\ pc[t] = "idle"
    /\ state \in STARTABLE
    /\ EnterOrFail(t, "initializing", "initializing")
    /\ adopted' = {}
    /\ rebuilt' = FALSE
    /\ UNCHANGED <<registry, up, iterators, abandoned>>

InitializingPublished(t) ==
    /\ pc[t] = "initializing"
    /\ EnterOrFail(t, "starting", "starting")
    /\ UNCHANGED <<registry, up, iterators, auxiliary>>

StartServices(t) ==
    /\ pc[t] = "starting"
    /\ StartLoop(t, 0, Len(services), Len(services))
    /\ UNCHANGED <<registry, up, todo, rebuilt, abandoned>>

ServiceStarted(t) ==
    /\ pc[t] = "start_service"
    /\ up' = [up EXCEPT ![cur[t]] = TRUE]
    /\ StartLoop(t, position[t], size[t], expected[t])
    /\ UNCHANGED <<registry, todo, rebuilt, abandoned>>

ServiceStartRaised(t) ==
    /\ pc[t] = "start_service"
    /\ Fail(t)
    /\ DropIterator(t)
    /\ UNCHANGED <<registry, up, todo, auxiliary>>

(* stop()                                                                   *)

Stop(t) ==
    /\ pc[t] = "idle"
    /\ state \in {"running", "paused"}
    /\ EnterOrFail(t, "stopping", "stopping")
    /\ UNCHANGED <<registry, up, iterators, auxiliary>>

StopServices(t) ==
    /\ pc[t] = "stopping"
    /\ StopLoop(t, StopSnapshot)
    /\ UNCHANGED <<registry, up, cur, position, expected, size, auxiliary>>

ServiceStopped(t) ==
    /\ pc[t] = "stop_service"
    /\ up' = [up EXCEPT ![Head(todo[t])] = FALSE]
    /\ StopLoop(t, Tail(todo[t]))
    /\ UNCHANGED <<registry, cur, position, expected, size, auxiliary>>

ServiceStopRaised(t) ==
    /\ pc[t] = "stop_service"
    /\ Fail(t)
    /\ todo' = [todo EXCEPT ![t] = <<>>]
    /\ UNCHANGED <<registry, up, cur, position, expected, size, auxiliary>>

(* pause(), resume()                                                        *)

Pause(t) ==
    /\ pc[t] = "idle"
    /\ state = "running"
    /\ Enter("paused")
    /\ Goto(t, "notify")
    /\ UNCHANGED <<registry, up, iterators, auxiliary>>

Resume(t) ==
    /\ pc[t] = "idle"
    /\ state = "paused"
    /\ Enter("running")
    /\ Goto(t, "notify")
    /\ UNCHANGED <<registry, up, iterators, auxiliary>>

\* The call is over, and with it the locals of the loop it may have run.
Return(t) ==
    /\ Goto(t, "idle")
    /\ DropIterator(t)
    /\ todo' = [todo EXCEPT ![t] = <<>>]
    /\ UNCHANGED <<state, runtime, registry, adopted, rebuilt>>

\* The call's last publish is done: the call returns, or re-raises after _fail().
Notified(t) == pc[t] = "notify" /\ Return(t) /\ UNCHANGED <<up, abandoned>>

\* asyncio cancels the task at its await.  CancelledError is a BaseException:
\* no except clause of the engine sees it, and the call just ends.  The awaited
\* service may or may not have taken effect.
Cancel(t) ==
    /\ pc[t] # "idle"
    /\ Return(t)
    /\ abandoned' = (abandoned \/ pc[t] # "notify")
    /\ \/ UNCHANGED up
       \/ pc[t] = "start_service" /\ up' = [up EXCEPT ![cur[t]] = TRUE]
       \/ pc[t] = "stop_service" /\ up' = [up EXCEPT ![Head(todo[t])] = FALSE]

(* register_service(), unregister_service(): insertion into and deletion    *)
(* from CPython's dict.                                                    *)

\* A full table of n entries gets the smallest power of two of places that is at
\* least 8 and 3n; two thirds of them are for entries.
TableSize(n, places) ==
    LET fits(p) == p >= 3 * n /\ \E k \in 3 .. n + 3 : p = 2 ^ k
    IN  fits(places) /\ \A p \in 8 .. places - 1 : ~fits(p)

\* A full table is copied as it is when it has no holes, else without them.
GrowTable(s) ==
    LET n == Len(services)
        place(x) == CHOOSE i \in 1 .. n : services[i] = x
    IN  /\ \E places \in 8 .. 6 * n + 8 :
              TableSize(n, places) /\ room' = (2 * places) \div 3 - n - 1
        /\ filled' = n + 1
        /\ IF filled = n
           THEN slot' = [slot EXCEPT ![s] = n + 1] /\ UNCHANGED rebuilt
           ELSE /\ slot' = [x \in Services |-> IF x = s THEN n + 1
                                              ELSE IF x \in ToSet(services) THEN place(x)
                                              ELSE 0]
                /\ rebuilt' = (rebuilt \/ \E t \in Tasks : pc[t] = "start_service")

UseRoom(s) ==
    /\ room' = room - 1
    /\ filled' = filled + 1
    /\ slot' = [slot EXCEPT ![s] = filled + 1]
    /\ UNCHANGED rebuilt

RegisterService(s) ==
    /\ s \notin ToSet(services)
    /\ services' = Append(services, s)
    /\ (room = 0 /\ GrowTable(s)) \/ (room # 0 /\ UseRoom(s))
    /\ UNCHANGED <<state, runtime, up, pc, iterators, adopted, abandoned>>

\* The entry becomes a hole: its place is not used again in this table.
UnregisterService(s) ==
    /\ \E i \in DOMAIN services :
          services[i] = s /\ services' = RemoveAt(services, i)
    /\ slot' = [slot EXCEPT ![s] = 0]
    /\ adopted' = adopted \ {s}
    /\ UNCHANGED <<state, runtime, filled, room, up, pc, iterators, rebuilt, abandoned>>

-----------------------------------------------------------------------------
Init ==
    /\ state = "created"
    /\ runtime = "created"
    /\ services = <<>>
    /\ slot = [s \in Services |-> 0]
    /\ filled = 0
    /\ room = 0
    /\ up = [s \in Services |-> FALSE]
    /\ pc = [t \in Tasks |-> "idle"]
    /\ cur = [t \in Tasks |-> None]
    /\ position = [t \in Tasks |-> 0]
    /\ expected = [t \in Tasks |-> 0]
    /\ size = [t \in Tasks |-> 0]
    /\ todo = [t \in Tasks |-> <<>>]
    /\ adopted = {}
    /\ rebuilt = FALSE
    /\ abandoned = FALSE

\* A step with which a task finishes what it awaits: the event loop's doing.
Progress(t) ==
    \/ InitializingPublished(t) \/ StartServices(t)
    \/ ServiceStarted(t) \/ ServiceStartRaised(t)
    \/ StopServices(t) \/ ServiceStopped(t) \/ ServiceStopRaised(t)
    \/ Notified(t)

Next ==
    \/ \E t \in Tasks :
          Start(t) \/ Stop(t) \/ Pause(t) \/ Resume(t) \/ Progress(t) \/ Cancel(t)
    \/ \E s \in Services : RegisterService(s) \/ UnregisterService(s)

Spec == Init /\ [][Next]_vars

\* The event loop resumes every task whose await is over, and publishing and the
\* services' start() and stop() return or raise in the end.
FairSpec == Spec /\ \A t \in Tasks : WF_vars(Progress(t))

-----------------------------------------------------------------------------
Labels == {"idle", "initializing", "starting", "start_service", "stopping",
           "stop_service", "notify"}

\* Every variable stays in its type.
TypeOK ==
    /\ state \in EngineStates
    /\ runtime \in EngineStates
    /\ services \in Seq(Services)
    /\ slot \in [Services -> Nat]
    /\ filled \in Nat
    /\ room \in Int
    /\ up \in [Services -> BOOLEAN]
    /\ pc \in [Tasks -> Labels]
    /\ cur \in [Tasks -> Services \union {None}]
    /\ position \in [Tasks -> Nat]
    /\ expected \in [Tasks -> Int]
    /\ size \in [Tasks -> Nat]
    /\ todo \in [Tasks -> Seq(Services)]
    /\ adopted \subseteq Services
    /\ rebuilt \in BOOLEAN
    /\ abandoned \in BOOLEAN

\* A task drives the engine while its start() or stop() is not over.
StartLabels == {"starting", "start_service"}
StopLabels == {"stopping", "stop_service"}
Driving(t) == pc[t] \in {"initializing"} \union StartLabels \union StopLabels
Transient == {"initializing", "starting", "stopping"}

\* start() and stop() check the state, then await many times before they leave
\* their transient state: in that window no other call moves the engine, so at
\* most one task drives it, it finds the state it left, and its next _enter() is
\* never refused with LifecycleTransitionError.
OneDriver ==
    /\ \A t \in Tasks :
          /\ pc[t] = "initializing" => state = "initializing"
          /\ pc[t] \in StartLabels => state = "starting"
          /\ pc[t] \in StopLabels => state = "stopping"
    /\ \A t, u \in Tasks : Driving(t) /\ Driving(u) => t = u

\* The registry is a dict: a name is in it once, each at a place of its own in the
\* part of the table that is in use.
RegisteredOnce ==
    \A i, j \in DOMAIN services : services[i] = services[j] => i = j

PlacesDiffer ==
    /\ \A s \in ToSet(services) : slot[s] \in 1 .. filled
    /\ \A s, other \in ToSet(services) : slot[s] = slot[other] => s = other

\* A place is not used twice in a table: so while start_services() runs, unless the
\* table is rebuilt under it, every registered service at a place its iterator has
\* passed is up, but for the one it awaits; and when the iterator is exhausted, all
\* are.
PassedAreUp ==
    \A t \in Tasks : pc[t] = "start_service" =>
        /\ cur[t] \in Services
        /\ ~rebuilt => position[t] <= filled
        /\ ~rebuilt => \A s \in ToSet(services) :
                          slot[s] <= position[t] => up[s] \/ s = cur[t]

\* While stop_services() runs, every service still up is on its list, even if
\* services are unregistered and registered again in the meantime.
UpArePending ==
    \A t \in Tasks : pc[t] = "stop_service" =>
        /\ todo[t] # <<>>
        /\ \A s \in adopted : up[s] => s \in ToSet(todo[t])

\* The coordinator still has every service it is to stop.
AdoptedRegistered == adopted \subseteq ToSet(services)

\* What start() returned normally for is true: while the engine is running or
\* paused, every service registered since it started is up, whatever was
\* registered, unregistered or failed to start in an earlier attempt or while
\* start_services() awaited a service.  The exception: a dict whose table was
\* compacted while it was iterated over.  The entries move to lower places, the
\* iterator does not, and with as many entries as before it ends without an error:
\* the services that moved below it are never started.
ServicesUpWhileRunning ==
    state \in {"running", "paused"} /\ ~rebuilt => \A s \in adopted : up[s]

\* A stopped engine has stopped every service it started and still coordinates.
ServicesDownWhenStopped == state = "stopped" => \A s \in adopted : ~up[s]

\* The inductive invariant behind the three properties above.
EngineInv ==
    /\ TypeOK
    /\ RegisteredOnce
    /\ PlacesDiffer
    /\ OneDriver
    /\ PassedAreUp
    /\ UpArePending
    /\ AdoptedRegistered
    /\ ServicesUpWhileRunning
    /\ ServicesDownWhenStopped

\* Services are stopped in reverse registration order: while the engine is
\* stopping, no service is down before one that was registered after it, unless
\* it was never started (see ServicesUpWhileRunning).
ReverseShutdown ==
    state = "stopping" /\ ~rebuilt =>
        \A i, j \in DOMAIN services :
            i < j /\ {services[i], services[j]} \subseteq adopted /\ up[services[j]]
                => up[services[i]]

\* While stop_services() runs, the services it still has to stop and that are
\* registered since the start stand in its list in the reverse of their order
\* in the registry, whatever was registered or unregistered since the snapshot.
StopListReversed ==
    \A t \in Tasks : pc[t] = "stop_service" =>
        \A a, b \in DOMAIN todo[t] : \A i, j \in DOMAIN services :
            /\ a < b
            /\ {services[i], services[j]} \subseteq adopted
            /\ services[i] = todo[t][a]
            /\ services[j] = todo[t][b]
            => j < i

\* What ReverseShutdown needs, beyond EngineInv, to be inductive.
ShutdownInv == StopListReversed /\ ReverseShutdown

\* Every start() and every stop() that is not cancelled comes to an end, and a
\* transient state is left with it, whatever services raise, come or go.
Settles == (state \in Transient) ~> (state \notin Transient \/ abandoned)

=============================================================================
