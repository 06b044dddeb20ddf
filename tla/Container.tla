------------------------------ MODULE Container ------------------------------
(***************************************************************************)
(* The dependency injection container (core/container.py, core/registry.py). *)
(* resolve() holds the container's re-entrant lock from its first lookup to  *)
(* its return and calls providers that resolve their own dependencies, so    *)
(* there is one stack of resolutions; a step of the model is one lookup, one *)
(* provider's return or the unwinding of one frame.  Registrations wait for  *)
(* the lock.                                                                 *)
(***************************************************************************)
EXTENDS Integers, SequencesExt

CONSTANTS
    Programs,    \* what a program may do: a registrar, which adds the EventBus or
                 \* not, and the keys it resolves next, provided that those of
                 \* onlyIf are registered
    MaxPrograms  \* bound: the programs run one after the other

VARIABLES
    registrations,  \* ServiceRegistry._registrations
    singletons,     \* _singletons: key -> object
    resolving,      \* _resolving
    stack,          \* the providers being called: their key and what they got
    answer,         \* what the resolve() that ended last returns or raises
    made,           \* the objects built; an object is its index
    wanted,         \* the keys the running program has still to resolve
    programs        \* programs run so far

container == <<registrations, singletons, resolving, stack, answer, made, wanted, programs>>

-----------------------------------------------------------------------------
(* Registrations.  A registrar is a function from keys (types) to providers. *)
(* What counts of a provider is the keys it resolves, in order, which of     *)
(* them only if they are registered (resolver.has), and whether it builds a  *)
(* new object or hands on the one it resolved.                               *)

Req(keys) == [i \in DOMAIN keys |-> [key |-> keys[i], optional |-> FALSE]]
Opt(keys) == [i \in DOMAIN keys |-> [key |-> keys[i], optional |-> TRUE]]

\* register_singleton(key, provider) for a provider that builds an object.
Singleton(key, needs) ==
    key :> [kind |-> "build", needs |-> needs, lifetime |-> "singleton"]

\* register_class for classes whose constructors take nothing from the container.
Classes(keys) ==
    [k \in keys |-> [kind |-> "build", needs |-> <<>>, lifetime |-> "singleton"]]

\* register_instance(key, object): the provider returns the object.
Instance(key) == key :> [kind |-> "instance", needs |-> <<>>, lifetime |-> "singleton"]

\* An implementation and the abstraction that is resolved to it.
Bound(abstraction, implementation, needs) ==
    Singleton(implementation, needs)
    @@ abstraction :> [kind |-> "alias", needs |-> Req(<<implementation>>),
                       lifetime |-> "singleton"]

\* What a registrar may hold.  An alias is made by a lambda that resolves the
\* implementation, and a registrar registers one instance at most.
ProviderOK(p) ==
    /\ p \in [kind : {"build", "instance", "alias", "raises"},
              needs : Seq([key : STRING, optional : BOOLEAN]),
              lifetime : {"singleton", "transient"}]
    /\ p.kind = "alias" =>
           p.needs # <<>> /\ \A i \in DOMAIN p.needs : ~p.needs[i].optional
    /\ p.kind = "instance" => p.needs = <<>>

RegistrarOK(new) ==
    /\ IsFiniteSet(DOMAIN new)
    /\ \A k \in DOMAIN new : ProviderOK(new[k])
    /\ \A k, l \in DOMAIN new :
           new[k].kind = "instance" /\ new[l].kind = "instance" => k = l

ASSUME ProgramsAssumption ==
    \A program \in Programs :
        RegistrarOK(program.registrar) /\ program.resolves \in Seq(STRING)

-----------------------------------------------------------------------------
(* The container.                                                           *)

NoAnswer == [kind |-> "none"]
Value(object) == [kind |-> "value", object |-> object]
Error(error) == [kind |-> "error", error |-> error]

Without(f, keys) == [k \in DOMAIN f \ keys |-> f[k]]

Idle == stack = <<>> /\ answer = NoAnswer

ContainerInit ==
    /\ registrations = <<>>
    /\ singletons = <<>>
    /\ resolving = {}
    /\ stack = <<>>
    /\ answer = NoAnswer
    /\ made = <<>>
    /\ wanted = <<>>
    /\ programs = 0

\* A dictionary after update().
Updated(old, new) ==
    [k \in DOMAIN old \union DOMAIN new |-> IF k \in DOMAIN new THEN new[k] ELSE old[k]]

\* The ServiceRegistry behind the container.
contains(key) == key \in DOMAIN registrations
get(key) == registrations[key]
Recorded(new) == registrations' = Updated(registrations, new)

\* Mutant of has: only what was resolved before is there.
Mutant_HasCached(key) == key \in DOMAIN singletons
has(key) == key \in DOMAIN singletons \/ contains(key)

\* Mutant of register: a cached object of the key survives.
Mutant_KeepCached(new) ==
    /\ Recorded(new)
    /\ UNCHANGED <<singletons, made>>
\* register() for each key of new; register_instance() caches its object.
register(new) ==
    LET instances == {k \in DOMAIN new : new[k].kind = "instance"}
        objects == [k \in instances |-> Len(made) + 1]
    IN  /\ Recorded(new)
        /\ singletons' = Updated(Without(singletons, DOMAIN new), objects)
        /\ made' = IF instances = {} THEN made
                   ELSE Append(made, [provider |-> new[CHOOSE k \in instances : TRUE],
                                      got |-> <<>>])

\* What the register_<package> functions begin with.
EventBus == Classes({"EventBus"})
WithBus(registrar) == IF has("EventBus") THEN registrar ELSE Updated(EventBus, registrar)

\* resolve(key) up to the call of the provider; below are the frames that stay.
Lookup(key, below) ==
    \/ /\ key \in DOMAIN singletons
       /\ answer' = Value(singletons[key])
       /\ stack' = below
       /\ UNCHANGED resolving
    \/ /\ key \notin DOMAIN singletons
       /\ ~contains(key)
       /\ answer' = Error("KeyError")
       /\ stack' = below
       /\ UNCHANGED resolving
    \/ /\ key \notin DOMAIN singletons
       /\ contains(key)
       /\ key \in resolving
       /\ answer' = Error("Circular")
       /\ stack' = below
       /\ UNCHANGED resolving
    \/ /\ key \notin DOMAIN singletons
       /\ contains(key)
       /\ key \notin resolving
       /\ resolving' = resolving \union {key}
       /\ stack' = Append(below, [key |-> key, provider |-> get(key), todo |-> get(key).needs,
                                  got |-> <<>>])
       /\ UNCHANGED answer

Resolve ==
    /\ Idle
    /\ wanted # <<>>
    /\ Lookup(Head(wanted), <<>>)
    /\ UNCHANGED <<registrations, singletons, made, wanted, programs>>

\* The provider on top resolves its next dependency, an optional one only if
\* has() finds it.
NextNeed ==
    /\ stack # <<>>
    /\ answer = NoAnswer
    /\ LET frame == Last(stack)
           rest == Append(Front(stack), [frame EXCEPT !.todo = Tail(@)])
       IN  /\ frame.todo # <<>>
           /\ \/ /\ Head(frame.todo).optional
                 /\ ~has(Head(frame.todo).key)
                 /\ stack' = rest
                 /\ UNCHANGED <<resolving, answer>>
              \/ /\ Head(frame.todo).optional => has(Head(frame.todo).key)
                 /\ Lookup(Head(frame.todo).key, rest)
    /\ UNCHANGED <<registrations, singletons, made, wanted, programs>>

\* A dependency is handed to the provider that asked for it.
Injected ==
    /\ stack # <<>>
    /\ answer.kind = "value"
    /\ stack' = Append(Front(stack), [Last(stack) EXCEPT !.got = Append(@, answer.object)])
    /\ answer' = NoAnswer
    /\ UNCHANGED <<registrations, singletons, resolving, made, wanted, programs>>

Cache(frame, object) ==
    singletons' = IF frame.provider.lifetime = "singleton"
                  THEN Updated(singletons, [k \in {frame.key} |-> object])
                  ELSE singletons

\* The provider returns: a new object, the one it resolved, or an exception.
Provided ==
    /\ stack # <<>>
    /\ answer = NoAnswer
    /\ LET frame == Last(stack)
           object == IF frame.provider.kind = "alias" THEN Last(frame.got)
                     ELSE Len(made) + 1
       IN  /\ frame.todo = <<>>
           /\ stack' = Front(stack)
           /\ resolving' = resolving \ {frame.key}
           /\ \/ /\ frame.provider.kind = "raises"
                 /\ answer' = Error("Raised")
                 /\ UNCHANGED <<singletons, made>>
              \/ /\ frame.provider.kind # "raises"
                 /\ answer' = Value(object)
                 /\ Cache(frame, object)
                 /\ made' = IF frame.provider.kind = "alias" THEN made
                            ELSE Append(made, [provider |-> frame.provider, got |-> frame.got])
    /\ UNCHANGED <<registrations, wanted, programs>>

\* Mutant of Unwind: the key is discarded only when the provider succeeds.
Mutant_UnwindOnly ==
    /\ stack # <<>>
    /\ answer.kind = "error"
    /\ stack' = Front(stack)
    /\ UNCHANGED <<registrations, singletons, resolving, answer, made, wanted, programs>>
\* An exception leaves the provider on top: the finally clause.
Unwind ==
    /\ stack # <<>>
    /\ answer.kind = "error"
    /\ stack' = Front(stack)
    /\ resolving' = resolving \ {Last(stack).key}
    /\ UNCHANGED <<registrations, singletons, answer, made, wanted, programs>>

ResolveStep == Resolve \/ NextNeed \/ Injected \/ Provided \/ Unwind

-----------------------------------------------------------------------------
(* Programs that use a container: they register, then resolve, and go on    *)
(* after an exception with the next program.                                 *)

Run(program) ==
    /\ Idle
    /\ wanted = <<>>
    /\ programs < MaxPrograms
    /\ programs' = programs + 1
    /\ register(IF program.bus THEN WithBus(program.registrar) ELSE program.registrar)
    /\ wanted' = IF program.onlyIf \subseteq DOMAIN registrations' THEN program.resolves
                 ELSE <<>>
    /\ UNCHANGED <<resolving, stack, answer>>

\* reset(): the singletons are built again on demand.
reset ==
    /\ Idle
    /\ wanted = <<>>
    /\ programs < MaxPrograms
    /\ programs' = programs + 1
    /\ singletons' = <<>>
    /\ UNCHANGED <<registrations, resolving, stack, answer, made, wanted>>

Resolved ==
    /\ stack = <<>>
    /\ answer # NoAnswer
    /\ answer' = NoAnswer
    /\ wanted' = IF answer.kind = "error" THEN <<>> ELSE Tail(wanted)
    /\ UNCHANGED <<registrations, singletons, resolving, stack, made, programs>>

ContainerNext ==
    \/ \E program \in Programs : Run(program)
    \/ reset
    \/ ResolveStep
    \/ Resolved

-----------------------------------------------------------------------------
(* Properties.                                                               *)

\* The container keeps objects that were made, of keys it knows.
ContainerTypeOK ==
    /\ singletons \in [DOMAIN singletons -> DOMAIN made]
    /\ DOMAIN singletons \subseteq DOMAIN registrations
    /\ resolving \subseteq DOMAIN registrations

\* The keys whose provider may resolve l: an edge of the dependency graph.
DependsOn(k, l) ==
    k \in DOMAIN registrations /\ \E n \in ToSet(registrations[k].needs) : n.key = l

\* Everything the keys of a set lead to, n levels deep.
Reached(from, n) ==
    LET level[i \in 0..n] ==
            IF i = 0 THEN from
            ELSE LET before == level[i - 1]
                 IN  before \union
                     {l \in DOMAIN registrations : \E k \in before : DependsOn(k, l)}
    IN  level[n]

\* A circular dependency is reported only to a program whose key leads to one:
\* what an exception of an earlier resolution left behind is never mistaken for
\* a key that is being resolved.
CircularOnlyIfCyclic ==
    (answer.kind = "error" /\ answer.error = "Circular" /\ stack = <<>>) =>
        LET n == Cardinality(DOMAIN registrations)
            leadsTo(key) == Reached({l \in DOMAIN registrations : DependsOn(key, l)}, n)
        IN  \E k \in {Head(wanted)} \union leadsTo(Head(wanted)) : k \in leadsTo(k)

\* What the container has cached for a key was built by the provider that is
\* registered for it now, and by no other before it was registered again.
CachedIsCurrent ==
    /\ ContainerTypeOK
    /\ \A k \in DOMAIN singletons :
           registrations[k].kind # "alias" => made[singletons[k]].provider = registrations[k]
=============================================================================
