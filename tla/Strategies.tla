----------------------------- MODULE Strategies -----------------------------
(***************************************************************************)
(* The strategy framework (strategies/): the registry of strategies and the *)
(* StrategyExecutionManager that starts, stops and evaluates the enabled    *)
(* ones.  start(), stop() and execute() walk a list_enabled() snapshot and  *)
(* await every strategy in turn, so the registry may change under them.     *)
(*                                                                         *)
(* pc and job are the coroutine of each task (see OrderFlow): the await it  *)
(* is suspended at and its local variables.                                 *)
(***************************************************************************)
EXTENDS SequencesExt

CONSTANTS
    Names,        \* the strategy names in use
    Directions,   \* the signal directions the strategies produce
    None          \* Python's None

VARIABLES
    registry,   \* InMemoryStrategyRegistry._entries: in insertion order
    started,    \* strategies whose on_start() ran and whose on_stop() has not
    pc, job

SignalDirection == {"buy", "sell", "hold", "close", "reduce", "increase"}

TradingSignal == [strategy_name : Names, direction : SignalDirection]

Entry == [strategy : Names, enabled : BOOLEAN]

exists(name) == \E i \in DOMAIN registry : registry[i].strategy = name

register(name) ==
    /\ ~exists(name)
    /\ registry' = Append(registry, [strategy |-> name, enabled |-> FALSE])
    /\ UNCHANGED <<started, pc, job>>

unregister(name) ==
    /\ \E i \in DOMAIN registry :
          /\ registry[i].strategy = name
          /\ registry' = RemoveAt(registry, i)
    /\ UNCHANGED <<started, pc, job>>

\* enable(name) and disable(name).
_set_enabled(name, enabled) ==
    /\ exists(name)
    /\ registry' = [i \in DOMAIN registry |->
                       IF registry[i].strategy = name
                       THEN [registry[i] EXCEPT !.enabled = enabled]
                       ELSE registry[i]]
    /\ UNCHANGED <<started, pc, job>>

list_enabled ==
    FoldLeft(LAMBDA names, e : IF e.enabled THEN Append(names, e.strategy) ELSE names,
             <<>>, registry)

Goto(t, label) == pc' = [pc EXCEPT ![t] = label]

\* start() and stop(): the snapshot first, then one hook after the other.
start(t) ==
    /\ pc[t] = "idle"
    /\ Goto(t, "on_start")
    /\ job' = [job EXCEPT ![t].strategies = list_enabled]
    /\ UNCHANGED <<registry, started>>

stop(t) ==
    /\ pc[t] = "idle"
    /\ Goto(t, "on_stop")
    /\ job' = [job EXCEPT ![t].strategies = list_enabled]
    /\ UNCHANGED <<registry, started>>

\* The next strategy's hook, after which the started ones are those given, or the
\* end of the walk.
Hook(t, label, after) ==
    /\ pc[t] = label
    /\ UNCHANGED registry
    /\ \/ /\ job[t].strategies = <<>>
          /\ Goto(t, "idle")
          /\ UNCHANGED <<started, job>>
       \/ /\ job[t].strategies # <<>>
          /\ started' = after
          /\ job' = [job EXCEPT ![t].strategies = Tail(@)]
          /\ UNCHANGED pc

on_start(t) == Hook(t, "on_start", started \union {Head(job[t].strategies)})
on_stop(t) == Hook(t, "on_stop", started \ {Head(job[t].strategies)})

execute(t) ==
    /\ pc[t] = "idle"
    /\ Goto(t, "evaluate")
    /\ job' = [job EXCEPT ![t].strategies = list_enabled]
    /\ UNCHANGED <<registry, started>>

\* One strategy's evaluate(): it produces a signal, produces none, or raises,
\* which execute() isolates: the next strategy is evaluated all the same.
evaluate(t) ==
    /\ pc[t] = "evaluate"
    /\ job[t].strategies # <<>>
    /\ \/ \E d \in Directions :
             job' = [job EXCEPT
                ![t].strategies = Tail(@),
                ![t].signals = Append(@, [strategy_name |-> Head(job[t].strategies),
                                          direction |-> d])]
       \/ job' = [job EXCEPT ![t].strategies = Tail(@)]
    /\ UNCHANGED <<registry, started, pc>>
=============================================================================
