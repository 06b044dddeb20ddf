-------------------------------- MODULE Cycle --------------------------------
(***************************************************************************)
(* What the cycle frameworks (monitoring, dashboard, memory, notification,  *)
(* optimization, reporting, scheduler, storage, workers, learning,          *)
(* workflows, model_gateway) have in common.  Each keeps one record per     *)
(* identifier in a registry; a call computes the next record in one         *)
(* synchronous step under a lock, registers it and only then publishes its  *)
(* events, one await each: other calls run in between.                      *)
(*                                                                         *)
(* One behaviour exercises one framework (the variable framework, chosen     *)
(* initially): they share no state.                                          *)
(***************************************************************************)
EXTENDS Integers, SequencesExt

CONSTANTS
    Tasks,        \* the tasks that call the framework
    Ids,          \* the record identifiers they use
    Inputs,       \* the inputs of a call: five groups of items (feed), the
                  \* max_* parameter (limit) and the threshold parameter
    NaN,          \* Decimal("NaN"): comparing it raises InvalidOperation
    MaxCalls      \* bound: calls per behaviour

VARIABLES
    framework,   \* the framework this behaviour is about
    records,     \* its registry: identifier -> record
    inputs,      \* auxiliary: the context of the last successful call
    results,     \* per task, what its last call returns
    pending,     \* per task, the events its call has still to publish
    published,   \* a bag: how often <<identifier, event>> was published
    done,        \* auxiliary: how often a call succeeded, per identifier
    calls        \* calls made so far

cycle == <<framework, records, inputs, results, pending, published, done, calls>>

\* A source item: name and source are numbers in the order of the strings they
\* stand for; score is the number the framework ranks by (a score or a priority)
\* and kind the category, type, cadence, ... it asks for.
Item == [name : Nat, source : Nat, score : Int \union {NaN}, kind : STRING]

-----------------------------------------------------------------------------
(* Python: comparing tuples, sorted(), slices, sums.                        *)

Before(k, l) == \E i \in DOMAIN k : k[i] < l[i] /\ \A j \in 1..(i - 1) : k[j] = l[j]

SortedBy(seq, key(_)) == SortSeq(seq, LAMBDA x, y : Before(key(x), key(y)))

\* seq[:n], which for a negative n leaves out the last -n elements.
Slice(seq, n) == SubSeq(seq, 1, IF n < 0 THEN Len(seq) + n
                                ELSE IF n < Len(seq) THEN n ELSE Len(seq))

Map(seq, f(_)) == [i \in DOMAIN seq |-> f(seq[i])]

Total(seq) == FoldSeq(+, 0, seq)

Count(seq, test(_)) == Len(SelectSeq(seq, test))

Scores(seq) == {seq[i].score : i \in DOMAIN seq}

\* sort() compares every element of a list of two or more.
SortRaises(seq) == Len(seq) > 1 /\ NaN \in Scores(seq)

\* max(seq, key=score) and min(seq, key=score): the first of several.
FirstBest(seq, better(_, _)) ==
    seq[CHOOSE i \in DOMAIN seq :
           /\ \A j \in DOMAIN seq : ~better(seq[j].score, seq[i].score)
           /\ \A j \in 1..(i - 1) : better(seq[i].score, seq[j].score)]
Highest(seq) == FirstBest(seq, >)
Lowest(seq) == FirstBest(seq, <)

-----------------------------------------------------------------------------
(* The registry and the publication of a call's events.                      *)

NoResult == [status |-> "none"]

Exists(id) == id \in DOMAIN records

Get(id, new) == IF Exists(id) THEN records[id] ELSE new

Register(record) ==
    records' = [id \in DOMAIN records \union {record.id} |->
                   IF id = record.id THEN record ELSE records[id]]

Init(name) ==
    /\ framework = name
    /\ records = <<>>
    /\ inputs = <<>>
    /\ results = [t \in Tasks |-> NoResult]
    /\ pending = [t \in Tasks |-> <<>>]
    /\ published = EmptyBag
    /\ done = [id \in Ids |-> 0]
    /\ calls = 0

\* A call up to its first publication: all that it does to the registry, the
\* list of events it publishes next and the result it will return.
Begin(t, id, events, result) ==
    /\ pending[t] = <<>>
    /\ calls < MaxCalls
    /\ calls' = calls + 1
    /\ pending' = [pending EXCEPT ![t] = [i \in DOMAIN events |-> <<id, events[i]>>]]
    /\ results' = [results EXCEPT ![t] = result]
    /\ UNCHANGED <<framework, published>>

\* The three ways a call goes on: it registers a cancelled record, registers the
\* record of a successful cycle, or fails and registers nothing.
Cancelled(t, cancelled, events) ==
    /\ Begin(t, cancelled.id, events, [status |-> "cancelled", record |-> cancelled])
    /\ UNCHANGED <<inputs, done>>

Succeeded(t, next, metrics, context, events) ==
    /\ Begin(t, next.id, events,
             [status |-> "success", snapshot |-> [record |-> next, metrics |-> metrics]])
    /\ inputs' = (next.id :> context) @@ inputs
    /\ done' = [done EXCEPT ![next.id] = @ + 1]

Failed(t, id, events) ==
    /\ Begin(t, id, events, [status |-> "failed"])
    /\ UNCHANGED <<records, inputs, done>>

\* Mutant of PublishNext: the events leave in the opposite order.
Mutant_PublishLast(t) ==
    /\ pending[t] # <<>>
    /\ published' = published (+) SetToBag({Last(pending[t])})
    /\ pending' = [pending EXCEPT ![t] = Front(@)]
    /\ UNCHANGED <<framework, records, inputs, results, done, calls>>
\* One awaited publication of a call's list of events.
PublishNext(t) ==
    /\ pending[t] # <<>>
    /\ published' = published (+) SetToBag({Head(pending[t])})
    /\ pending' = [pending EXCEPT ![t] = Tail(@)]
    /\ UNCHANGED <<framework, records, inputs, results, done, calls>>

\* unregister(id) and clear() of the registry: not under the manager's lock.
Forget(ids) ==
    /\ ids # {}
    /\ calls < MaxCalls
    /\ calls' = calls + 1
    /\ records' = [i \in DOMAIN records \ ids |-> records[i]]
    /\ inputs' = [i \in DOMAIN inputs \ ids |-> inputs[i]]
    /\ UNCHANGED <<framework, results, pending, published, done>>

Published(id, event) ==
    IF BagIn(<<id, event>>, published) THEN published[<<id, event>>] ELSE 0

Quiet == \A t \in Tasks : pending[t] = <<>>

-----------------------------------------------------------------------------
(* Vocabulary of the frameworks' properties.                                 *)

\* Of the candidates that qualify, each is among the handled ones unless limit
\* others that are no less urgent are.
MostUrgentFirst(candidates, qualifies(_), handled, limit, moreUrgent(_, _)) ==
    \A c \in ToSet(candidates) :
        qualifies(c) =>
            \/ c \in handled
            \/ Cardinality({h \in handled : ~moreUrgent(c.score, h.score)}) >= limit

\* The candidates that have a request (an alert, an export, ...).
Requested(candidates, requests) ==
    {c \in ToSet(candidates) :
        \E r \in ToSet(requests) : r.subject = c.name /\ r.source = c.source}

TotalLength(seq, length(_)) == Total(Map(seq, length))
=============================================================================
