-------------------------- MODULE OrderFlowProofs --------------------------
(***************************************************************************)
(* From a signal to the exchange: what every stage has made sure of when a   *)
(* task gets there, whatever the other tasks and the application do.         *)
(***************************************************************************)
EXTENDS OrderFlow, DataFacts

\* Where a task can be, in the order of the chain.
BeforeRules == {"idle", "on_start", "on_stop", "reconnecting", "evaluate", "risk"}
BeforeOrder == BeforeRules \union {"rules", "order"}
Ordering == {"order_created", "order_validated", "order_routed"}
Executing == {"execution_created", "execution_queued", "execution_ready"}
Submitting == {"open", "opened", "submit"}
BeforeSend == BeforeOrder \union Ordering \union Executing \union Submitting
                 \union {"execution", "exchange"}
Sent == {"close", "returned", "cut_off"}
Labels == BeforeSend \union {"send"} \union Sent

\* The fields of a task's local variables.
JobOK(j) ==
    /\ DOMAIN j = DOMAIN Blank
    /\ DOMAIN j.risk = DOMAIN R!NoOutcome
    /\ DOMAIN j.order = {"state", "request"}
    /\ DOMAIN j.execution = {"status", "state"}

\* The request was made from an approval, and no rule objected to that.
Approved(j) ==
    /\ ~j.violated
    /\ R!approved(j.decision)
    /\ j.order.request \in O!OrderRequest

\* The rules at work or done: an objection is on record, and no approval has one.
RiskOK(p, j) ==
    /\ p \in BeforeRules => ~j.violated
    /\ p = "rules" => (j.violated => j.risk.violations # {})
    /\ p \notin BeforeRules \union {"rules"} =>
          (j.decision.decision_type = "approved" => ~j.violated)

\* The order, from the factory to the execution framework.
OrderOK(p, j) ==
    /\ p \in BeforeOrder => j.order.request = None
    /\ p \in Ordering => Approved(j)
    /\ p = "order_created" => j.order.state = "created"
    /\ p = "order_validated" => j.order.state = "validated" /\ O!valid(j.order.request)
    /\ p = "order_routed" => j.order.state = "routed" /\ O!valid(j.order.request)
    /\ p \notin BeforeOrder \union Ordering =>
          (O!ready(j.order) => Approved(j) /\ O!valid(j.order.request))

\* The execution, from its creation to the exchange.
ExecutionOK(p, j) ==
    /\ p \in Executing => O!ready(j.order)
    /\ p = "execution_created" => j.execution.state = "created"
    /\ p = "execution_queued" => j.execution.state = "queued"
    /\ p = "execution_ready" => j.execution.state = "ready"
    /\ p \in {"exchange", "send"} \union Submitting \union Sent =>
          (X!ready(j.execution) => O!ready(j.order))
    /\ p \in Submitting \union {"send"} => X!ready(j.execution)

\* The order at the exchange, of which n were placed, with m answers lost.
PlacementOK(p, j, n, m) ==
    /\ p \in BeforeSend => n = 0 /\ m = 0 /\ j.wire = None /\ j.response = None
    /\ p = "send" => /\ n = m /\ j.response = None
                     /\ j.wire = B!translate(j.order.request)
    /\ p \in Sent =>
          /\ n <= 1 + m
          /\ n > 0 => X!ready(j.execution) /\ j.wire = B!translate(j.order.request)
          /\ j.response = "accepted" => n > 0

TaskOK(p, j, n, m) ==
    /\ p \in Labels
    /\ n \in Nat /\ m \in Nat
    /\ JobOK(j)
    /\ RiskOK(p, j)
    /\ OrderOK(p, j)
    /\ ExecutionOK(p, j)
    /\ PlacementOK(p, j, n, m)

\* The inductive invariant.
FlowInv ==
    /\ DOMAIN pc = Tasks /\ DOMAIN job = Tasks
    /\ DOMAIN placed = Tasks /\ DOMAIN lost = Tasks
    /\ \A t \in Tasks : TaskOK(pc[t], job[t], placed[t], lost[t])

\* The fields the invariant is about are the same.
Same(j, k) ==
    /\ DOMAIN k = DOMAIN j
    /\ k.risk = j.risk /\ k.violated = j.violated /\ k.decision = j.decision
    /\ k.order = j.order /\ k.execution = j.execution
    /\ k.wire = j.wire /\ k.response = j.response

-----------------------------------------------------------------------------
(* Strategies, and what a task does between two orders.                     *)

\* A task that has no order yet.
LEMMA EarlyOK ==
    ASSUME NEW p \in BeforeRules, NEW j, JobOK(j), ~j.violated,
           j.order.request = None, j.wire = None, j.response = None
    PROVE  TaskOK(p, j, 0, 0)
BY DEF TaskOK, RiskOK, OrderOK, ExecutionOK, PlacementOK, BeforeRules, BeforeOrder, Ordering,
       Executing, Submitting, BeforeSend, Sent, Labels

\* The start of a chain.
LEMMA BlankOK ==
    /\ JobOK(Blank) /\ ~Blank.violated
    /\ Blank.order.request = None /\ Blank.wire = None /\ Blank.response = None
BY DEF Blank, JobOK

\* Assigning a variable the invariant does not mention.
LEMMA OtherField ==
    ASSUME NEW j, DOMAIN j = DOMAIN Blank, NEW x, NEW y
    PROVE  /\ Same(j, j)
           /\ Same(j, [j EXCEPT !.strategies = x])
           /\ Same(j, [j EXCEPT !.strategies = x, !.signals = y])
           /\ Same(j, [j EXCEPT !.context = x])
           /\ Same(j, [j EXCEPT !.result = x])
           /\ Same(j, [j EXCEPT !.attempts = x])
BY DEF Same, Blank

\* f is the same but for the value v at t, or the same with v at t already.
Becomes(f, g, t, v) == g = [f EXCEPT ![t] = v] \/ (g = f /\ v = f[t])

\* One task's part of the state is assigned.
LEMMA MovesIs ==
    ASSUME FlowInv, NEW t \in Tasks,
           NEW p, Becomes(pc, pc', t, p), NEW j, Becomes(job, job', t, j),
           NEW n, Becomes(placed, placed', t, n), NEW m, Becomes(lost, lost', t, m),
           TaskOK(p, j, n, m)
    PROVE  FlowInv'
<1>1. /\ DOMAIN pc' = Tasks /\ DOMAIN job' = Tasks
      /\ DOMAIN placed' = Tasks /\ DOMAIN lost' = Tasks
  BY DEF FlowInv, Becomes
<1>2. /\ pc'[t] = p /\ job'[t] = j /\ placed'[t] = n /\ lost'[t] = m
  BY DEF FlowInv, Becomes
<1>3. \A u \in Tasks \ {t} : /\ pc'[u] = pc[u] /\ job'[u] = job[u]
                             /\ placed'[u] = placed[u] /\ lost'[u] = lost[u]
  BY DEF FlowInv, Becomes
<1>4. \A u \in Tasks \ {t} : TaskOK(pc'[u], job'[u], placed'[u], lost'[u])
  BY <1>3 DEF FlowInv
<1> QED BY <1>1, <1>2, <1>4 DEF FlowInv

\* Steps of a task that has no order yet.
LEMMA EarlyStep ==
    ASSUME FlowInv, NEW t \in Tasks, pc[t] \in BeforeRules,
           NEW p \in BeforeRules, Becomes(pc, pc', t, p),
           NEW j, Same(job[t], j), Becomes(job, job', t, j),
           UNCHANGED <<placed, lost>>
    PROVE  FlowInv'
<1>1. /\ JobOK(job[t]) /\ ~job[t].violated /\ job[t].order.request = None
      /\ job[t].wire = None /\ job[t].response = None /\ placed[t] = 0 /\ lost[t] = 0
  BY DEF FlowInv, TaskOK, RiskOK, OrderOK, PlacementOK, BeforeOrder, BeforeSend
<1>2. JobOK(j)
  BY <1>1 DEF JobOK, Same
<1>3. TaskOK(p, j, 0, 0)
  BY <1>1, <1>2, EarlyOK DEF Same
<1>4. Becomes(placed, placed', t, 0) /\ Becomes(lost, lost', t, 0)
  BY <1>1 DEF Becomes
<1> QED BY <1>3, <1>4, MovesIs

\* The walks over the strategies, and the signals they produce.
LEMMA StrategyStep ==
    ASSUME FlowInv, NEW t \in Tasks,
           \/ S!start(t) \/ S!stop(t) \/ S!execute(t)
           \/ S!on_start(t) \/ S!on_stop(t) \/ S!evaluate(t),
           UNCHANGED <<placed, lost>>
    PROVE  FlowInv'
<1> DEFINE j == job[t]
<1>1. DOMAIN j = DOMAIN Blank
  BY DEF FlowInv, TaskOK, JobOK
<1>2. ASSUME NEW label \in {"on_start", "on_stop", "evaluate"},
             pc[t] = "idle", pc' = [pc EXCEPT ![t] = label],
             NEW x, job' = [job EXCEPT ![t] = [j EXCEPT !.strategies = x]]
      PROVE  FlowInv'
  BY <1>1, <1>2, OtherField, EarlyStep DEF Becomes, BeforeRules
<1>3. CASE S!start(t) \/ S!stop(t) \/ S!execute(t)
  BY <1>2, <1>3 DEF S!start, S!stop, S!execute, S!Goto
<1>4. ASSUME NEW label \in {"on_start", "on_stop"}, NEW after, S!Hook(t, label, after)
      PROVE  FlowInv'
  <2>1. CASE job' = job /\ S!Goto(t, "idle")
    BY <1>1, <1>4, <2>1, OtherField, EarlyStep DEF S!Hook, S!Goto, Becomes, BeforeRules
  <2>2. CASE pc' = pc /\ job' = [job EXCEPT ![t] = [j EXCEPT !.strategies = Tail(@)]]
    BY <1>1, <1>4, <2>2, OtherField, EarlyStep DEF S!Hook, Becomes, BeforeRules
  <2> QED BY <1>4, <2>1, <2>2 DEF S!Hook
<1>5. CASE S!on_start(t) \/ S!on_stop(t)
  BY <1>4, <1>5 DEF S!on_start, S!on_stop
<1>6. CASE S!evaluate(t)
  <2>1. pc[t] = "evaluate" /\ pc' = pc
    BY <1>6 DEF S!evaluate
  <2>2. ASSUME NEW d, job' = [job EXCEPT
                ![t].strategies = Tail(@),
                ![t].signals = Append(@, [strategy_name |-> Head(job[t].strategies),
                                          direction |-> d])]
        PROVE  \E x, y : job' = [job EXCEPT ![t] = [j EXCEPT !.strategies = x, !.signals = y]]
    BY <2>2
  <2>3. ASSUME NEW x, NEW y, job' = [job EXCEPT ![t] = [j EXCEPT !.strategies = x, !.signals = y]]
        PROVE  FlowInv'
    BY <1>1, <2>1, <2>3, OtherField, EarlyStep DEF Becomes, BeforeRules
  <2>4. CASE job' = [job EXCEPT ![t].strategies = Tail(@)]
    BY <1>1, <2>1, <2>4, OtherField, EarlyStep DEF Becomes, BeforeRules
  <2> QED BY <1>6, <2>2, <2>3, <2>4 DEF S!evaluate
<1> QED BY <1>3, <1>5, <1>6

\* The driver takes the next signal, with a new order, or is done, or cut short.
LEMMA DriverStep ==
    ASSUME FlowInv, NEW t \in Tasks, TakeSignal(t) \/ Finish(t) \/ CutShort(t)
    PROVE  FlowInv'
<1>1. /\ placed' = [placed EXCEPT ![t] = 0] /\ lost' = [lost EXCEPT ![t] = 0]
      /\ Becomes(placed, placed', t, 0) /\ Becomes(lost, lost', t, 0)
  BY DEF TakeSignal, Finish, CutShort, Done, Becomes
<1>2. ASSUME NEW p \in BeforeRules, pc' = [pc EXCEPT ![t] = p],
             NEW j, Same(Blank, j), job' = [job EXCEPT ![t] = j]
      PROVE  FlowInv'
  <2>1. /\ JobOK(j) /\ ~j.violated /\ j.order.request = None /\ j.wire = None
        /\ j.response = None
    BY <1>2, BlankOK DEF Same, JobOK
  <2> QED BY <1>1, <1>2, <2>1, EarlyOK, MovesIs DEF Becomes
<1>3. CASE Finish(t) \/ CutShort(t)
  BY <1>2, <1>3 DEF Finish, CutShort, Done, Same, BeforeRules
<1>4. CASE pc[t] = "returned" /\ TakeSignal(t)
  <2>1. /\ job' = [job EXCEPT ![t] = [Blank EXCEPT !.signals = Tail(job[t].signals)]]
        /\ pc' = [pc EXCEPT ![t] = "risk"]
    BY <1>4 DEF TakeSignal
  <2>2. Same(Blank, [Blank EXCEPT !.signals = Tail(job[t].signals)])
    BY DEF Same, Blank
  <2> QED BY <1>2, <2>1, <2>2 DEF BeforeRules
<1>5. CASE pc[t] = "evaluate" /\ TakeSignal(t)
  <2>1. job' = job /\ pc' = [pc EXCEPT ![t] = "risk"]
    BY <1>5 DEF TakeSignal
  <2>2. /\ JobOK(job[t]) /\ ~job[t].violated /\ job[t].order.request = None
        /\ job[t].wire = None /\ job[t].response = None
    BY <1>5 DEF FlowInv, TaskOK, RiskOK, OrderOK, PlacementOK, BeforeRules, BeforeOrder,
                BeforeSend
  <2>3. TaskOK("risk", job[t], 0, 0)
    BY <2>2, EarlyOK DEF BeforeRules
  <2> QED BY <1>1, <2>1, <2>3, MovesIs DEF Becomes
<1> QED BY <1>3, <1>4, <1>5 DEF TakeSignal

\* reconnect() touches no order.
LEMMA ReconnectStep ==
    ASSUME FlowInv, NEW t \in Tasks, B!reconnect(t) \/ B!Reconnected(t)
    PROVE  FlowInv'
<1>1. PICK p \in BeforeRules : pc' = [pc EXCEPT ![t] = p]
  BY DEF B!reconnect, B!Reconnected, B!Goto, BeforeRules
<1>2. pc[t] \in BeforeRules /\ UNCHANGED <<job, placed, lost>>
  BY DEF B!reconnect, B!Reconnected, BeforeRules
<1>3. Same(job[t], job[t])
  BY DEF Same
<1> QED BY <1>1, <1>2, <1>3, EarlyStep DEF Becomes

-----------------------------------------------------------------------------
(* Risk.                                                                    *)

\* A task the exchange holds nothing of goes on to a later label before the send.
LEMMA UnsentIs ==
    ASSUME FlowInv, NEW t \in Tasks, pc[t] \in BeforeSend
    PROVE  /\ placed[t] = 0 /\ lost[t] = 0
           /\ JobOK(job[t]) /\ job[t].wire = None /\ job[t].response = None
BY DEF FlowInv, TaskOK, PlacementOK

\* What has to be shown of a step before the send.
LEMMA UnsentStep ==
    ASSUME FlowInv, NEW t \in Tasks, pc[t] \in BeforeSend,
           NEW p \in BeforeSend, Becomes(pc, pc', t, p),
           NEW j, Becomes(job, job', t, j), UNCHANGED <<placed, lost>>,
           JobOK(j), j.wire = job[t].wire, j.response = job[t].response,
           RiskOK(p, j), OrderOK(p, j), ExecutionOK(p, j)
    PROVE  FlowInv'
<1>1. TaskOK(p, j, 0, 0)
  BY UnsentIs DEF TaskOK, PlacementOK, BeforeSend, BeforeOrder, BeforeRules, Ordering,
                  Executing, Submitting, Sent, Labels
<1>2. Becomes(placed, placed', t, 0) /\ Becomes(lost, lost', t, 0)
  BY UnsentIs DEF Becomes
<1> QED BY <1>1, <1>2, MovesIs

\* The rules are run and the decision is made.
LEMMA RiskStep ==
    ASSUME FlowInv, NEW t \in Tasks, R!evaluate(t) \/ R!validate(t) \/ R!Decided(t),
           UNCHANGED <<placed, lost>>
    PROVE  FlowInv'
<1> DEFINE j == job[t]
<1> USE DEF BeforeRules
<1>1. /\ pc[t] \in {"risk", "rules"} /\ pc[t] \in BeforeSend
      /\ JobOK(j) /\ RiskOK(pc[t], j) /\ OrderOK(pc[t], j)
  BY DEF FlowInv, TaskOK, R!evaluate, R!validate, R!Decided, BeforeSend, BeforeOrder
<1>2. j.order.request = None
  BY <1>1 DEF OrderOK, BeforeOrder
<1>3. ASSUME NEW p \in {"rules", "order"}, NEW k, k.order = j.order, RiskOK(p, k)
      PROVE  OrderOK(p, k) /\ ExecutionOK(p, k) /\ p \in BeforeSend
  BY <1>2, <1>3 DEF OrderOK, ExecutionOK, BeforeOrder, BeforeSend, Ordering, Executing,
                    Submitting, Sent
<1>4. CASE R!evaluate(t)
  <2>1. PICK x : job' = [job EXCEPT ![t].rules = x, ![t].risk = R!NoOutcome]
    BY <1>4 DEF R!evaluate
  <2> DEFINE k == [j EXCEPT !.rules = x, !.risk = R!NoOutcome]
  <2>2. job' = [job EXCEPT ![t] = k] /\ pc' = [pc EXCEPT ![t] = "rules"] /\ pc[t] = "risk"
    BY <1>4, <2>1 DEF R!evaluate, FlowInv
  <2>3. /\ JobOK(k) /\ k.violated = j.violated /\ k.order = j.order
        /\ k.wire = j.wire /\ k.response = j.response
    BY <1>1 DEF JobOK, Blank
  <2> HIDE DEF k
  <2>4. RiskOK("rules", k)
    BY <1>1, <2>2, <2>3 DEF RiskOK
  <2> QED BY <1>1, <1>3, <2>2, <2>3, <2>4, UnsentStep DEF Becomes
<1>5. CASE R!validate(t)
  <2>1. PICK outcome \in {"passed_rules", "violations", "errors"} :
           job' = [job EXCEPT ![t].rules = Tail(@),
                              ![t].risk[outcome] = @ \union {Head(job[t].rules)},
                              ![t].violated = @ \/ outcome = "violations"]
    BY <1>5 DEF R!validate
  <2> DEFINE r == [j.risk EXCEPT ![outcome] = @ \union {Head(j.rules)}]
             k == [j EXCEPT !.rules = Tail(@), !.risk = r,
                            !.violated = @ \/ outcome = "violations"]
  <2>2. job' = [job EXCEPT ![t] = k] /\ pc' = pc /\ pc[t] = "rules"
    BY <1>1, <1>5, <2>1, ZenonT(60) DEF R!validate, FlowInv, JobOK, Blank
  <2>3. /\ JobOK(k) /\ k.violated = (j.violated \/ outcome = "violations")
        /\ k.order = j.order /\ k.risk = r
        /\ k.wire = j.wire /\ k.response = j.response
    BY <1>1 DEF JobOK, Blank
  <2>4. /\ outcome # "violations" => r.violations = j.risk.violations
        /\ outcome = "violations" => r.violations # {}
    BY <1>1 DEF JobOK, R!NoOutcome
  <2> HIDE DEF k, r
  <2>5. RiskOK("rules", k)
    BY <1>1, <2>2, <2>3, <2>4 DEF RiskOK
  <2> QED BY <1>1, <1>3, <2>2, <2>3, <2>5, UnsentStep DEF Becomes
<1>6. CASE R!Decided(t)
  <2> DEFINE k == [j EXCEPT !.decision = R!decide(j.risk), !.risk = R!NoOutcome]
  <2>1. job' = [job EXCEPT ![t] = k] /\ pc' = [pc EXCEPT ![t] = "order"] /\ pc[t] = "rules"
    BY <1>6 DEF R!Decided, FlowInv
  <2>2. /\ JobOK(k) /\ k.violated = j.violated /\ k.decision = R!decide(j.risk)
        /\ k.order = j.order /\ k.wire = j.wire /\ k.response = j.response
    BY <1>1 DEF JobOK, Blank
  <2> HIDE DEF k
  <2>3. RiskOK("order", k)
    BY <1>1, <2>1, <2>2 DEF RiskOK, R!decide
  <2> QED BY <1>1, <1>3, <2>1, <2>2, <2>3, UnsentStep DEF Becomes
<1> QED BY <1>4, <1>5, <1>6

-----------------------------------------------------------------------------
(* Orders.                                                                  *)

\* The request of an approved decision is a request, and has no None in it.
LEMMA RequestIs ==
    ASSUME NEW t \in Tasks, NEW signal, NEW meta \in OrderInputs,
           signal.direction \in DOMAIN O!_SIDE_BY_DIRECTION
    PROVE  O!NewRequest(t, signal, meta) \in O!OrderRequest
<1>1. meta \in O!OrderMetadata
  BY OrderFlowAssumption
<1>2. O!_SIDE_BY_DIRECTION[signal.direction] \in O!OrderSide
  BY DEF O!_SIDE_BY_DIRECTION, O!OrderSide
<1> QED BY <1>1, <1>2 DEF O!NewRequest, O!OrderMetadata, O!OrderRequest, O!OrderState

\* The factory: a request if and only if the decision is an approval.
LEMMA CreateStep ==
    ASSUME FlowInv, NEW t \in Tasks, O!create(t), UNCHANGED <<placed, lost>>
    PROVE  FlowInv'
<1> DEFINE j == job[t]
<1>1. /\ pc[t] = "order" /\ pc[t] \in BeforeSend
      /\ JobOK(j) /\ RiskOK(pc[t], j)
  BY DEF FlowInv, TaskOK, O!create, BeforeSend, BeforeOrder
<1>2. ASSUME NEW x, DOMAIN x = {"state", "request"}
      PROVE  LET k == [j EXCEPT !.order = x]
             IN  /\ JobOK(k) /\ k.order = x /\ k.violated = j.violated
                 /\ k.decision = j.decision /\ k.wire = j.wire /\ k.response = j.response
  BY <1>1, <1>2 DEF JobOK, Blank
<1>3. j.decision.decision_type = "approved" => ~j.violated
  BY <1>1 DEF RiskOK, BeforeRules
<1>4. CASE O!Creatable(j.decision, j.signals[1])
  <2>1. PICK meta \in OrderInputs :
          job' = [job EXCEPT ![t].order = [state |-> "created",
                                 request |-> O!NewRequest(t, j.signals[1], meta)]]
    BY <1>4 DEF O!create
  <2> DEFINE request == O!NewRequest(t, j.signals[1], meta)
             x == [state |-> "created", request |-> request]
             k == [j EXCEPT !.order = x]
  <2>2. job' = [job EXCEPT ![t] = k] /\ pc' = [pc EXCEPT ![t] = "order_created"]
    BY <1>4, <2>1 DEF O!create
  <2>3. request \in O!OrderRequest /\ R!approved(j.decision)
    BY <1>4, RequestIs DEF O!Creatable, R!approved
  <2>4. DOMAIN x = {"state", "request"} /\ x.state = "created" /\ x.request = request
    OBVIOUS
  <2> HIDE DEF request, x
  <2>5. /\ JobOK(k) /\ k.order = x /\ k.violated = j.violated
        /\ k.decision = j.decision /\ k.wire = j.wire /\ k.response = j.response
    BY <1>2, <2>4
  <2> HIDE DEF k
  <2>6. RiskOK("order_created", k) /\ OrderOK("order_created", k)
        /\ ExecutionOK("order_created", k) /\ "order_created" \in BeforeSend
    BY <1>3, <2>3, <2>4, <2>5
    DEF RiskOK, OrderOK, ExecutionOK, Approved, R!approved, BeforeRules, BeforeOrder, Ordering,
        Executing, Submitting, Sent, BeforeSend
  <2> QED BY <1>1, <2>2, <2>5, <2>6, UnsentStep DEF Becomes
<1>5. CASE ~O!Creatable(j.decision, j.signals[1])
  <2> DEFINE x == [state |-> "rejected", request |-> None]
             k == [j EXCEPT !.order = x]
  <2>1. job' = [job EXCEPT ![t] = k] /\ pc' = [pc EXCEPT ![t] = "execution"]
    BY <1>5 DEF O!create
  <2>2. DOMAIN x = {"state", "request"} /\ x.state = "rejected"
    OBVIOUS
  <2> HIDE DEF x
  <2>3. /\ JobOK(k) /\ k.order = x /\ k.violated = j.violated
        /\ k.decision = j.decision /\ k.wire = j.wire /\ k.response = j.response
    BY <1>2, <2>2
  <2> HIDE DEF k
  <2>4. RiskOK("execution", k) /\ OrderOK("execution", k)
        /\ ExecutionOK("execution", k) /\ "execution" \in BeforeSend
    BY <1>3, <2>2, <2>3
    DEF RiskOK, OrderOK, ExecutionOK, O!ready, BeforeRules, BeforeOrder, Ordering,
        Executing, Submitting, Sent, BeforeSend
  <2> QED BY <1>1, <2>1, <2>3, <2>4, UnsentStep DEF Becomes
<1> QED BY <1>4, <1>5

\* The stages of the order manager after the factory: each moves the order's state
\* and leaves its request as it is.
LEMMA SettleIs ==
    ASSUME FlowInv, NEW t \in Tasks, pc[t] \in Ordering,
           NEW state \in O!OrderState, NEW label, O!Settle(t, state, label)
    PROVE  \E k : /\ Becomes(job, job', t, k)
                  /\ JobOK(k) /\ k.order.state = state /\ k.violated = job[t].violated
                  /\ k.decision = job[t].decision
                  /\ k.wire = job[t].wire /\ k.response = job[t].response
                  /\ k.order.request \in O!OrderRequest
                  /\ O!valid(k.order.request) <=> O!valid(job[t].order.request)
<1> DEFINE j == job[t]
           r == [j.order.request EXCEPT !.state = state]
           x == [j.order EXCEPT !.state = state, !.request = r]
           k == [j EXCEPT !.order = x]
<1>1. JobOK(j) /\ j.order.request \in O!OrderRequest
  BY DEF FlowInv, TaskOK, OrderOK, Approved
<1>2. job' = [job EXCEPT ![t] = k]
  BY <1>1 DEF O!Settle, FlowInv, JobOK, Blank
<1>3. /\ r \in O!OrderRequest /\ r.symbol = j.order.request.symbol
      /\ r.quantity = j.order.request.quantity /\ r.order_type = j.order.request.order_type
      /\ r.price = j.order.request.price /\ r.stop_price = j.order.request.stop_price
  BY <1>1 DEF O!OrderRequest
<1>4. O!valid(r) <=> O!valid(j.order.request)
  BY <1>3 DEF O!valid
<1> HIDE DEF r
<1>5. DOMAIN x = {"state", "request"} /\ x.state = state /\ x.request = r
  BY <1>1 DEF JobOK
<1> HIDE DEF x
<1>6. /\ JobOK(k) /\ k.order = x /\ k.violated = j.violated /\ k.decision = j.decision
      /\ k.wire = j.wire /\ k.response = j.response
  BY <1>1, <1>5 DEF JobOK, Blank
<1> HIDE DEF k
<1> QED BY <1>2, <1>3, <1>4, <1>5, <1>6 DEF Becomes

\* The order is validated, routed and made ready, or rejected.
LEMMA OrderStep ==
    ASSUME FlowInv, NEW t \in Tasks, O!validate(t) \/ O!route(t) \/ O!ReadyForExecution(t),
           UNCHANGED <<placed, lost>>
    PROVE  FlowInv'
<1> DEFINE j == job[t]
<1>1. pc[t] \in Ordering /\ pc[t] \in BeforeSend
  BY DEF O!validate, O!route, O!ReadyForExecution, Ordering, BeforeSend
<1>2. Approved(j) /\ OrderOK(pc[t], j)
  BY <1>1 DEF FlowInv, TaskOK, OrderOK
<1>3. PICK state \in O!OrderState, label \in Ordering \union {"execution"} :
         /\ O!Settle(t, state, label)
         /\ \/ state = "validated" /\ label = "order_validated" /\ O!valid(j.order.request)
            \/ state = "routed" /\ label = "order_routed" /\ O!valid(j.order.request)
            \/ /\ state = "ready_for_execution" /\ label = "execution"
               /\ O!valid(j.order.request)
            \/ state = "rejected" /\ label = "execution"
  BY <1>2 DEF O!validate, O!route, O!ReadyForExecution, Ordering, O!OrderState, OrderOK
<1>4. PICK k : /\ Becomes(job, job', t, k)
               /\ JobOK(k) /\ k.order.state = state /\ k.violated = j.violated
               /\ k.decision = j.decision /\ k.wire = j.wire /\ k.response = j.response
               /\ k.order.request \in O!OrderRequest
               /\ O!valid(k.order.request) <=> O!valid(j.order.request)
  BY <1>1, <1>3, SettleIs
<1>5. Becomes(pc, pc', t, label)
  BY <1>3 DEF O!Settle, Becomes
<1>6. Approved(k)
  BY <1>2, <1>4 DEF Approved
<1>7. RiskOK(label, k) /\ ExecutionOK(label, k) /\ label \in BeforeSend
  BY <1>3, <1>6 DEF RiskOK, ExecutionOK, Approved, BeforeRules, BeforeOrder, Ordering, Executing,
                    Submitting, Sent, BeforeSend
<1>8. OrderOK(label, k)
  BY <1>3, <1>4, <1>6 DEF OrderOK, BeforeOrder, BeforeRules, Ordering, O!ready
<1> QED BY <1>1, <1>4, <1>5, <1>7, <1>8, UnsentStep

-----------------------------------------------------------------------------
(* Execution.                                                               *)

\* A step of the execution framework, which assigns the execution alone.
LEMMA ExecutionMove ==
    ASSUME FlowInv, NEW t \in Tasks, pc[t] \in Executing \union {"execution"},
           NEW x, DOMAIN x = {"status", "state"},
           job' = [job EXCEPT ![t] = [job[t] EXCEPT !.execution = x]],
           NEW label \in Executing \union {"exchange"}, pc' = [pc EXCEPT ![t] = label],
           UNCHANGED <<placed, lost>>,
           \/ label \in Executing /\ O!ready(job[t].order)
           \/ label = "exchange" /\ (X!ready(x) => O!ready(job[t].order)),
           label = "execution_created" => x.state = "created",
           label = "execution_queued" => x.state = "queued",
           label = "execution_ready" => x.state = "ready"
    PROVE  FlowInv'
<1> DEFINE j == job[t]
           k == [j EXCEPT !.execution = x]
<1>1. JobOK(j) /\ RiskOK(pc[t], j) /\ OrderOK(pc[t], j) /\ pc[t] \in BeforeSend
  BY DEF FlowInv, TaskOK, BeforeSend
<1>2. /\ JobOK(k) /\ k.execution = x /\ k.order = j.order /\ k.violated = j.violated
      /\ k.decision = j.decision /\ k.wire = j.wire /\ k.response = j.response
  BY <1>1 DEF JobOK, Blank
<1> HIDE DEF k
<1>3. RiskOK(label, k) /\ OrderOK(label, k)
  BY <1>1, <1>2 DEF RiskOK, OrderOK, Approved, BeforeRules, BeforeOrder, Ordering, Executing
<1>4. ExecutionOK(label, k) /\ label \in BeforeSend
  BY <1>2 DEF ExecutionOK, Executing, Submitting, Sent, BeforeSend
<1> QED BY <1>1, <1>2, <1>3, <1>4, UnsentStep DEF Becomes, k

\* The same, for a status and a state.
LEMMA ExecutionSet ==
    ASSUME FlowInv, NEW t \in Tasks, pc[t] \in Executing \union {"execution"},
           NEW status, NEW state,
           job' = [job EXCEPT ![t].execution = [status |-> status, state |-> state]],
           NEW label \in Executing \union {"exchange"}, pc' = [pc EXCEPT ![t] = label],
           UNCHANGED <<placed, lost>>,
           \/ label \in Executing /\ O!ready(job[t].order)
           \/ label = "exchange" /\ status # "ready",
           label = "execution_created" => state = "created",
           label = "execution_queued" => state = "queued",
           label = "execution_ready" => state = "ready"
    PROVE  FlowInv'
<1> DEFINE x == [status |-> status, state |-> state]
<1>1. DOMAIN x = {"status", "state"} /\ x.status = status /\ x.state = state
  OBVIOUS
<1>2. job' = [job EXCEPT ![t] = [job[t] EXCEPT !.execution = x]]
  OBVIOUS
<1> HIDE DEF x
<1>3. X!ready(x) <=> status = "ready"
  BY <1>1 DEF X!ready
<1> QED BY <1>1, <1>2, <1>3, ExecutionMove

\* Every transition that process() asks for is in VALID_TRANSITIONS, and what it
\* answers "ready" is an order that was.
LEMMA ExecutionStep ==
    ASSUME FlowInv, NEW t \in Tasks,
           X!process(t) \/ X!validate(t) \/ X!execute(t) \/ X!route(t),
           UNCHANGED <<placed, lost>>
    PROVE  FlowInv'
<1> DEFINE j == job[t]
<1> USE DEF X!can_transition, X!VALID_TRANSITIONS, X!ready
<1>1. /\ pc[t] \in Executing \union {"execution"} /\ JobOK(j) /\ ExecutionOK(pc[t], j)
  BY DEF FlowInv, TaskOK, X!process, X!validate, X!execute, X!route, Executing
<1>2. \A order : X!Orders!ready(order) = O!ready(order)
  BY DEF X!Orders!ready, O!ready
<1>3. CASE X!process(t)
  BY <1>1, <1>2, <1>3, ExecutionSet DEF X!process, Executing
<1>4. ASSUME X!can_transition(j.execution.state, "failed"), X!Fail(t)
      PROVE  FlowInv'
  BY <1>1, <1>4, ExecutionSet DEF X!Fail, X!transition, Executing
<1>5. CASE X!validate(t)
  <2>1. pc[t] = "execution_created" /\ j.execution.state = "created" /\ O!ready(j.order)
    BY <1>1, <1>5 DEF X!validate, ExecutionOK, Executing
  <2>2. CASE X!transition(t, "queued", "pending", "execution_queued")
    BY <1>1, <2>1, <2>2, ExecutionSet DEF X!transition, Executing
  <2> QED BY <1>4, <1>5, <2>1, <2>2 DEF X!validate, Executing
<1>6. CASE X!execute(t)
  <2>1. pc[t] = "execution_queued" /\ j.execution.state = "queued" /\ O!ready(j.order)
    BY <1>1, <1>6 DEF X!execute, ExecutionOK, Executing
  <2>2. CASE X!transition(t, "ready", "pending", "execution_ready")
    BY <1>1, <2>1, <2>2, ExecutionSet DEF X!transition, Executing
  <2> QED BY <1>4, <1>6, <2>1, <2>2 DEF X!execute, Executing
<1>7. CASE X!route(t)
  <2>1. pc[t] = "execution_ready" /\ j.execution.state = "ready" /\ O!ready(j.order)
    BY <1>1, <1>7 DEF X!route, ExecutionOK, Executing
  <2>2. CASE /\ job' = [job EXCEPT ![t].execution.status = "ready"]
             /\ pc' = [pc EXCEPT ![t] = "exchange"]
    <3> DEFINE x == [j.execution EXCEPT !.status = "ready"]
    <3>1. DOMAIN x = {"status", "state"}
      BY <1>1 DEF JobOK
    <3>2. job' = [job EXCEPT ![t] = [j EXCEPT !.execution = x]]
      BY <2>2
    <3> HIDE DEF x
    <3>3. "exchange" \in Executing \union {"exchange"} /\ "exchange" \notin Executing
      BY DEF Executing
    <3> QED BY <1>1, <2>1, <2>2, <3>1, <3>2, <3>3, ExecutionMove, Zenon
  <2> QED BY <1>4, <1>7, <2>1, <2>2 DEF X!route, Executing
<1> QED BY <1>3, <1>5, <1>6, <1>7

-----------------------------------------------------------------------------
(* The exchange.                                                            *)

\* A step between "exchange" and the answer that leaves the order alone.
LEMMA ExchangeMove ==
    ASSUME FlowInv, NEW t \in Tasks, pc[t] \in Submitting \union {"exchange"},
           NEW k, Same(job[t], k), Becomes(job, job', t, k),
           NEW label \in Submitting \union {"close", "returned"},
           pc' = [pc EXCEPT ![t] = label], UNCHANGED <<placed, lost>>,
           label \in Submitting => X!ready(job[t].execution)
    PROVE  FlowInv'
<1> DEFINE j == job[t]
<1>1. /\ JobOK(j) /\ RiskOK(pc[t], j) /\ OrderOK(pc[t], j) /\ ExecutionOK(pc[t], j)
      /\ placed[t] = 0 /\ lost[t] = 0 /\ j.wire = None /\ j.response = None
  BY UnsentIs DEF FlowInv, TaskOK, BeforeSend
<1>2. JobOK(k)
  BY <1>1 DEF JobOK, Same
<1>3. RiskOK(label, k) /\ OrderOK(label, k)
  BY <1>1 DEF RiskOK, OrderOK, Approved, Same, BeforeRules, BeforeOrder, Ordering, Submitting
<1>4. ExecutionOK(label, k)
  BY <1>1 DEF ExecutionOK, Same, Executing, Submitting, Sent
<1>5. PlacementOK(label, k, 0, 0)
  <2>1. None # "accepted"
    BY OrderFlowAssumption
  <2> QED BY <1>1, <2>1 DEF PlacementOK, Same, Sent, Submitting, BeforeSend, BeforeOrder,
                            BeforeRules, Ordering, Executing
<1>6. TaskOK(label, k, 0, 0)
  BY <1>2, <1>3, <1>4, <1>5 DEF TaskOK, Labels, Sent, BeforeSend
<1>7. Becomes(placed, placed', t, 0) /\ Becomes(lost, lost', t, 0)
  BY <1>1 DEF Becomes
<1> QED BY <1>6, <1>7, MovesIs DEF Becomes

\* Authentication, the connection and routing.
LEMMA ExchangeStep ==
    ASSUME FlowInv, NEW t \in Tasks, E!process(t) \/ E!open(t) \/ E!route(t)
    PROVE  FlowInv'
<1> DEFINE j == job[t]
<1>1. /\ pc[t] \in Submitting \union {"exchange"} /\ UNCHANGED <<placed, lost>>
      /\ DOMAIN j = DOMAIN Blank /\ ExecutionOK(pc[t], j)
  BY DEF FlowInv, TaskOK, JobOK, E!process, E!open, E!route, E!shared, Submitting
<1>2. \A x : /\ Same(j, j) /\ Same(j, [j EXCEPT !.context = x])
             /\ Same(j, [j EXCEPT !.result = x])
  BY <1>1, OtherField
<1>3. \A x : E!Execution!ready(x) = X!ready(x)
  BY DEF E!Execution!ready, X!ready
<1>4. pc[t] \in Submitting => X!ready(j.execution)
  BY <1>1 DEF ExecutionOK
<1> USE DEF E!Goto, Becomes, Submitting
<1>5. CASE E!process(t)
  <2>1. CASE /\ job' = [job EXCEPT ![t].result = "failed"] /\ E!Goto(t, "returned")
    BY <1>1, <1>2, <2>1, ExchangeMove
  <2>2. ASSUME E!Execution!ready(j.execution), NEW context, E!Goto(t, "open"),
               job' = [job EXCEPT ![t].context = context]
        PROVE  FlowInv'
    BY <1>1, <1>2, <1>3, <2>2, ExchangeMove
  <2> QED BY <1>5, <2>1, <2>2 DEF E!process
<1>6. CASE E!open(t)
  <2>1. CASE job' = job /\ E!Goto(t, "opened")
    BY <1>1, <1>2, <1>4, <1>6, <2>1, ExchangeMove DEF E!open
  <2>2. CASE job' = [job EXCEPT ![t].result = "failed"] /\ E!Goto(t, "returned")
    BY <1>1, <1>2, <2>2, ExchangeMove
  <2> QED BY <1>6, <2>1, <2>2 DEF E!open
<1>7. CASE E!route(t)
  <2>1. ASSUME NEW x, job' = [job EXCEPT ![t].result = x], E!Goto(t, "close")
        PROVE  FlowInv'
    BY <1>1, <1>2, <2>1, ExchangeMove
  <2>2. CASE job' = job /\ E!Goto(t, "submit")
    BY <1>1, <1>2, <1>4, <1>7, <2>2, ExchangeMove DEF E!route
  <2> QED BY <1>7, <2>1, <2>2 DEF E!route
<1> QED BY <1>5, <1>6, <1>7

\* What risk, order and execution have established stays when a task goes on from the
\* exchange framework with the same order.
LEMMA StagesKept ==
    ASSUME NEW p \in Submitting \union {"send", "close"},
           NEW q \in {"send"} \union Sent, NEW j, NEW k,
           k.violated = j.violated, k.decision = j.decision, k.order = j.order,
           k.execution = j.execution,
           RiskOK(p, j), OrderOK(p, j), ExecutionOK(p, j),
           q = "send" => X!ready(j.execution)
    PROVE  RiskOK(q, k) /\ OrderOK(q, k) /\ ExecutionOK(q, k)
<1>1. RiskOK(q, k)
  BY DEF RiskOK, BeforeRules, Submitting, Sent
<1>2. OrderOK(q, k)
  BY DEF OrderOK, Approved, BeforeRules, BeforeOrder, Ordering, Submitting, Sent
<1>3. ExecutionOK(q, k)
  BY DEF ExecutionOK, Executing, Submitting, Sent
<1> QED BY <1>1, <1>2, <1>3

\* The order is translated, or refused before it is sent.
LEMMA SubmitStep ==
    ASSUME FlowInv, NEW t \in Tasks, B!submit(t)
    PROVE  FlowInv'
<1> DEFINE j == job[t]
           wire == B!translate(j.order.request)
<1>1. /\ pc[t] = "submit" /\ pc[t] \in Submitting /\ UNCHANGED <<placed, lost>>
      /\ placed[t] = 0 /\ lost[t] = 0 /\ j.response = None
      /\ JobOK(j) /\ RiskOK("submit", j) /\ OrderOK("submit", j) /\ ExecutionOK("submit", j)
  BY UnsentIs DEF B!submit, FlowInv, TaskOK, Submitting, BeforeSend
<1>2. CASE job' = [job EXCEPT ![t].result = "failed"] /\ B!Goto(t, "close")
  <2>1. Same(j, [j EXCEPT !.result = "failed"])
    BY <1>1, OtherField DEF JobOK
  <2> QED BY <1>1, <1>2, <2>1, ExchangeMove DEF B!Goto, Becomes, Submitting
<1>3. ASSUME NEW x, job' = [job EXCEPT ![t].wire = wire, ![t].attempts = x],
             B!Goto(t, "send")
      PROVE  FlowInv'
  <2> DEFINE k == [j EXCEPT !.wire = wire, !.attempts = x]
  <2>1. Becomes(job, job', t, k) /\ Becomes(pc, pc', t, "send")
    BY <1>3 DEF Becomes, B!Goto, FlowInv
  <2> HIDE DEF wire
  <2>2. /\ JobOK(k) /\ k.wire = wire /\ k.response = j.response /\ k.order = j.order
        /\ k.violated = j.violated /\ k.decision = j.decision /\ k.execution = j.execution
    BY <1>1 DEF JobOK, Blank
  <2> HIDE DEF k
  <2>3. RiskOK("send", k) /\ OrderOK("send", k) /\ ExecutionOK("send", k)
    <3>1. X!ready(j.execution)
      BY <1>1 DEF ExecutionOK, Submitting
    <3> QED BY <1>1, <2>2, <3>1, StagesKept DEF Sent
  <2>4. PlacementOK("send", k, 0, 0)
    BY <1>1, <2>2 DEF PlacementOK, wire, BeforeSend, BeforeOrder, BeforeRules, Ordering,
                      Executing, Submitting, Sent
  <2>5. TaskOK("send", k, 0, 0)
    BY <2>2, <2>3, <2>4 DEF TaskOK, Labels
  <2>6. Becomes(placed, placed', t, 0) /\ Becomes(lost, lost', t, 0)
    BY <1>1 DEF Becomes
  <2> QED BY <2>1, <2>5, <2>6, MovesIs
<1> QED BY <1>2, <1>3 DEF B!submit

\* A request to the exchange, repeated, answered or cut off.
LEMMA SendStep ==
    ASSUME FlowInv, NEW t \in Tasks, B!Retry(t) \/ B!Answered(t) \/ B!CutOff(t)
    PROVE  FlowInv'
<1> DEFINE j == job[t]
           n == placed[t]
           m == lost[t]
           one(b) == IF b THEN 1 ELSE 0
<1>1. /\ pc[t] = "send" /\ n \in Nat /\ m \in Nat /\ n = m
      /\ j.response = None /\ j.wire = B!translate(j.order.request) /\ X!ready(j.execution)
      /\ JobOK(j) /\ RiskOK("send", j) /\ OrderOK("send", j) /\ ExecutionOK("send", j)
  BY DEF B!Retry, B!Answered, B!CutOff, FlowInv, TaskOK, PlacementOK, ExecutionOK
<1>2. ASSUME NEW o, B!Deliver(t, o)
      PROVE  /\ Becomes(placed, placed', t, n + one(o.placed))
             /\ Becomes(lost, lost', t, m + one(o.placed /\ o.answer = "timeout"))
  BY <1>2 DEF B!Deliver, Becomes
<1>3. CASE B!Retry(t)
  <2> DEFINE k == [j EXCEPT !.attempts = @ - 1]
  <2>1. PICK o \in B!Outcomes : B!Retriable(o.answer) /\ B!Deliver(t, o)
    BY <1>3 DEF B!Retry
  <2>2. Becomes(job, job', t, k) /\ Becomes(pc, pc', t, "send")
    BY <1>1, <1>3 DEF B!Retry, Becomes
  <2>3. Same(j, k)
    BY <1>1, OtherField DEF JobOK
  <2> HIDE DEF k
  <2>4. one(o.placed) = one(o.placed /\ o.answer = "timeout") /\ one(o.placed) \in Nat
    BY <2>1 DEF B!Retriable
  <2> DEFINE d == one(o.placed)
  <2>5. /\ Becomes(placed, placed', t, n + d) /\ Becomes(lost, lost', t, m + d)
    BY <1>2, <2>1, <2>4
  <2> HIDE DEF d, one
  <2>6. RiskOK("send", k) /\ OrderOK("send", k) /\ ExecutionOK("send", k) /\ JobOK(k)
    BY <1>1, <2>3, StagesKept DEF Same, JobOK
  <2>7. PlacementOK("send", k, n + d, m + d)
    BY <1>1, <2>3 DEF PlacementOK, Same, BeforeSend, BeforeOrder, BeforeRules, Ordering,
                      Executing, Submitting, Sent
  <2>8. TaskOK("send", k, n + d, m + d)
    BY <1>1, <2>4, <2>6, <2>7 DEF TaskOK, Labels, d
  <2> QED BY <2>2, <2>5, <2>8, MovesIs
<1>4. CASE B!Answered(t)
  <2>1. PICK o \in B!Outcomes, x \in {"ready", "rejected", "failed"} :
          /\ B!Deliver(t, o)
          /\ job' = [job EXCEPT ![t].attempts = 0,
                                ![t].response = B!to_exchange_response(o.answer),
                                ![t].result = x]
    BY <1>4 DEF B!Answered
  <2> DEFINE response == B!to_exchange_response(o.answer)
             k == [j EXCEPT !.attempts = 0, !.response = response, !.result = x]
             d == one(o.placed)
             e == one(o.placed /\ o.answer = "timeout")
  <2>2. Becomes(job, job', t, k) /\ Becomes(pc, pc', t, "close")
    BY <1>1, <1>4, <2>1 DEF B!Answered, B!Goto, Becomes, FlowInv
  <2> HIDE DEF response
  <2>3. /\ JobOK(k) /\ k.response = response /\ k.wire = j.wire /\ k.order = j.order
        /\ k.violated = j.violated /\ k.decision = j.decision /\ k.execution = j.execution
    BY <1>1 DEF JobOK, Blank
  <2> HIDE DEF k
  <2>4. /\ Becomes(placed, placed', t, n + d) /\ Becomes(lost, lost', t, m + e)
    BY <1>2, <2>1
  <2>5. d \in {0, 1} /\ e \in {0, 1}
    OBVIOUS
  <2>6. response = "accepted" => d = 1
    <3>1. response = "accepted" => o.answer \in B!_ACCEPTED
      BY OrderFlowAssumption DEF response, B!to_exchange_response
    <3> QED BY <3>1 DEF B!Outcomes
  <2> HIDE DEF d, e, one
  <2>7. RiskOK("close", k) /\ OrderOK("close", k) /\ ExecutionOK("close", k)
    BY <1>1, <2>3, StagesKept DEF Sent
  <2>8. PlacementOK("close", k, n + d, m + e)
    BY <1>1, <2>3, <2>5, <2>6 DEF PlacementOK, BeforeSend, BeforeOrder, BeforeRules, Ordering,
                                  Executing, Submitting, Sent
  <2>9. TaskOK("close", k, n + d, m + e)
    BY <1>1, <2>3, <2>5, <2>7, <2>8 DEF TaskOK, Labels, Sent
  <2> QED BY <2>2, <2>4, <2>9, MovesIs
<1>5. CASE B!CutOff(t)
  <2> DEFINE k == [j EXCEPT !.attempts = 0]
  <2>1. PICK o \in B!Outcomes : o.answer = "timeout" /\ B!Deliver(t, o)
    BY <1>5 DEF B!CutOff
  <2>2. Becomes(job, job', t, k) /\ Becomes(pc, pc', t, "cut_off")
    BY <1>1, <1>5 DEF B!CutOff, B!Goto, Becomes
  <2>3. Same(j, k)
    BY <1>1, OtherField DEF JobOK
  <2> HIDE DEF k
  <2>4. one(o.placed) = one(o.placed /\ o.answer = "timeout") /\ one(o.placed) \in Nat
    BY <2>1
  <2> DEFINE d == one(o.placed)
  <2>5. /\ Becomes(placed, placed', t, n + d) /\ Becomes(lost, lost', t, m + d)
    BY <1>2, <2>1, <2>4
  <2> HIDE DEF d, one
  <2>6. RiskOK("cut_off", k) /\ OrderOK("cut_off", k) /\ ExecutionOK("cut_off", k) /\ JobOK(k)
    BY <1>1, <2>3, StagesKept DEF Same, JobOK, Sent
  <2>7. PlacementOK("cut_off", k, n + d, m + d)
    <3>1. n + d <= 1 + (m + d) /\ n + d = m + d /\ j.response # "accepted"
      BY <1>1, <2>4, OrderFlowAssumption DEF d
    <3> QED BY <1>1, <2>3, <3>1 DEF PlacementOK, Same, BeforeSend, BeforeOrder, BeforeRules,
                                    Ordering, Executing, Submitting, Sent
  <2>8. TaskOK("cut_off", k, n + d, m + d)
    BY <1>1, <2>4, <2>6, <2>7 DEF TaskOK, Labels, Sent, d
  <2> QED BY <2>2, <2>5, <2>8, MovesIs
<1> QED BY <1>3, <1>4, <1>5

\* The connection is closed and the result returned.
LEMMA CloseStep ==
    ASSUME FlowInv, NEW t \in Tasks, E!_close(t)
    PROVE  FlowInv'
<1> DEFINE j == job[t]
<1>1. /\ pc[t] = "close" /\ UNCHANGED <<job, placed, lost>>
      /\ TaskOK("close", j, placed[t], lost[t])
  BY DEF E!_close, E!shared, FlowInv
<1>2. TaskOK("returned", j, placed[t], lost[t])
  <2>1. RiskOK("returned", j) /\ OrderOK("returned", j) /\ ExecutionOK("returned", j)
    BY <1>1, StagesKept DEF TaskOK, Sent
  <2>2. PlacementOK("returned", j, placed[t], lost[t])
    BY <1>1 DEF TaskOK, PlacementOK, BeforeSend, BeforeOrder, BeforeRules, Ordering,
                Executing, Submitting, Sent
  <2> QED BY <1>1, <2>1, <2>2 DEF TaskOK, Labels, Sent
<1>3. Becomes(pc, pc', t, "returned")
  BY DEF E!_close, E!Goto, Becomes
<1> QED BY <1>1, <1>2, <1>3, MovesIs DEF Becomes

-----------------------------------------------------------------------------
(* The whole system.                                                        *)

LEMMA FlowInit == Init => FlowInv
<1> SUFFICES ASSUME Init PROVE FlowInv
  OBVIOUS
<1>1. TaskOK("idle", Blank, 0, 0)
  BY BlankOK, EarlyOK DEF BeforeRules
<1>2. /\ pc = [t \in Tasks |-> "idle"] /\ job = [t \in Tasks |-> Blank]
      /\ placed = [t \in Tasks |-> 0] /\ lost = [t \in Tasks |-> 0]
  BY DEF Init
<1> HIDE DEF Init
<1> QED BY <1>1, <1>2 DEF FlowInv

\* What touches no task, and a step of no component.
LEMMA FlowSame ==
    ASSUME FlowInv, UNCHANGED <<pc, job, placed, lost>>
    PROVE  FlowInv'
BY DEF FlowInv

\* The registries, the rules and the connection are managed under way.
LEMMA ManageStep ==
    ASSUME FlowInv, Manage
    PROVE  FlowInv'
<1>1. CASE /\ \/ \E s \in Names : \/ S!register(s) \/ S!unregister(s)
                                  \/ \E on \in BOOLEAN : S!_set_enabled(s, on)
              \/ \E t \in Tasks : S!start(t) \/ S!stop(t)
           /\ UNCHANGED <<rules, adapters, binance>>
  <2>1. UNCHANGED <<placed, lost>>
    BY <1>1 DEF binance
  <2>2. CASE \E s \in Names : \/ S!register(s) \/ S!unregister(s)
                              \/ \E on \in BOOLEAN : S!_set_enabled(s, on)
    <3>1. UNCHANGED <<pc, job>>
      BY <2>2 DEF S!register, S!unregister, S!_set_enabled
    <3> QED BY <2>1, <3>1, FlowSame
  <2>3. CASE \E t \in Tasks : S!start(t) \/ S!stop(t)
    BY <2>1, <2>3, StrategyStep
  <2> QED BY <1>1, <2>2, <2>3
<1>2. CASE /\ \E r \in RuleNames : \/ R!add_rule(r)
                                   \/ \E on \in BOOLEAN : R!_set_enabled(r, on)
           /\ UNCHANGED <<registry, started, adapters, binance>>
  <2>1. UNCHANGED <<pc, job, placed, lost>>
    BY <1>2 DEF R!add_rule, R!_set_enabled, binance
  <2> QED BY <2>1, FlowSame
<1>3. CASE \E a \in AdapterNames : E!register(a) \/ E!unregister(a)
  <2>1. UNCHANGED <<pc, job, placed, lost>>
    BY <1>3 DEF E!register, E!unregister, E!others
  <2> QED BY <2>1, FlowSame
<1>4. CASE \E t \in Tasks : B!reconnect(t)
  BY <1>4, ReconnectStep
<1> QED BY <1>1, <1>2, <1>3, <1>4 DEF Manage

LEMMA FlowStep == FlowInv /\ [Next]_vars => FlowInv'
<1> SUFFICES ASSUME FlowInv, [Next]_vars PROVE FlowInv'
  OBVIOUS
<1>1. CASE UNCHANGED vars
  BY <1>1, FlowSame DEF vars
<1>2. CASE Manage
  BY <1>2, ManageStep
<1>3. ASSUME NEW t \in Tasks, Execute(t) \/ StrategySteps(t)
      PROVE  FlowInv'
  BY <1>3, StrategyStep DEF Execute, StrategySteps, binance
<1>4. ASSUME NEW t \in Tasks, RiskSteps(t)
      PROVE  FlowInv'
  BY <1>4, RiskStep DEF RiskSteps, binance
<1>5. ASSUME NEW t \in Tasks, OrderSteps(t)
      PROVE  FlowInv'
  BY <1>5, CreateStep, OrderStep, ExecutionStep DEF OrderSteps, binance
<1>6. ASSUME NEW t \in Tasks, ExchangeSteps(t)
      PROVE  FlowInv'
  BY <1>6, ExchangeStep, CloseStep DEF ExchangeSteps
<1>7. ASSUME NEW t \in Tasks, BinanceSteps(t)
      PROVE  FlowInv'
  BY <1>7, SubmitStep, SendStep, ReconnectStep DEF BinanceSteps
<1>8. ASSUME NEW t \in Tasks, DriverSteps(t) \/ CutShort(t)
      PROVE  FlowInv'
  BY <1>8, DriverStep DEF DriverSteps
<1> QED BY <1>1, <1>2, <1>3, <1>4, <1>5, <1>6, <1>7, <1>8 DEF Next, Continue

LEMMA FlowAlways == Spec => []FlowInv
BY FlowInit, FlowStep, PTL DEF Spec

\* An order at the exchange went all the way.
LEMMA PlacedIs ==
    ASSUME FlowInv, NEW t \in Tasks, placed[t] > 0
    PROVE  /\ Approved(job[t]) /\ O!valid(job[t].order.request)
           /\ O!ready(job[t].order) /\ X!ready(job[t].execution)
           /\ job[t].wire = B!translate(job[t].order.request)
<1> DEFINE j == job[t]
           p == pc[t]
<1>1. /\ p \in Labels /\ OrderOK(p, j) /\ ExecutionOK(p, j)
      /\ PlacementOK(p, j, placed[t], lost[t])
  BY DEF FlowInv, TaskOK
<1>2. p \in {"send"} \union Sent
  BY <1>1 DEF PlacementOK, Labels
<1>3. X!ready(j.execution) /\ j.wire = B!translate(j.order.request)
  BY <1>1, <1>2 DEF PlacementOK, ExecutionOK
<1>4. O!ready(j.order)
  BY <1>1, <1>2, <1>3 DEF ExecutionOK
<1>5. p \notin BeforeOrder \union Ordering
  BY <1>2 DEF BeforeOrder, BeforeRules, Ordering, Sent
<1> QED BY <1>1, <1>3, <1>4, <1>5 DEF OrderOK

\* The translation of a request (adapters/binance/converters.py) is a request of
\* Binance: the same side, quantity, price and time in force.
LEMMA TranslateIs ==
    ASSUME NEW order \in O!OrderRequest
    PROVE  LET wire == B!translate(order)
           IN  /\ wire \in B!BinanceOrderRequest
               /\ wire.side = B!_SIDE[order.side]
               /\ wire.quantity = order.quantity
               /\ wire.price = order.price
               /\ order.order_type \in O!_PRICE_REQUIRED =>
                     wire.time_in_force = B!_TIF[order.time_in_force]
<1>1. /\ order.symbol \in STRING /\ order.side \in O!OrderSide
      /\ order.order_type \in O!OrderType /\ order.quantity \in Int
      /\ order.price \in Int \union {None} /\ order.time_in_force \in O!TimeInForce
  BY DEF O!OrderRequest, O!Price
<1>2. /\ B!_SIDE[order.side] \in B!BinanceSide
      /\ B!_TYPE[order.order_type] \in B!BinanceOrderType
      /\ B!_TIF[order.time_in_force] \in B!BinanceTimeInForce
      /\ order.order_type \in O!_PRICE_REQUIRED =>
            B!_TYPE[order.order_type] \in B!_PRICE_REQUIRED
  BY <1>1 DEF O!OrderSide, O!OrderType, O!TimeInForce, O!_PRICE_REQUIRED, B!_SIDE, B!_TYPE,
              B!_TIF, B!BinanceSide, B!BinanceOrderType, B!BinanceTimeInForce,
              B!_PRICE_REQUIRED
<1> QED BY <1>1, <1>2 DEF B!translate, B!BinanceOrderRequest
-----------------------------------------------------------------------------
(* What the exchange holds.                                                 *)

\* Whatever the rules, the orders, the adapters and the answers of the exchange, and
\* however the tasks and the application interleave, no order is at the exchange
\* unless no rule objected, the decision was an approval, and the order was valid
\* and ready: the guard of the factory (order_management/factory.py) is enough.
THEOREM NothingUnapproved == Spec => []NothingUnapprovedIsPlaced
<1>1. FlowInv => NothingUnapprovedIsPlaced
  BY PlacedIs DEF NothingUnapprovedIsPlaced, Approved
<1> QED BY <1>1, FlowAlways, PTL

\* What the exchange holds is what was ordered, and what the adapter reports as
\* accepted is there (adapters/binance/converters.py, exchange_adapters/manager.py).
THEOREM PlacedOrdersAreOrders == Spec => []PlacedAsOrdered
<1>1. FlowInv => WireIsOrder
  <2> SUFFICES ASSUME FlowInv, NEW t \in Tasks, placed[t] > 0
               PROVE  LET order == job[t].order.request  wire == job[t].wire
                      IN  /\ wire.side = B!_SIDE[order.side]
                          /\ wire.quantity = order.quantity
                          /\ wire.price = order.price
                          /\ order.order_type \in O!_PRICE_REQUIRED =>
                                wire.time_in_force = B!_TIF[order.time_in_force]
    BY DEF WireIsOrder
  <2>1. /\ job[t].order.request \in O!OrderRequest
        /\ job[t].wire = B!translate(job[t].order.request)
    BY PlacedIs DEF Approved
  <2> QED BY <2>1, TranslateIs
<1>2. FlowInv => ReportedAsPlaced
  <2> SUFFICES ASSUME FlowInv, NEW t \in Tasks, pc[t] = "returned"
               PROVE  /\ job[t].response = "accepted" => placed[t] > 0
                      /\ job[t].wire = None => placed[t] = 0
    BY DEF ReportedAsPlaced
  <2>1. placed[t] \in Nat /\ PlacementOK("returned", job[t], placed[t], lost[t])
    BY DEF FlowInv, TaskOK
  <2>2. job[t].response = "accepted" => placed[t] > 0
    BY <2>1 DEF PlacementOK, Sent
  <2>3. ASSUME placed[t] > 0 PROVE job[t].wire # None
    <3>1. /\ job[t].order.request \in O!OrderRequest
          /\ job[t].wire = B!translate(job[t].order.request)
      BY <2>3, PlacedIs DEF Approved
    <3>2. job[t].wire \in B!BinanceOrderRequest
      BY <3>1, TranslateIs
    <3> QED BY <3>2, OrderFlowAssumption
  <2> QED BY <2>1, <2>2, <2>3
<1> QED BY <1>1, <1>2, FlowAlways, PTL DEF PlacedAsOrdered

\* The retry loop of rest.py places no order twice but for answers that were lost.
THEOREM OneOrder == Spec => []OneOrderUnlessAnswerLost
<1>1. FlowInv => OneOrderUnlessAnswerLost
  <2> SUFFICES ASSUME FlowInv, NEW t \in Tasks PROVE placed[t] <= 1 + lost[t]
    BY DEF OneOrderUnlessAnswerLost
  <2>1. /\ pc[t] \in Labels /\ placed[t] \in Nat /\ lost[t] \in Nat
        /\ PlacementOK(pc[t], job[t], placed[t], lost[t])
    BY DEF FlowInv, TaskOK
  <2> QED BY <2>1 DEF PlacementOK, Labels
<1> QED BY <1>1, FlowAlways, PTL

-----------------------------------------------------------------------------
(* The connection.                                                          *)

\* A task goes on without touching the connection, and without letting go of it.
LEMMA ConnectionKept ==
    ASSUME ConnectionClosedWhenIdle, DOMAIN pc = Tasks, NEW t \in Tasks,
           UNCHANGED <<connection, left_open>>,
           NEW p, Becomes(pc, pc', t, p), pc[t] \in Holding => p \in Holding
    PROVE  ConnectionClosedWhenIdle'
<1> SUFFICES ASSUME connection = "connected", ~left_open
             PROVE  \E u \in Tasks : pc'[u] \in Holding
  BY DEF ConnectionClosedWhenIdle
<1>1. PICK u \in Tasks : pc[u] \in Holding
  BY DEF ConnectionClosedWhenIdle
<1>2. pc'[u] \in Holding
  BY <1>1 DEF Becomes
<1> QED BY <1>2

LEMMA ConnectionStep ==
    ASSUME ConnectionClosedWhenIdle, FlowInv, [Next]_vars
    PROVE  ConnectionClosedWhenIdle'
<1>1. DOMAIN pc = Tasks
  BY DEF FlowInv
<1> USE DEF Holding, Becomes
<1>2. CASE UNCHANGED <<pc, connection, left_open>>
  BY <1>2 DEF ConnectionClosedWhenIdle
<1>3. ASSUME NEW t \in Tasks, UNCHANGED <<connection, left_open>>,
             \/ S!start(t) \/ S!stop(t) \/ S!execute(t)
             \/ S!on_start(t) \/ S!on_stop(t) \/ S!evaluate(t)
      PROVE  ConnectionClosedWhenIdle'
  BY <1>1, <1>2, <1>3, ConnectionKept
  DEF S!start, S!stop, S!execute, S!on_start, S!on_stop, S!evaluate, S!Hook, S!Goto
<1>4. ASSUME NEW t \in Tasks, B!reconnect(t) \/ B!Reconnected(t)
      PROVE  ConnectionClosedWhenIdle'
  BY <1>4 DEF B!reconnect, B!Reconnected, ConnectionClosedWhenIdle
<1>5. CASE Manage
  <2>1. ASSUME NEW t \in Tasks, S!start(t) \/ S!stop(t), UNCHANGED binance
        PROVE  ConnectionClosedWhenIdle'
    BY <1>3, <2>1 DEF binance
  <2> QED BY <1>2, <1>4, <1>5, <2>1
      DEF Manage, S!register, S!unregister, S!_set_enabled, R!add_rule, R!_set_enabled,
          E!register, E!unregister, E!others, binance
<1>6. ASSUME NEW t \in Tasks, Execute(t) \/ StrategySteps(t)
      PROVE  ConnectionClosedWhenIdle'
  BY <1>3, <1>6 DEF Execute, StrategySteps, binance
<1>7. ASSUME NEW t \in Tasks, RiskSteps(t)
      PROVE  ConnectionClosedWhenIdle'
  BY <1>1, <1>7, ConnectionKept DEF RiskSteps, R!evaluate, R!validate, R!Decided, binance
<1>8. ASSUME NEW t \in Tasks, OrderSteps(t)
      PROVE  ConnectionClosedWhenIdle'
  <2>1. pc[t] \notin Holding /\ UNCHANGED <<connection, left_open>>
    BY <1>8 DEF OrderSteps, binance, O!create, O!validate, O!route, O!ReadyForExecution,
                X!process, X!validate, X!execute, X!route
  <2>2. \E p : pc' = [pc EXCEPT ![t] = p]
    BY <1>8 DEF OrderSteps, O!create, O!validate, O!route, O!ReadyForExecution, O!Settle,
                X!process, X!validate, X!execute, X!route, X!transition, X!Fail
  <2> QED BY <1>1, <2>1, <2>2, ConnectionKept
<1>9. ASSUME NEW t \in Tasks, ExchangeSteps(t)
      PROVE  ConnectionClosedWhenIdle'
  <2>1. CASE E!process(t) \/ E!route(t)
    BY <1>1, <2>1, ConnectionKept DEF E!process, E!route, E!Goto
  <2>2. CASE E!open(t)
    <3>1. CASE pc' = [pc EXCEPT ![t] = "opened"]
      BY <1>1, <3>1 DEF ConnectionClosedWhenIdle
    <3>2. CASE pc' = [pc EXCEPT ![t] = "returned"] /\ UNCHANGED <<connection, left_open>>
      BY <1>1, <2>2, <3>2, ConnectionKept DEF E!open
    <3> QED BY <2>2, <3>1, <3>2 DEF E!open, E!Goto
  <2>3. CASE E!_close(t)
    BY <2>3 DEF E!_close, E!Venue!close, ConnectionClosedWhenIdle
  <2> QED BY <1>9, <2>1, <2>2, <2>3 DEF ExchangeSteps
<1>10. ASSUME NEW t \in Tasks, BinanceSteps(t)
       PROVE  ConnectionClosedWhenIdle'
  <2>1. CASE B!submit(t) \/ B!Retry(t) \/ B!Answered(t)
    BY <1>1, <2>1, ConnectionKept DEF B!submit, B!Retry, B!Answered, B!Goto
  <2>2. CASE B!CutOff(t)
    BY <2>2 DEF B!CutOff, B!LeaveOpen, ConnectionClosedWhenIdle
  <2> QED BY <1>4, <1>10, <2>1, <2>2 DEF BinanceSteps
<1>11. ASSUME NEW t \in Tasks, DriverSteps(t)
       PROVE  ConnectionClosedWhenIdle'
  BY <1>1, <1>11, ConnectionKept DEF DriverSteps, TakeSignal, Finish, Done
<1>12. ASSUME NEW t \in Tasks, CutShort(t)
       PROVE  ConnectionClosedWhenIdle'
  <2>1. CASE pc[t] \in Holding /\ B!LeaveOpen
    BY <1>12, <2>1 DEF CutShort, B!LeaveOpen, ConnectionClosedWhenIdle
  <2>2. CASE pc[t] \notin Holding /\ UNCHANGED left_open
    BY <1>1, <1>12, <2>2, ConnectionKept DEF CutShort, Done
  <2> QED BY <1>12, <2>1, <2>2 DEF CutShort
<1> QED BY <1>2, <1>5, <1>6, <1>7, <1>8, <1>9, <1>10, <1>11, <1>12 DEF Next, Continue, vars

\* The connection that the tasks share is open only while a submission is under way,
\* after a reconnect(), or after a submission cut short while it held it: every path
\* on which process() returns closes what it opened.
THEOREM ConnectionClosed == Spec => []ConnectionClosedWhenIdle
<1>1. Init => ConnectionClosedWhenIdle
  BY DEF Init, ConnectionClosedWhenIdle
<1> QED BY <1>1, FlowAlways, ConnectionStep, PTL DEF Spec
-----------------------------------------------------------------------------
(* The states of an order.                                                  *)

\* Every order that there was and is moved along VALID_TRANSITIONS, or did not.
OrdersMove ==
    \A t \in Tasks :
        LET old == job[t].order.state  new == job'[t].order.state
        IN  (job[t].order.request # None /\ job'[t].order.request # None /\ old # new)
               => O!can_transition(old, new)

\* It is enough to look at the task that moves.
LEMMA OneOrderMoves ==
    ASSUME FlowInv, NEW t \in Tasks, NEW k, Becomes(job, job', t, k),
           \/ k.order = job[t].order
           \/ job[t].order.request = None
           \/ k.order.request = None
           \/ O!can_transition(job[t].order.state, k.order.state)
    PROVE  OrdersMove
BY DEF OrdersMove, FlowInv, Becomes

\* The steps of the other frameworks leave the orders alone.
LEMMA OtherStepsMove ==
    ASSUME FlowInv, NEW t \in Tasks, NEW k,
           Becomes(job, job', t, k), Same(job[t], k)
    PROVE  OrdersMove
BY OneOrderMoves DEF Same

LEMMA StrategyMoves ==
    ASSUME FlowInv, NEW t \in Tasks,
           \/ S!start(t) \/ S!stop(t) \/ S!execute(t)
           \/ S!on_start(t) \/ S!on_stop(t) \/ S!evaluate(t)
    PROVE  OrdersMove
<1> DEFINE j == job[t]
<1>1. pc[t] \in BeforeRules
  BY DEF S!start, S!stop, S!execute, S!on_start, S!on_stop, S!evaluate, S!Hook, BeforeRules
<1>2. j.order.request = None
  BY <1>1 DEF FlowInv, TaskOK, OrderOK, BeforeOrder
<1>3. \E k : Becomes(job, job', t, k)
  BY DEF S!start, S!stop, S!execute, S!on_start, S!on_stop, S!evaluate, S!Hook, Becomes
<1> QED BY <1>2, <1>3, OneOrderMoves

\* No step of the system takes an order along an edge the state table lacks.
LEMMA OrdersMoveStep ==
    ASSUME FlowInv, [Next]_vars
    PROVE  OrdersMove
<1>1. CASE job' = job
  BY <1>1 DEF OrdersMove
<1>2. CASE Manage
  BY <1>1, <1>2, StrategyMoves
  DEF Manage, S!register, S!unregister, S!_set_enabled, R!add_rule, R!_set_enabled,
      E!register, E!unregister, E!others, B!reconnect
<1>3. ASSUME NEW t \in Tasks, Execute(t) \/ StrategySteps(t)
      PROVE  OrdersMove
  BY <1>3, StrategyMoves DEF Execute, StrategySteps
<1>4. ASSUME NEW t \in Tasks, RiskSteps(t)
      PROVE  OrdersMove
  <2>1. pc[t] \in BeforeOrder
    BY <1>4 DEF RiskSteps, R!evaluate, R!validate, R!Decided, BeforeOrder, BeforeRules
  <2>2. job[t].order.request = None
    BY <2>1 DEF FlowInv, TaskOK, OrderOK
  <2>3. \E k : Becomes(job, job', t, k)
    BY <1>4 DEF RiskSteps, R!evaluate, R!validate, R!Decided, Becomes
  <2> QED BY <2>2, <2>3, OneOrderMoves
<1>5. ASSUME NEW t \in Tasks, O!create(t)
      PROVE  OrdersMove
  <2>1. job[t].order.request = None
    BY <1>5 DEF O!create, FlowInv, TaskOK, OrderOK, BeforeOrder
  <2>2. \E k : Becomes(job, job', t, k)
    BY <1>5 DEF O!create, Becomes
  <2> QED BY <2>1, <2>2, OneOrderMoves
<1>6. ASSUME NEW t \in Tasks, O!validate(t) \/ O!route(t) \/ O!ReadyForExecution(t)
      PROVE  OrdersMove
  <2>1. pc[t] \in Ordering
    BY <1>6 DEF O!validate, O!route, O!ReadyForExecution, Ordering
  <2>2. PICK state \in O!OrderState, label \in {"order_validated", "order_routed", "execution"} :
           O!Settle(t, state, label) /\ O!can_transition(job[t].order.state, state)
    BY <1>6, <2>1 DEF O!validate, O!route, O!ReadyForExecution, Ordering, O!OrderState, FlowInv,
                      TaskOK, OrderOK, O!can_transition, O!VALID_TRANSITIONS
  <2>3. \E k : Becomes(job, job', t, k) /\ k.order.state = state
    BY <2>1, <2>2, SettleIs
  <2> QED BY <2>2, <2>3, OneOrderMoves
<1>7. ASSUME NEW t \in Tasks, X!process(t) \/ X!validate(t) \/ X!execute(t) \/ X!route(t)
      PROVE  OrdersMove
  <2>1. \/ job' = job
        \/ \E x : job' = [job EXCEPT ![t] = [job[t] EXCEPT !.execution = x]]
    BY <1>7 DEF X!process, X!validate, X!execute, X!route, X!transition, X!Fail
  <2>2. DOMAIN job[t] = DOMAIN Blank
    BY DEF FlowInv, TaskOK, JobOK
  <2>3. \A x : [job[t] EXCEPT !.execution = x].order = job[t].order
    BY <2>2 DEF Blank
  <2> QED BY <1>1, <2>1, <2>3, OneOrderMoves DEF Becomes
<1>8. ASSUME NEW t \in Tasks, ExchangeSteps(t)
      PROVE  OrdersMove
  <2>1. DOMAIN job[t] = DOMAIN Blank
    BY DEF FlowInv, TaskOK, JobOK
  <2>2. \A x : Same(job[t], [job[t] EXCEPT !.context = x])
               /\ Same(job[t], [job[t] EXCEPT !.result = x])
    BY <2>1, OtherField
  <2>3. \/ job' = job
        \/ \E x : job' = [job EXCEPT ![t] = [job[t] EXCEPT !.context = x]]
        \/ \E x : job' = [job EXCEPT ![t] = [job[t] EXCEPT !.result = x]]
    BY <1>8 DEF ExchangeSteps, E!process, E!open, E!route, E!_close
  <2> QED BY <1>1, <2>2, <2>3, OtherStepsMove DEF Becomes
<1>9. ASSUME NEW t \in Tasks, BinanceSteps(t)
      PROVE  OrdersMove
  <2>1. DOMAIN job[t] = DOMAIN Blank
    BY DEF FlowInv, TaskOK, JobOK
  <2>2. CASE B!submit(t)
    <3>1. CASE job' = [job EXCEPT ![t].result = "failed"]
      <4>1. [job[t] EXCEPT !.result = "failed"].order = job[t].order
        BY <2>1 DEF Blank
      <4> QED BY <3>1, <4>1, OneOrderMoves DEF Becomes
    <3>2. ASSUME NEW x, NEW y, job' = [job EXCEPT ![t].wire = x, ![t].attempts = y]
          PROVE  OrdersMove
      <4> DEFINE k == [job[t] EXCEPT !.wire = x, !.attempts = y]
      <4>1. Becomes(job, job', t, k)
        BY <3>2 DEF Becomes, FlowInv
      <4>2. k.order = job[t].order
        BY <2>1 DEF Blank
      <4> HIDE DEF k
      <4> QED BY <4>1, <4>2, OneOrderMoves
    <3> QED BY <2>2, <3>1, <3>2 DEF B!submit
  <2>3. CASE B!Retry(t)
    <3>1. \E x : job' = [job EXCEPT ![t] = [job[t] EXCEPT !.attempts = x]]
      BY <2>3 DEF B!Retry
    <3>2. \A x : [job[t] EXCEPT !.attempts = x].order = job[t].order
      BY <2>1 DEF Blank
    <3> QED BY <3>1, <3>2, OneOrderMoves DEF Becomes
  <2>4. CASE B!Answered(t)
    <3>1. PICK x, y : job' = [job EXCEPT ![t].attempts = 0, ![t].response = x, ![t].result = y]
      BY <2>4 DEF B!Answered
    <3> DEFINE k == [job[t] EXCEPT !.attempts = 0, !.response = x, !.result = y]
    <3>2. Becomes(job, job', t, k)
      BY <3>1 DEF Becomes, FlowInv
    <3>3. k.order = job[t].order
      BY <2>1 DEF Blank
    <3> HIDE DEF k
    <3> QED BY <3>2, <3>3, OneOrderMoves
  <2>5. CASE B!Reconnected(t)
    BY <1>1, <2>5 DEF B!Reconnected
  <2>6. CASE B!CutOff(t)
    <3>1. job' = [job EXCEPT ![t] = [job[t] EXCEPT !.attempts = 0]]
      BY <2>6 DEF B!CutOff
    <3>2. [job[t] EXCEPT !.attempts = 0].order = job[t].order
      BY <2>1 DEF Blank
    <3> QED BY <3>1, <3>2, OneOrderMoves DEF Becomes
  <2> QED BY <1>9, <2>2, <2>3, <2>4, <2>5, <2>6 DEF BinanceSteps
<1>10. ASSUME NEW t \in Tasks, DriverSteps(t) \/ CutShort(t)
       PROVE  OrdersMove
  <2>1. \/ job' = job
        \/ \E x : job' = [job EXCEPT ![t] = [Blank EXCEPT !.signals = x]]
        \/ job' = [job EXCEPT ![t] = Blank]
    BY <1>10 DEF DriverSteps, TakeSignal, Finish, CutShort, Done
  <2>2. \A x : [Blank EXCEPT !.signals = x].order.request = None
    BY DEF Blank
  <2> QED BY <1>1, <2>1, <2>2, BlankOK, OneOrderMoves DEF Becomes
<1>11. CASE UNCHANGED vars
  BY <1>1, <1>11 DEF vars
<1> QED BY <1>2, <1>3, <1>4, <1>5, <1>6, <1>7, <1>8, <1>9, <1>10, <1>11
    DEF Next, Continue, OrderSteps

\* Orders move along the state table that the order manager never consults, and the
\* transitions it asks of the execution lifecycle are all allowed: no exception leaves
\* the execution manager.
THEOREM ValidTransitions == Spec => OrderTransitionsAreValid
<1>1. FlowInv => NoLifecycleError
  BY DEF FlowInv, TaskOK, NoLifecycleError, Labels, BeforeSend, BeforeOrder, BeforeRules, Ordering,
         Executing, Submitting, Sent
<1>2. FlowInv /\ [Next]_vars => [OrdersMove]_vars
  BY OrdersMoveStep
<1>3. [][OrdersMove]_vars <=>
        [][\A t \in Tasks :
             LET old == job[t].order.state  new == job'[t].order.state
             IN  (job[t].order.request # None /\ job'[t].order.request # None /\ old # new)
                    => O!can_transition(old, new)]_vars
  BY DEF OrdersMove
<1> QED BY <1>1, <1>2, <1>3, FlowAlways, PTL DEF Spec, OrderTransitionsAreValid
-----------------------------------------------------------------------------
(* Types: the walks over the registry and the rules.                        *)

\* The snapshot of the enabled strategies (strategies/registry.py).
LEMMA EnabledStrategies ==
    ASSUME registry \in Seq(S!Entry)
    PROVE  S!list_enabled \in Seq(Names)
<1> DEFINE n == Len(registry)
           on == [i \in 1..n |-> registry[i].enabled]
           name == [i \in 1..n |-> registry[i].strategy]
<1>8. n \in Nat /\ DOMAIN registry = 1..n /\ \A i \in 1..n : registry[i] \in S!Entry
  OBVIOUS
<1>1. n \in Nat /\ DOMAIN registry = 1..n /\ name \in [1..n -> Names]
  BY <1>8 DEF S!Entry
<1>2. \A s \in SUBSET (1..n) : s # {} =>
          /\ on[Max(s)] = registry[Max(s)].enabled
          /\ name[Max(s)] = registry[Max(s)].strategy
  BY <1>1, GreatestIs
<1> DEFINE Walk(f) ==
        f = [s \in SUBSET DOMAIN registry |->
                IF s = {} THEN <<>>
                ELSE LET x == Max(s)
                     IN  IF registry[x].enabled
                         THEN Append(f[s \ {x}], registry[x].strategy)
                         ELSE f[s \ {x}]]
<1>3. \A f : Walk(f) <=> Collects(f, n, on, name)
  BY <1>1, <1>2 DEF Collects
<1>4. PICK f : Walk(f)
  BY <1>1, <1>3, CollectionExists
<1>5. S!list_enabled = (CHOOSE g : Walk(g))[DOMAIN registry]
  BY DEF S!list_enabled, S!FoldLeft, S!MapThenFoldSet, S!Max, Max
<1> HIDE DEF Walk, n, on, name
<1>6. Walk(CHOOSE g : Walk(g))
  BY <1>4
<1>7. Collects(CHOOSE g : Walk(g), n, on, name)
  BY <1>3, <1>6
<1> QED BY <1>1, <1>5, <1>7, CollectedAre

\* The snapshot of the enabled rules (risk/validator.py).
LEMMA EnabledRules ==
    ASSUME rules \in Seq(R!RuleEntry)
    PROVE  R!enabled \in Seq(RuleNames)
<1> DEFINE n == Len(rules)
           on == [i \in 1..n |-> rules[i].enabled]
           name == [i \in 1..n |-> rules[i].rule]
<1>8. n \in Nat /\ DOMAIN rules = 1..n /\ \A i \in 1..n : rules[i] \in R!RuleEntry
  OBVIOUS
<1>1. n \in Nat /\ DOMAIN rules = 1..n /\ name \in [1..n -> RuleNames]
  BY <1>8 DEF R!RuleEntry
<1>2. \A s \in SUBSET (1..n) : s # {} =>
          on[Max(s)] = rules[Max(s)].enabled /\ name[Max(s)] = rules[Max(s)].rule
  BY <1>1, GreatestIs
<1> DEFINE Walk(f) ==
        f = [s \in SUBSET DOMAIN rules |->
                IF s = {} THEN <<>>
                ELSE LET x == Max(s)
                     IN  IF rules[x].enabled
                         THEN Append(f[s \ {x}], rules[x].rule)
                         ELSE f[s \ {x}]]
<1>3. \A f : Walk(f) <=> Collects(f, n, on, name)
  BY <1>1, <1>2 DEF Collects
<1>4. PICK f : Walk(f)
  BY <1>1, <1>3, CollectionExists
<1>5. R!enabled = (CHOOSE g : Walk(g))[DOMAIN rules]
  BY DEF R!enabled, R!FoldLeft, R!MapThenFoldSet, R!Max, Max
<1> HIDE DEF Walk, n, on, name
<1>6. Walk(CHOOSE g : Walk(g))
  BY <1>4
<1>7. Collects(CHOOSE g : Walk(g), n, on, name)
  BY <1>3, <1>6
<1> QED BY <1>1, <1>5, <1>7, CollectedAre

\* A finite set in some order.
LEMMA SetToSeqIs ==
    ASSUME NEW T, IsFiniteSet(T)
    PROVE  SetToSeq(T) \in Seq(T)
<1>1. Cardinality(T) \in Nat /\ ExistsBijection(1..Cardinality(T), T)
  BY FS_CardinalityType
<1>2. PICK f \in [1..Cardinality(T) -> T] : IsInjective(f)
  BY <1>1 DEF ExistsBijection, Bijection, Injection, IsInjective
<1>3. SetToSeq(T) \in [1..Cardinality(T) -> T]
  BY <1>2 DEF SetToSeq
<1> QED BY <1>1, <1>3

-----------------------------------------------------------------------------
(* Types: the state.                                                        *)

\* An order with its request, or without one.
OrderTyped == [state : O!OrderState, request : O!OrderRequest \union {None}]

\* The local variables of a task.
JobTyped(j) ==
    /\ j.strategies \in Seq(Names)
    /\ j.signals \in Seq(S!TradingSignal)
    /\ j.rules \in Seq(RuleNames)
    /\ j.risk \in R!RiskResult
    /\ j.decision \in R!RiskDecision \union {None}
    /\ j.order \in OrderTyped
    /\ j.wire \in B!BinanceOrderRequest \union {None}
    /\ j.execution \in X!ExecutionResult
    /\ j.context \in ExchangeInputs \union {None}
    /\ j.result \in E!ExchangeStatus

\* What the tasks share.
SharedTyped ==
    /\ registry \in Seq(S!Entry) /\ started \subseteq Names
    /\ rules \in Seq(R!RuleEntry)
    /\ adapters \subseteq AdapterNames
    /\ config \in B!BinanceConfig
    /\ connection \in B!ConnectionState /\ left_open \in BOOLEAN
    /\ placed \in [Tasks -> Nat] /\ lost \in [Tasks -> Nat]

\* The inductive invariant, with FlowInv for what a task has at a label.
TypeInv == SharedTyped /\ \A t \in Tasks : JobTyped(job[t])

\* The assignments of the actions to a task's variables.
LEMMA JobSet ==
    ASSUME NEW j, DOMAIN j = DOMAIN Blank, JobTyped(j)
    PROVE  /\ \A x \in Seq(Names), y \in Seq(S!TradingSignal) :
                 /\ JobTyped([j EXCEPT !.strategies = x])
                 /\ JobTyped([j EXCEPT !.strategies = x, !.signals = y])
           /\ \A z : \A x \in Seq(RuleNames), y \in R!RiskResult :
                 /\ JobTyped([j EXCEPT !.rules = x, !.risk = y])
                 /\ JobTyped([j EXCEPT !.rules = x, !.risk = y, !.violated = z])
           /\ \A x \in R!RiskDecision, y \in R!RiskResult :
                 JobTyped([j EXCEPT !.decision = x, !.risk = y])
           /\ \A x \in OrderTyped : JobTyped([j EXCEPT !.order = x])
           /\ \A x \in X!ExecutionResult : JobTyped([j EXCEPT !.execution = x])
           /\ \A x \in ExchangeInputs : JobTyped([j EXCEPT !.context = x])
           /\ \A x \in E!ExchangeStatus : JobTyped([j EXCEPT !.result = x])
           /\ \A y : \A x \in B!BinanceOrderRequest :
                 JobTyped([j EXCEPT !.wire = x, !.attempts = y])
           /\ \A x : JobTyped([j EXCEPT !.attempts = x])
           /\ \A x, y : \A z \in E!ExchangeStatus :
                 JobTyped([j EXCEPT !.attempts = x, !.response = y, !.result = z])
<1> USE DEF JobTyped, Blank
<1>1. \A x \in Seq(Names), y \in Seq(S!TradingSignal) :
         /\ JobTyped([j EXCEPT !.strategies = x])
         /\ JobTyped([j EXCEPT !.strategies = x, !.signals = y])
  OBVIOUS
<1>2. \A z : \A x \in Seq(RuleNames), y \in R!RiskResult :
         /\ JobTyped([j EXCEPT !.rules = x, !.risk = y])
         /\ JobTyped([j EXCEPT !.rules = x, !.risk = y, !.violated = z])
  OBVIOUS
<1>3. \A x \in R!RiskDecision, y \in R!RiskResult :
         JobTyped([j EXCEPT !.decision = x, !.risk = y])
  OBVIOUS
<1>4. \A x \in OrderTyped : JobTyped([j EXCEPT !.order = x])
  OBVIOUS
<1>5. \A x \in X!ExecutionResult : JobTyped([j EXCEPT !.execution = x])
  OBVIOUS
<1>6. \A x \in ExchangeInputs : JobTyped([j EXCEPT !.context = x])
  OBVIOUS
<1>7. \A x \in E!ExchangeStatus : JobTyped([j EXCEPT !.result = x])
  OBVIOUS
<1>8. \A y : \A x \in B!BinanceOrderRequest : JobTyped([j EXCEPT !.wire = x, !.attempts = y])
  OBVIOUS
<1>9. \A x : JobTyped([j EXCEPT !.attempts = x])
  OBVIOUS
<1>10. \A x, y : \A z \in E!ExchangeStatus :
          JobTyped([j EXCEPT !.attempts = x, !.response = y, !.result = z])
  OBVIOUS
<1> HIDE DEF JobTyped, Blank
<1> QED BY <1>1, <1>2, <1>3, <1>4, <1>5, <1>6, <1>7, <1>8, <1>9, <1>10

\* One task's variables are assigned.
LEMMA JobBecomes ==
    ASSUME FlowInv, TypeInv, NEW t \in Tasks, NEW k, JobTyped(k), Becomes(job, job', t, k)
    PROVE  \A u \in Tasks : JobTyped(job'[u])
BY DEF FlowInv, TypeInv, Becomes

\* The walks over the strategies.
LEMMA StrategyTyped ==
    ASSUME FlowInv, TypeInv, NEW t \in Tasks,
           \/ S!start(t) \/ S!stop(t) \/ S!execute(t)
           \/ S!on_start(t) \/ S!on_stop(t) \/ S!evaluate(t)
    PROVE  /\ \A u \in Tasks : JobTyped(job'[u])
           /\ registry' = registry /\ started' \subseteq Names
<1> DEFINE j == job[t]
<1>1. /\ DOMAIN j = DOMAIN Blank /\ JobTyped(j) /\ started \subseteq Names
      /\ j.strategies \in Seq(Names) /\ j.signals \in Seq(S!TradingSignal)
  BY DEF FlowInv, TaskOK, JobOK, TypeInv, SharedTyped, JobTyped
<1>2. S!list_enabled \in Seq(Names)
  BY EnabledStrategies DEF TypeInv, SharedTyped
<1>3. CASE S!start(t) \/ S!stop(t) \/ S!execute(t)
  <2> DEFINE k == [j EXCEPT !.strategies = S!list_enabled]
  <2>1. /\ job' = [job EXCEPT ![t] = k] /\ UNCHANGED <<registry, started>>
    BY <1>3 DEF S!start, S!stop, S!execute
  <2>2. JobTyped(k)
    BY <1>1, <1>2, JobSet
  <2> QED BY <1>1, <2>1, <2>2, JobBecomes DEF Becomes
<1>4. ASSUME j.strategies # <<>>
      PROVE  Head(j.strategies) \in Names /\ Tail(j.strategies) \in Seq(Names)
  BY <1>1, <1>4
<1>5. CASE S!on_start(t) \/ S!on_stop(t)
  <2>1. CASE job' = job /\ UNCHANGED <<registry, started>>
    BY <1>1, <2>1 DEF TypeInv
  <2>2. CASE /\ j.strategies # <<>> /\ registry' = registry
             /\ started' \in {started \union {Head(j.strategies)},
                              started \ {Head(j.strategies)}}
             /\ job' = [job EXCEPT ![t].strategies = Tail(@)]
    <3> DEFINE k == [j EXCEPT !.strategies = Tail(j.strategies)]
    <3>1. JobTyped(k) /\ Becomes(job, job', t, k)
      BY <1>1, <1>4, <2>2, JobSet DEF Becomes
    <3>2. \A u \in Tasks : JobTyped(job'[u])
      BY <3>1, JobBecomes
    <3> QED BY <1>1, <1>4, <2>2, <3>2
  <2> QED BY <1>5, <2>1, <2>2 DEF S!on_start, S!on_stop, S!Hook
<1>6. CASE S!evaluate(t)
  <2>1. j.strategies # <<>> /\ UNCHANGED <<registry, started>>
    BY <1>6 DEF S!evaluate
  <2>2. ASSUME NEW d \in Directions,
               job' = [job EXCEPT
                ![t].strategies = Tail(@),
                ![t].signals = Append(@, [strategy_name |-> Head(job[t].strategies),
                                          direction |-> d])]
        PROVE  \A u \in Tasks : JobTyped(job'[u])
    <3> DEFINE y == Append(j.signals, [strategy_name |-> Head(j.strategies),
                                       direction |-> d])
               k == [j EXCEPT !.strategies = Tail(j.strategies), !.signals = y]
    <3>1. [strategy_name |-> Head(j.strategies), direction |-> d] \in S!TradingSignal
      BY <1>4, <2>1, SetupAssumption DEF S!TradingSignal
    <3>2. y \in Seq(S!TradingSignal)
      BY <1>1, <3>1
    <3>3. Becomes(job, job', t, k)
      BY <2>2 DEF Becomes
    <3> HIDE DEF y
    <3>4. JobTyped(k)
      BY <1>1, <1>4, <2>1, <3>2, JobSet
    <3> QED BY <3>3, <3>4, JobBecomes
  <2>3. ASSUME job' = [job EXCEPT ![t].strategies = Tail(@)]
        PROVE  \A u \in Tasks : JobTyped(job'[u])
    <3> DEFINE k == [j EXCEPT !.strategies = Tail(j.strategies)]
    <3>1. JobTyped(k) /\ Becomes(job, job', t, k)
      BY <1>1, <1>4, <2>1, <2>3, JobSet DEF Becomes
    <3> QED BY <3>1, JobBecomes
  <2> QED BY <1>1, <1>6, <2>1, <2>2, <2>3 DEF S!evaluate
<1> QED BY <1>3, <1>5, <1>6

\* A task without an order.
LEMMA BlankTyped == JobTyped(Blank)
<1>1. R!NoOutcome \in R!RiskResult
  BY DEF R!NoOutcome, R!RiskResult
<1>2. [state |-> "created", request |-> None] \in OrderTyped
  BY DEF OrderTyped, O!OrderState
<1>3. [status |-> "pending", state |-> "created"] \in X!ExecutionResult
  BY DEF X!ExecutionResult, X!ExecutionStatus, X!ExecutionState
<1>4. "pending" \in E!ExchangeStatus
  BY DEF E!ExchangeStatus
<1> QED BY <1>1, <1>2, <1>3, <1>4 DEF JobTyped, Blank

\* The driver.
LEMMA DriverTyped ==
    ASSUME FlowInv, TypeInv, NEW t \in Tasks, TakeSignal(t) \/ Finish(t) \/ CutShort(t)
    PROVE  /\ \A u \in Tasks : JobTyped(job'[u])
           /\ placed' \in [Tasks -> Nat] /\ lost' \in [Tasks -> Nat]
<1>1. placed' \in [Tasks -> Nat] /\ lost' \in [Tasks -> Nat]
  <2>1. placed' = [placed EXCEPT ![t] = 0] /\ lost' = [lost EXCEPT ![t] = 0]
    BY DEF TakeSignal, Finish, CutShort, Done
  <2>2. placed \in [Tasks -> Nat] /\ lost \in [Tasks -> Nat]
    BY DEF TypeInv, SharedTyped
  <2> QED BY <2>1, <2>2
<1>2. ASSUME job' = job
      PROVE  \A u \in Tasks : JobTyped(job'[u])
  BY <1>2 DEF TypeInv
<1>3. ASSUME job' = [job EXCEPT ![t] = Blank]
      PROVE  \A u \in Tasks : JobTyped(job'[u])
  BY <1>3, BlankTyped, JobBecomes DEF Becomes
<1>4. ASSUME Len(job[t].signals) > 1,
             job' = [job EXCEPT ![t] = [Blank EXCEPT !.signals = Tail(job[t].signals)]]
      PROVE  \A u \in Tasks : JobTyped(job'[u])
  <2> DEFINE y == Tail(job[t].signals)
             k == [Blank EXCEPT !.strategies = Blank.strategies, !.signals = y]
  <2>1. job[t].signals \in Seq(S!TradingSignal)
    BY DEF TypeInv, JobTyped
  <2>2. y \in Seq(S!TradingSignal)
    BY <1>4, <2>1
  <2>3. Becomes(job, job', t, k)
    BY <1>4 DEF Becomes, Blank
  <2> HIDE DEF y
  <2>4. Blank.strategies \in Seq(Names)
    BY DEF Blank
  <2>5. JobTyped(k)
    BY <2>2, <2>4, BlankTyped, JobSet
  <2> QED BY <2>3, <2>5, JobBecomes
<1> QED BY <1>1, <1>2, <1>3, <1>4 DEF TakeSignal, Finish, CutShort, Done

\* The rules and the decision.
LEMMA RiskTyped ==
    ASSUME FlowInv, TypeInv, NEW t \in Tasks,
           R!evaluate(t) \/ R!validate(t) \/ R!Decided(t)
    PROVE  (\A u \in Tasks : JobTyped(job'[u])) /\ rules' = rules
<1> DEFINE j == job[t]
<1>1. /\ DOMAIN j = DOMAIN Blank /\ JobTyped(j)
      /\ j.rules \in Seq(RuleNames) /\ j.risk \in R!RiskResult
  BY DEF FlowInv, TaskOK, JobOK, TypeInv, JobTyped
<1>2. R!NoOutcome \in R!RiskResult
  BY DEF R!NoOutcome, R!RiskResult
<1>3. CASE R!evaluate(t)
  <2>1. R!enabled \in Seq(RuleNames)
    BY EnabledRules DEF TypeInv, SharedTyped
  <2> DEFINE k == [j EXCEPT !.rules = R!enabled, !.risk = R!NoOutcome]
  <2>2. Becomes(job, job', t, k) /\ rules' = rules
    BY <1>3 DEF R!evaluate, Becomes, FlowInv
  <2>3. JobTyped(k)
    BY <1>1, <1>2, <2>1, JobSet
  <2> QED BY <2>2, <2>3, JobBecomes
<1>4. CASE R!validate(t)
  <2>1. PICK outcome \in {"passed_rules", "violations", "errors"} :
           job' = [job EXCEPT ![t].rules = Tail(@),
                              ![t].risk[outcome] = @ \union {Head(job[t].rules)},
                              ![t].violated = @ \/ outcome = "violations"]
    BY <1>4 DEF R!validate
  <2>2. j.rules # <<>> /\ rules' = rules
    BY <1>4 DEF R!validate
  <2>3. Head(j.rules) \in RuleNames /\ Tail(j.rules) \in Seq(RuleNames)
    BY <1>1, <2>2
  <2> DEFINE r == [j.risk EXCEPT ![outcome] = @ \union {Head(j.rules)}]
             v == j.violated \/ outcome = "violations"
             k == [j EXCEPT !.rules = Tail(j.rules), !.risk = r, !.violated = v]
  <2>4. r \in R!RiskResult
    BY <1>1, <2>3 DEF R!RiskResult
  <2>5. Becomes(job, job', t, k)
    BY <1>1, <2>1 DEF Becomes, FlowInv, Blank
  <2> HIDE DEF r, v
  <2>6. JobTyped(k)
    BY <1>1, <2>3, <2>4, JobSet
  <2> QED BY <2>2, <2>5, <2>6, JobBecomes
<1>5. CASE R!Decided(t)
  <2> DEFINE d == R!decide(j.risk)
             k == [j EXCEPT !.decision = d, !.risk = R!NoOutcome]
  <2>1. d \in R!RiskDecision
    BY <1>1 DEF R!decide, R!RiskDecision, R!RiskDecisionType, R!RiskResult
  <2>2. Becomes(job, job', t, k) /\ rules' = rules
    BY <1>5 DEF R!Decided, Becomes, FlowInv
  <2> HIDE DEF d
  <2>3. JobTyped(k)
    BY <1>1, <1>2, <2>1, JobSet
  <2> QED BY <2>2, <2>3, JobBecomes
<1> QED BY <1>3, <1>4, <1>5

\* The factory and the stages of the order manager.
LEMMA OrderTypes ==
    ASSUME FlowInv, TypeInv, NEW t \in Tasks,
           O!create(t) \/ O!validate(t) \/ O!route(t) \/ O!ReadyForExecution(t)
    PROVE  \A u \in Tasks : JobTyped(job'[u])
<1> DEFINE j == job[t]
<1>1. /\ DOMAIN j = DOMAIN Blank /\ JobTyped(j) /\ j.order \in OrderTyped
  BY DEF FlowInv, TaskOK, JobOK, TypeInv, JobTyped
<1>2. ASSUME NEW x \in OrderTyped, job' = [job EXCEPT ![t].order = x]
      PROVE  \A u \in Tasks : JobTyped(job'[u])
  <2> DEFINE k == [j EXCEPT !.order = x]
  <2>1. JobTyped(k) /\ Becomes(job, job', t, k)
    BY <1>1, <1>2, JobSet DEF Becomes
  <2> QED BY <2>1, JobBecomes
<1>3. CASE O!create(t)
  <2>1. ASSUME O!Creatable(j.decision, j.signals[1]), NEW meta \in OrderInputs
        PROVE  [state |-> "created", request |-> O!NewRequest(t, j.signals[1], meta)]
                  \in OrderTyped
    BY <2>1, RequestIs DEF O!Creatable, OrderTyped, O!OrderState
  <2>2. [state |-> "rejected", request |-> None] \in OrderTyped
    BY DEF OrderTyped, O!OrderState
  <2> QED BY <1>2, <1>3, <2>1, <2>2 DEF O!create
<1>4. ASSUME pc[t] \in Ordering, NEW state \in O!OrderState, NEW label,
             O!Settle(t, state, label)
      PROVE  \A u \in Tasks : JobTyped(job'[u])
  <2> DEFINE request == [j.order.request EXCEPT !.state = state]
             x == [j.order EXCEPT !.state = state, !.request = request]
             k == [j EXCEPT !.order = x]
  <2>1. j.order.request \in O!OrderRequest
    BY <1>4 DEF FlowInv, TaskOK, OrderOK, Approved
  <2>2. request \in O!OrderRequest
    BY <2>1 DEF O!OrderRequest
  <2>3. job' = [job EXCEPT ![t] = k]
    BY <1>1, <1>4 DEF O!Settle, FlowInv, OrderTyped, Blank
  <2> HIDE DEF request
  <2>4. x \in OrderTyped
    BY <1>1, <2>2 DEF OrderTyped
  <2> HIDE DEF x
  <2>5. JobTyped(k) /\ Becomes(job, job', t, k)
    BY <1>1, <2>3, <2>4, JobSet DEF Becomes
  <2> QED BY <2>5, JobBecomes
<1>5. CASE O!validate(t) \/ O!route(t) \/ O!ReadyForExecution(t)
  <2>1. {"validated", "routed", "ready_for_execution", "rejected"} \subseteq O!OrderState
    BY DEF O!OrderState
  <2> QED BY <1>4, <1>5, <2>1 DEF O!validate, O!route, O!ReadyForExecution, Ordering
<1> QED BY <1>3, <1>5

\* The execution framework.
LEMMA ExecutionTyped ==
    ASSUME FlowInv, TypeInv, NEW t \in Tasks,
           X!process(t) \/ X!validate(t) \/ X!execute(t) \/ X!route(t)
    PROVE  \A u \in Tasks : JobTyped(job'[u])
<1> DEFINE j == job[t]
<1>1. /\ DOMAIN j = DOMAIN Blank /\ JobTyped(j) /\ j.execution \in X!ExecutionResult
  BY DEF FlowInv, TaskOK, JobOK, TypeInv, JobTyped
<1>2. ASSUME NEW x \in X!ExecutionResult, job' = [job EXCEPT ![t].execution = x]
      PROVE  \A u \in Tasks : JobTyped(job'[u])
  <2> DEFINE k == [j EXCEPT !.execution = x]
  <2>1. JobTyped(k) /\ Becomes(job, job', t, k)
    BY <1>1, <1>2, JobSet DEF Becomes
  <2> QED BY <2>1, JobBecomes
<1>3. ASSUME NEW state \in X!ExecutionState, NEW status \in X!ExecutionStatus,
             job' = [job EXCEPT ![t].execution = [status |-> status, state |-> state]]
      PROVE  \A u \in Tasks : JobTyped(job'[u])
  <2> DEFINE x == [status |-> status, state |-> state]
  <2>1. x \in X!ExecutionResult
    BY DEF X!ExecutionResult
  <2>2. job' = [job EXCEPT ![t].execution = x]
    BY <1>3
  <2> HIDE DEF x
  <2> QED BY <1>2, <2>1, <2>2
<1>4. ASSUME job' = job
      PROVE  \A u \in Tasks : JobTyped(job'[u])
  BY <1>4 DEF TypeInv
<1>5. /\ {"created", "queued", "ready", "failed"} \subseteq X!ExecutionState
      /\ {"pending", "failed", "ready"} \subseteq X!ExecutionStatus
  BY DEF X!ExecutionState, X!ExecutionStatus
<1>6. ASSUME NEW state \in X!ExecutionState, NEW status \in X!ExecutionStatus, NEW label,
             X!transition(t, state, status, label)
      PROVE  \A u \in Tasks : JobTyped(job'[u])
  BY <1>3, <1>4, <1>6 DEF X!transition
<1>7. ASSUME X!Fail(t)
      PROVE  \A u \in Tasks : JobTyped(job'[u])
  BY <1>5, <1>6, <1>7 DEF X!Fail
<1>8. CASE X!process(t)
  BY <1>3, <1>5, <1>8 DEF X!process
<1>9. CASE X!validate(t) \/ X!execute(t)
  BY <1>5, <1>6, <1>7, <1>9 DEF X!validate, X!execute
<1>10. CASE X!route(t)
  <2>1. CASE job' = [job EXCEPT ![t].execution.status = "ready"]
    <3> DEFINE x == [j.execution EXCEPT !.status = "ready"]
    <3>1. x \in X!ExecutionResult
      BY <1>1, <1>5 DEF X!ExecutionResult
    <3>2. job' = [job EXCEPT ![t].execution = x]
      BY <2>1
    <3> HIDE DEF x
    <3> QED BY <1>2, <3>1, <3>2
  <2> QED BY <1>7, <1>10, <2>1 DEF X!route
<1> QED BY <1>8, <1>9, <1>10

\* The exchange framework and the connection of the adapter.
LEMMA ExchangeTyped ==
    ASSUME FlowInv, TypeInv, NEW t \in Tasks,
           E!process(t) \/ E!open(t) \/ E!route(t) \/ E!_close(t)
    PROVE  /\ \A u \in Tasks : JobTyped(job'[u])
           /\ UNCHANGED <<adapters, config, placed, lost>>
           /\ connection' \in B!ConnectionState /\ left_open' \in BOOLEAN
<1> DEFINE j == job[t]
<1>1. /\ DOMAIN j = DOMAIN Blank /\ JobTyped(j)
      /\ connection \in B!ConnectionState /\ left_open \in BOOLEAN
  BY DEF FlowInv, TaskOK, JobOK, TypeInv, SharedTyped
<1>2. UNCHANGED <<adapters, config, placed, lost>>
  BY DEF E!process, E!open, E!route, E!_close, E!shared
<1>3. connection' \in B!ConnectionState /\ left_open' \in BOOLEAN
  BY <1>1 DEF E!process, E!open, E!route, E!_close, E!Venue!connect, E!Venue!close,
              B!ConnectionState
<1>4. ASSUME NEW x \in ExchangeInputs, job' = [job EXCEPT ![t].context = x]
      PROVE  \A u \in Tasks : JobTyped(job'[u])
  <2> DEFINE k == [j EXCEPT !.context = x]
  <2>1. JobTyped(k) /\ Becomes(job, job', t, k)
    BY <1>1, <1>4, JobSet DEF Becomes
  <2> QED BY <2>1, JobBecomes
<1>5. ASSUME NEW x \in {"failed", "ready"}, job' = [job EXCEPT ![t].result = x]
      PROVE  \A u \in Tasks : JobTyped(job'[u])
  <2> DEFINE k == [j EXCEPT !.result = x]
  <2>1. JobTyped(k) /\ Becomes(job, job', t, k)
    BY <1>1, <1>5, JobSet DEF Becomes, E!ExchangeStatus
  <2> QED BY <2>1, JobBecomes
<1>6. ASSUME job' = job
      PROVE  \A u \in Tasks : JobTyped(job'[u])
  BY <1>6 DEF TypeInv
<1>7. \A u \in Tasks : JobTyped(job'[u])
  <2>1. CASE E!process(t)
    BY <1>4, <1>5, <2>1 DEF E!process
  <2>2. CASE E!open(t)
    BY <1>5, <1>6, <2>2 DEF E!open
  <2>3. CASE E!route(t) \/ E!_close(t)
    BY <1>5, <1>6, <2>3 DEF E!route, E!_close
  <2> QED BY <2>1, <2>2, <2>3
<1> QED BY <1>2, <1>3, <1>7

\* The Binance adapter: the request and the answers of the exchange.
LEMMA BinanceTyped ==
    ASSUME FlowInv, TypeInv, NEW t \in Tasks,
           \/ B!submit(t) \/ B!Retry(t) \/ B!Answered(t) \/ B!CutOff(t)
           \/ B!reconnect(t) \/ B!Reconnected(t)
    PROVE  /\ \A u \in Tasks : JobTyped(job'[u])
           /\ config' = config
           /\ connection' \in B!ConnectionState /\ left_open' \in BOOLEAN
           /\ placed' \in [Tasks -> Nat] /\ lost' \in [Tasks -> Nat]
<1> DEFINE j == job[t]
<1>1. /\ DOMAIN j = DOMAIN Blank /\ JobTyped(j)
      /\ connection \in B!ConnectionState /\ left_open \in BOOLEAN
      /\ placed \in [Tasks -> Nat] /\ lost \in [Tasks -> Nat]
  BY DEF FlowInv, TaskOK, JobOK, TypeInv, SharedTyped
<1>2. /\ config' = config /\ connection' \in B!ConnectionState /\ left_open' \in BOOLEAN
  BY <1>1 DEF B!submit, B!Retry, B!Answered, B!CutOff, B!LeaveOpen, B!reconnect,
              B!Reconnected, B!ConnectionState
<1>3. ASSUME NEW o, B!Deliver(t, o)
      PROVE  placed' \in [Tasks -> Nat] /\ lost' \in [Tasks -> Nat]
  <2>1. placed[t] \in Nat /\ lost[t] \in Nat
    BY <1>1
  <2> QED BY <1>1, <1>3, <2>1 DEF B!Deliver
<1>4. placed' \in [Tasks -> Nat] /\ lost' \in [Tasks -> Nat]
  <2>1. CASE B!Retry(t) \/ B!Answered(t) \/ B!CutOff(t)
    BY <1>3, <2>1 DEF B!Retry, B!Answered, B!CutOff
  <2>2. CASE B!submit(t) \/ B!reconnect(t) \/ B!Reconnected(t)
    BY <1>1, <2>2 DEF B!submit, B!reconnect, B!Reconnected
  <2> QED BY <2>1, <2>2
<1>5. CASE B!submit(t)
  <2>1. CASE job' = [job EXCEPT ![t].result = "failed"]
    <3> DEFINE k == [j EXCEPT !.result = "failed"]
    <3>1. JobTyped(k) /\ Becomes(job, job', t, k)
      BY <1>1, <2>1, JobSet DEF Becomes, E!ExchangeStatus
    <3>2. \A u \in Tasks : JobTyped(job'[u])
      BY <3>1, JobBecomes
    <3> QED BY <1>2, <1>4, <3>2
  <2>2. ASSUME NEW y,
               job' = [job EXCEPT ![t].wire = B!translate(j.order.request),
                                  ![t].attempts = y]
        PROVE  \A u \in Tasks : JobTyped(job'[u])
    <3> DEFINE wire == B!translate(j.order.request)
               k == [j EXCEPT !.wire = wire, !.attempts = y]
    <3>1. j.order.request \in O!OrderRequest
      <4>1. /\ pc[t] = "submit" /\ OrderOK(pc[t], j) /\ ExecutionOK(pc[t], j)
        BY <1>5 DEF B!submit, FlowInv, TaskOK
      <4>2. O!ready(j.order)
        BY <4>1 DEF ExecutionOK, Submitting
      <4> QED BY <4>1, <4>2 DEF OrderOK, Approved, BeforeOrder, BeforeRules, Ordering
    <3>2. wire \in B!BinanceOrderRequest
      BY <3>1, TranslateIs
    <3>3. Becomes(job, job', t, k)
      BY <2>2 DEF Becomes, FlowInv
    <3> HIDE DEF wire
    <3>4. JobTyped(k)
      BY <1>1, <3>2, JobSet
    <3> QED BY <3>3, <3>4, JobBecomes
  <2> QED BY <1>2, <1>4, <1>5, <2>1, <2>2 DEF B!submit
<1>6. CASE B!Retry(t)
  <2> DEFINE k == [j EXCEPT !.attempts = @ - 1]
  <2>1. Becomes(job, job', t, k)
    BY <1>6 DEF B!Retry, Becomes
  <2>2. JobTyped(k)
    BY <1>1, JobSet
  <2>3. \A u \in Tasks : JobTyped(job'[u])
    BY <2>1, <2>2, JobBecomes
  <2> QED BY <1>2, <1>4, <2>3
<1>7. CASE B!Answered(t)
  <2>1. PICK o \in B!Outcomes, x \in {"ready", "rejected", "failed"} :
          job' = [job EXCEPT ![t].attempts = 0,
                             ![t].response = B!to_exchange_response(o.answer),
                             ![t].result = x]
    BY <1>7 DEF B!Answered
  <2> DEFINE y == B!to_exchange_response(o.answer)
             k == [j EXCEPT !.attempts = 0, !.response = y, !.result = x]
  <2>2. Becomes(job, job', t, k)
    BY <2>1 DEF Becomes, FlowInv
  <2>3. x \in E!ExchangeStatus
    BY DEF E!ExchangeStatus
  <2> HIDE DEF y
  <2>4. JobTyped(k)
    BY <1>1, <2>3, JobSet
  <2>5. \A u \in Tasks : JobTyped(job'[u])
    BY <2>2, <2>4, JobBecomes
  <2> QED BY <1>2, <1>4, <2>5
<1>8. CASE B!reconnect(t) \/ B!Reconnected(t)
  <2>1. job' = job
    BY <1>8 DEF B!reconnect, B!Reconnected
  <2> QED BY <1>2, <1>4, <2>1 DEF TypeInv
<1>9. CASE B!CutOff(t)
  <2> DEFINE k == [j EXCEPT !.attempts = 0]
  <2>1. Becomes(job, job', t, k)
    BY <1>9 DEF B!CutOff, Becomes
  <2>2. JobTyped(k)
    BY <1>1, JobSet
  <2>3. \A u \in Tasks : JobTyped(job'[u])
    BY <2>1, <2>2, JobBecomes
  <2> QED BY <1>2, <1>4, <2>3
<1> QED BY <1>5, <1>6, <1>7, <1>8, <1>9

\* The registries and the rules are managed.
LEMMA ManageTyped ==
    ASSUME FlowInv, TypeInv, Manage
    PROVE  TypeInv'
<1> USE DEF TypeInv, SharedTyped
<1>1. CASE /\ \/ \E s \in Names : \/ S!register(s) \/ S!unregister(s)
                                  \/ \E on \in BOOLEAN : S!_set_enabled(s, on)
              \/ \E t \in Tasks : S!start(t) \/ S!stop(t)
           /\ UNCHANGED <<rules, adapters, binance>>
  <2>1. UNCHANGED <<rules, adapters, config, connection, left_open, placed, lost>>
    BY <1>1 DEF binance
  <2>2. registry \in Seq(S!Entry) /\ Len(registry) \in Nat /\ DOMAIN registry = 1..Len(registry)
    OBVIOUS
  <2>3. ASSUME NEW s \in Names, S!register(s)
        PROVE  TypeInv'
    <3>1. [strategy |-> s, enabled |-> FALSE] \in S!Entry
      BY DEF S!Entry
    <3>2. registry' \in Seq(S!Entry) /\ UNCHANGED <<started, job>>
      BY <2>2, <2>3, <3>1 DEF S!register
    <3> QED BY <2>1, <3>2
  <2>4. ASSUME NEW s \in Names, S!unregister(s)
        PROVE  TypeInv'
    <3>1. PICK i \in 1..Len(registry) : registry' = RemoveAt(registry, i)
      BY <2>2, <2>4 DEF S!unregister, S!RemoveAt, RemoveAt
    <3>2. /\ SubSeq(registry, 1, i - 1) \in Seq(S!Entry)
          /\ SubSeq(registry, i + 1, Len(registry)) \in Seq(S!Entry)
      BY <2>2
    <3>3. registry' \in Seq(S!Entry)
      BY <3>1, <3>2 DEF RemoveAt
    <3>4. UNCHANGED <<started, job>>
      BY <2>4 DEF S!unregister
    <3> QED BY <2>1, <3>3, <3>4
  <2>5. ASSUME NEW s \in Names, NEW on \in BOOLEAN, S!_set_enabled(s, on)
        PROVE  TypeInv'
    <3>4. \A i \in 1..Len(registry) : registry[i] \in S!Entry
      BY <2>2
    <3>1. \A i \in 1..Len(registry) : [registry[i] EXCEPT !.enabled = on] \in S!Entry
      BY <3>4 DEF S!Entry
    <3>2. registry' \in [1..Len(registry) -> S!Entry]
      BY <2>2, <2>5, <3>1 DEF S!_set_enabled
    <3>3. registry' \in Seq(S!Entry) /\ UNCHANGED <<started, job>>
      BY <2>2, <2>5, <3>2 DEF S!_set_enabled
    <3> QED BY <2>1, <3>3
  <2>6. ASSUME NEW t \in Tasks, S!start(t) \/ S!stop(t)
        PROVE  TypeInv'
    BY <2>1, <2>6, StrategyTyped
  <2> QED BY <1>1, <2>3, <2>4, <2>5, <2>6
<1>2. CASE /\ \E r \in RuleNames : \/ R!add_rule(r)
                                   \/ \E on \in BOOLEAN : R!_set_enabled(r, on)
           /\ UNCHANGED <<registry, started, adapters, binance>>
  <2>1. UNCHANGED <<registry, started, adapters, config, connection, left_open, placed, lost>>
    BY <1>2 DEF binance
  <2>2. rules \in Seq(R!RuleEntry) /\ Len(rules) \in Nat /\ DOMAIN rules = 1..Len(rules)
    OBVIOUS
  <2>3. ASSUME NEW r \in RuleNames, R!add_rule(r)
        PROVE  TypeInv'
    <3>1. [rule |-> r, enabled |-> TRUE] \in R!RuleEntry
      BY DEF R!RuleEntry
    <3>2. rules' \in Seq(R!RuleEntry) /\ job' = job
      BY <2>2, <2>3, <3>1 DEF R!add_rule
    <3> QED BY <2>1, <3>2
  <2>4. ASSUME NEW r \in RuleNames, NEW on \in BOOLEAN, R!_set_enabled(r, on)
        PROVE  TypeInv'
    <3>4. \A i \in 1..Len(rules) : rules[i] \in R!RuleEntry
      BY <2>2
    <3>1. \A i \in 1..Len(rules) : [rules[i] EXCEPT !.enabled = on] \in R!RuleEntry
      BY <3>4 DEF R!RuleEntry
    <3>2. rules' \in [1..Len(rules) -> R!RuleEntry]
      BY <2>2, <2>4, <3>1 DEF R!_set_enabled
    <3>3. rules' \in Seq(R!RuleEntry) /\ job' = job
      BY <2>2, <2>4, <3>2 DEF R!_set_enabled
    <3> QED BY <2>1, <3>3
  <2> QED BY <1>2, <2>3, <2>4
<1>3. CASE /\ \E a \in AdapterNames : E!register(a) \/ E!unregister(a)
           /\ UNCHANGED <<registry, started, rules>>
  <2>1. /\ adapters' \subseteq AdapterNames
        /\ UNCHANGED <<config, connection, left_open, placed, lost, job>>
    BY <1>3 DEF E!register, E!unregister, E!others
  <2> QED BY <1>3, <2>1
<1>4. CASE /\ \E t \in Tasks : B!reconnect(t)
           /\ UNCHANGED <<registry, started, rules, adapters>>
  <2> HIDE DEF TypeInv, SharedTyped
  <2>1. PICK t \in Tasks : B!reconnect(t)
    BY <1>4
  <2>2. /\ \A u \in Tasks : JobTyped(job'[u])
        /\ config' = config
        /\ connection' \in B!ConnectionState /\ left_open' \in BOOLEAN
        /\ placed' \in [Tasks -> Nat] /\ lost' \in [Tasks -> Nat]
    BY <2>1, BinanceTyped
  <2> QED BY <1>4, <2>2 DEF TypeInv, SharedTyped
<1> QED BY <1>1, <1>2, <1>3, <1>4 DEF Manage

LEMMA TypeInit == Init => TypeInv
<1> SUFFICES ASSUME Init PROVE TypeInv
  OBVIOUS
<1> DEFINE f == [s \in FirstNames |-> [strategy |-> s, enabled |-> TRUE]]
           g == [r \in FirstRules |-> [rule |-> r, enabled |-> TRUE]]
           first == {f[s] : s \in FirstNames}
           checks == {g[r] : r \in FirstRules}
<1>1. IsFiniteSet(first) /\ first \subseteq S!Entry
  <2>1. f \in Surjection(FirstNames, first)
    BY DEF Surjection
  <2>2. \A s \in FirstNames : f[s] \in S!Entry
    BY SetupAssumption DEF S!Entry
  <2> HIDE DEF f
  <2>3. IsFiniteSet(first)
    <3> HIDE DEF first
    <3> QED BY <2>1, SetupAssumption, FS_Surjection
  <2> QED BY <2>2, <2>3
<1>2. IsFiniteSet(checks) /\ checks \subseteq R!RuleEntry
  <2>1. g \in Surjection(FirstRules, checks)
    BY DEF Surjection
  <2>2. \A r \in FirstRules : g[r] \in R!RuleEntry
    BY SetupAssumption DEF R!RuleEntry
  <2> HIDE DEF g
  <2>3. IsFiniteSet(checks)
    <3> HIDE DEF checks
    <3> QED BY <2>1, SetupAssumption, FS_Surjection
  <2> QED BY <2>2, <2>3
<1>3. registry \in Seq(first) /\ rules \in Seq(checks)
  <2>1. registry = SetToSeq(first) /\ rules = SetToSeq(checks)
    BY DEF Init
  <2> HIDE DEF first, checks
  <2> QED BY <1>1, <1>2, <2>1, SetToSeqIs
<1>4. registry \in Seq(S!Entry) /\ rules \in Seq(R!RuleEntry)
  <2> HIDE DEF first, checks
  <2> QED BY <1>1, <1>2, <1>3
<1>5. started \subseteq Names /\ adapters \subseteq AdapterNames /\ config \in B!BinanceConfig
  BY SetupAssumption DEF Init
<1>6. connection \in B!ConnectionState /\ left_open \in BOOLEAN
  BY DEF Init, B!ConnectionState
<1>7. placed \in [Tasks -> Nat] /\ lost \in [Tasks -> Nat]
  BY DEF Init
<1>8. \A t \in Tasks : JobTyped(job[t])
  BY BlankTyped DEF Init
<1> QED BY <1>4, <1>5, <1>6, <1>7, <1>8 DEF TypeInv, SharedTyped

LEMMA TypeStep == FlowInv /\ TypeInv /\ [Next]_vars => TypeInv'
<1> SUFFICES ASSUME FlowInv, TypeInv, [Next]_vars PROVE TypeInv'
  OBVIOUS
<1> DEFINE Typed == \A u \in Tasks : JobTyped(job'[u])
<1>1. CASE UNCHANGED vars
  BY <1>1 DEF vars, TypeInv, SharedTyped
<1>2. CASE Manage
  BY <1>2, ManageTyped
<1>3. ASSUME NEW t \in Tasks, Execute(t) \/ StrategySteps(t)
      PROVE  TypeInv'
  <2>1. UNCHANGED <<rules, adapters, config, connection, left_open, placed, lost>>
    BY <1>3 DEF Execute, StrategySteps, binance
  <2>2. Typed /\ registry' = registry /\ started' \subseteq Names
    BY <1>3, StrategyTyped DEF Execute, StrategySteps
  <2> QED BY <2>1, <2>2 DEF TypeInv, SharedTyped
<1>4. ASSUME NEW t \in Tasks, RiskSteps(t)
      PROVE  TypeInv'
  <2>1. UNCHANGED <<registry, started, adapters, config, connection, left_open, placed, lost>>
    BY <1>4 DEF RiskSteps, binance
  <2>2. Typed /\ rules' = rules
    BY <1>4, RiskTyped DEF RiskSteps
  <2> QED BY <2>1, <2>2 DEF TypeInv, SharedTyped
<1>5. ASSUME NEW t \in Tasks, OrderSteps(t)
      PROVE  TypeInv'
  <2>1. UNCHANGED <<registry, started, rules, adapters, config, connection, left_open, placed, lost>>
    BY <1>5 DEF OrderSteps, binance
  <2>2. Typed
    BY <1>5, OrderTypes, ExecutionTyped DEF OrderSteps
  <2> QED BY <2>1, <2>2 DEF TypeInv, SharedTyped
<1>6. ASSUME NEW t \in Tasks, ExchangeSteps(t)
      PROVE  TypeInv'
  <2>1. UNCHANGED <<registry, started, rules>>
    BY <1>6 DEF ExchangeSteps
  <2>2. /\ Typed /\ UNCHANGED <<adapters, config, placed, lost>>
        /\ connection' \in B!ConnectionState /\ left_open' \in BOOLEAN
    BY <1>6, ExchangeTyped DEF ExchangeSteps
  <2> QED BY <2>1, <2>2 DEF TypeInv, SharedTyped
<1>7. ASSUME NEW t \in Tasks, BinanceSteps(t)
      PROVE  TypeInv'
  <2>1. UNCHANGED <<registry, started, rules, adapters>>
    BY <1>7 DEF BinanceSteps
  <2>2. /\ Typed /\ config' = config
        /\ connection' \in B!ConnectionState /\ left_open' \in BOOLEAN
        /\ placed' \in [Tasks -> Nat] /\ lost' \in [Tasks -> Nat]
    BY <1>7, BinanceTyped DEF BinanceSteps
  <2> QED BY <2>1, <2>2 DEF TypeInv, SharedTyped
<1>8. ASSUME NEW t \in Tasks, DriverSteps(t)
      PROVE  TypeInv'
  <2>1. UNCHANGED <<registry, started, rules, adapters, config, connection, left_open>>
    BY <1>8 DEF DriverSteps
  <2>2. Typed /\ placed' \in [Tasks -> Nat] /\ lost' \in [Tasks -> Nat]
    BY <1>8, DriverTyped DEF DriverSteps
  <2> QED BY <2>1, <2>2 DEF TypeInv, SharedTyped
<1>9. ASSUME NEW t \in Tasks, CutShort(t)
      PROVE  TypeInv'
  <2>1. UNCHANGED <<registry, started, rules, adapters, config, connection>>
    BY <1>9 DEF CutShort
  <2>2. Typed /\ placed' \in [Tasks -> Nat] /\ lost' \in [Tasks -> Nat]
    BY <1>9, DriverTyped
  <2>3. left_open' \in BOOLEAN
    BY <1>9 DEF CutShort, B!LeaveOpen, TypeInv, SharedTyped
  <2> QED BY <2>1, <2>2, <2>3 DEF TypeInv, SharedTyped
<1> QED BY <1>1, <1>2, <1>3, <1>4, <1>5, <1>6, <1>7, <1>8, <1>9 DEF Next, Continue

\* The state has the types of the classes of the six packages, whatever the tasks and
\* the application do: in particular what is translated for Binance is always one of
\* its requests (adapters/binance/converters.py), also while the registries change.
THEOREM FlowTyped == Spec => []TypeOK
<1>1. FlowInv /\ TypeInv => TypeOK
  BY DEF TypeInv, SharedTyped, JobTyped, OrderTyped, O!OrderResult, TypeOK
<1>2. Init => FlowInv /\ TypeInv
  BY FlowInit, TypeInit
<1>3. FlowInv /\ TypeInv /\ [Next]_vars => (FlowInv /\ TypeInv)'
  BY FlowStep, TypeStep
<1> QED BY <1>1, <1>2, <1>3, PTL DEF Spec

=============================================================================
