------------------------------- MODULE Agents -------------------------------
(***************************************************************************)
(* The decision framework (agents/): five agents give their opinion of a    *)
(* context one after the other, the CEO last and with the others' opinions,  *)
(* and the consensus of the opinions becomes a decision.  decide() holds an  *)
(* asyncio lock across the awaits of all agents; the registry of agents may  *)
(* change meanwhile.                                                         *)
(***************************************************************************)
EXTENDS Rationals, Functions

CONSTANTS
    Deciders,       \* the tasks that call decide()
    Requests,       \* DecisionContexts: candle, signals, risk decision,
                    \* performance and parameters, what is missing being None
    None,
    MaxRequests     \* bound: calls of decide() and of the registry

VARIABLES
    _agents,      \* InMemoryAgentRegistry._agents, in insertion order; a faulty
                  \* agent is an injected one whose evaluate() raises
    _decisions,   \* the manager's DecisionHistory
    holder,       \* the task that holds the lock, or None
    waiting,      \* the tasks that wait for it, first come first served
    deciding,     \* per task, the decide() it is in
    answers,      \* per task, the DecisionResult of its last call
    requests      \* calls so far

agents == <<_agents, _decisions, holder, waiting, deciding, answers, requests>>

AgentRole == <<"market", "strategy", "risk", "portfolio", "ceo">>

Agent(role, faulty) == [role |-> role, faulty |-> faulty]

Out == [at |-> "out"]
NoAnswer == [status |-> "none"]

-----------------------------------------------------------------------------
(* The opinions of the default agents.                                       *)

_bucket(direction) ==
    CASE direction \in {"buy", "increase"} -> "buy"
      [] direction \in {"sell", "close", "reduce"} -> "sell"
      [] OTHER -> "hold"

_clamp(x) == IF x \prec Zero THEN Zero ELSE IF One \prec x THEN One ELSE x

AgentOpinion(role, direction, confidence, approve) ==
    [role |-> role, direction |-> direction, confidence |-> _clamp(confidence),
     approve |-> approve]

DefaultMarketAgent(c) ==
    LET move == (c.candle.close -- c.candle.open) \oslash c.candle.open
        size == IF move \prec Zero THEN Zero -- move ELSE move
    IN  IF c.candle = None \/ c.candle.open \preceq Zero
        THEN AgentOpinion("market", "hold", Zero, TRUE)
        ELSE AgentOpinion("market",
                          IF Zero \prec move THEN "buy"
                          ELSE IF move \prec Zero THEN "sell" ELSE "hold",
                          Rat(10) \otimes size, TRUE)

\* The confidence behind each direction, and the direction with most of it: the
\* first one of the dict if several have as much.
Weights(items, weight(_)) ==
    LET total(d) == RatSum([i \in {i \in DOMAIN items : _bucket(items[i].direction) = d} |->
                               weight(items[i])])
    IN  [buy |-> total("buy"), sell |-> total("sell"), hold |-> total("hold")]
Strongest(w) ==
    IF w["sell"] \preceq w["buy"] /\ w["hold"] \preceq w["buy"] THEN "buy"
    ELSE IF w["hold"] \preceq w["sell"] THEN "sell" ELSE "hold"
Sum(w) == w["buy"] ++ w["sell"] ++ w["hold"]

DefaultStrategyAgent(c) ==
    LET w == Weights(c.signals, LAMBDA s : s.confidence)
    IN  IF Sum(w) \preceq Zero THEN AgentOpinion("strategy", "hold", Zero, TRUE)
        ELSE AgentOpinion("strategy", Strongest(w), w[Strongest(w)] \oslash Sum(w), TRUE)

\* Mutant of DefaultRiskAgent: a missing risk decision counts as approval.
Mutant_NoRiskIsFine(c) ==
    AgentOpinion("risk", "hold", IF c.risk_decision = None THEN Zero ELSE One,
                 c.risk_decision \in {None, "approved"})
DefaultRiskAgent(c) ==
    AgentOpinion("risk", "hold", IF c.risk_decision = None THEN Zero ELSE One,
                 c.risk_decision = "approved")

DefaultPortfolioAgent(c) ==
    AgentOpinion("portfolio", "hold",
                 IF c.total_return = None THEN Zero
                 ELSE IF c.total_return \prec Zero THEN Ratio(6, 10) ELSE Ratio(3, 10),
                 TRUE)

Mean(items, value(_)) ==
    IF items = <<>> THEN Zero
    ELSE RatSum([i \in DOMAIN items |-> value(items[i])]) \oslash Rat(Len(items))

DefaultCEOAgent(opinions) ==
    IF opinions = <<>> THEN AgentOpinion("ceo", "hold", Zero, TRUE)
    ELSE AgentOpinion("ceo", Strongest(Weights(opinions, LAMBDA o : o.confidence)),
                      Mean(opinions, LAMBDA o : o.confidence),
                      \A i \in DOMAIN opinions : opinions[i].approve)

\* What the agent of a role makes of the context, which the CEO gets with_opinions.
evaluate(role, c, opinions) ==
    CASE role = "market"    -> DefaultMarketAgent(c)
      [] role = "strategy"  -> DefaultStrategyAgent(c)
      [] role = "risk"      -> DefaultRiskAgent(c)
      [] role = "portfolio" -> DefaultPortfolioAgent(c)
      [] OTHER              -> DefaultCEOAgent(opinions)

-----------------------------------------------------------------------------
(* Consensus, summary and metrics.                                           *)

weight_for ==
    [market |-> One, strategy |-> One, risk |-> Zero, portfolio |-> Ratio(1, 2),
     ceo |-> Rat(2)]

Rate(items, test(_)) == Mean(items, LAMBDA x : IF test(x) THEN One ELSE Zero)
Agreement(opinions, direction) ==
    Rate(opinions, LAMBDA o : _bucket(o.direction) = direction)

ConsensusResult(direction, confidence, approved, agreement_rate) ==
    [direction |-> direction, confidence |-> confidence, approved |-> approved,
     agreement_rate |-> agreement_rate]

\* The confidence behind each direction, by the weights of the roles.
tally(opinions) == Weights(opinions, LAMBDA o : weight_for[o.role] \otimes o.confidence)

_resolve(w, opinions, parameters) ==
    LET direction ==
            IF w["sell"] \prec w["buy"] /\ w["hold"] \preceq w["buy"] THEN "buy"
            ELSE IF w["buy"] \prec w["sell"] /\ w["hold"] \preceq w["sell"] THEN "sell"
            ELSE "hold"
        confidence == IF Zero \prec Sum(w) THEN w[direction] \oslash Sum(w) ELSE Zero
        vetoed == parameters.risk_veto /\ \E i \in DOMAIN opinions : ~opinions[i].approve
    IN  ConsensusResult(direction, confidence,
                        /\ ~vetoed
                        /\ direction # "hold"
                        /\ parameters.min_confidence \preceq confidence,
                        Agreement(opinions, direction))

Votes(items, direction) == Len(SelectSeq(items, LAMBDA o : _bucket(o.direction) = direction))

_summary(opinions, consensus) ==
    [agent_count |-> Len(opinions), buy_votes |-> Votes(opinions, "buy"),
     sell_votes |-> Votes(opinions, "sell"),
     hold_votes |-> Len(opinions) - Votes(opinions, "buy") - Votes(opinions, "sell"),
     approved |-> consensus.approved,
     average_confidence |-> Mean(opinions, LAMBDA o : o.confidence),
     agreement_rate |-> consensus.agreement_rate]

_decision_agreement(d) == Agreement(d.opinions, d.direction)

_calculate(decisions) ==
    [total_decisions |-> Len(decisions),
     approval_rate |-> Rate(decisions, LAMBDA d : d.approved),
     rejection_rate |-> Rate(decisions, LAMBDA d : ~d.approved),
     agreement_rate |-> Mean(decisions, _decision_agreement),
     average_confidence |-> Mean(decisions, LAMBDA d : d.confidence),
     buy_decisions |-> Votes(decisions, "buy"),
     sell_decisions |-> Votes(decisions, "sell"),
     hold_decisions |-> Len(decisions) - Votes(decisions, "buy") - Votes(decisions, "sell"),
     average_agent_count |-> Mean(decisions, LAMBDA d : Rat(Len(d.opinions)))]

-----------------------------------------------------------------------------
(* The registry.                                                             *)

AgentsInit ==
    /\ _agents = [i \in DOMAIN AgentRole |-> Agent(AgentRole[i], FALSE)]
    /\ _decisions = <<>>
    /\ holder = None
    /\ waiting = <<>>
    /\ deciding = [t \in Deciders |-> Out]
    /\ answers = [t \in Deciders |-> NoAnswer]
    /\ requests = 0

Reg(new) ==
    /\ new # _agents
    /\ requests < MaxRequests
    /\ requests' = requests + 1
    /\ _agents' = new
    /\ UNCHANGED <<_decisions, holder, waiting, deciding, answers>>

\* An agent of a role that is registered takes its place in the dict.
register(agent) ==
    IF \E i \in DOMAIN _agents : _agents[i].role = agent.role
    THEN Reg([i \in DOMAIN _agents |->
                 IF _agents[i].role = agent.role THEN agent ELSE _agents[i]])
    ELSE Reg(Append(_agents, agent))

\* A role has at most one agent; that of a role that has none changes nothing.
unregister(role) ==
    \E i \in DOMAIN _agents :
        /\ _agents[i].role = role
        /\ Reg(SubSeq(_agents, 1, i - 1) \o SubSeq(_agents, i + 1, Len(_agents)))

clear == Reg(<<>>)

-----------------------------------------------------------------------------
(* decide().                                                                 *)

decide(t, c) ==
    /\ deciding[t] = Out
    /\ requests < MaxRequests
    /\ requests' = requests + 1
    /\ deciding' = [deciding EXCEPT ![t] = [at |-> "lock", id |-> requests', context |-> c]]
    /\ waiting' = Append(waiting, t)
    /\ UNCHANGED <<_agents, _decisions, holder, answers>>

\* The lock is taken and the agents are listed: analysts first, then one CEO.
Acquire(t) ==
    /\ deciding[t].at = "lock"
    /\ holder = None
    /\ waiting # <<>> /\ Head(waiting) = t
    /\ holder' = t
    /\ waiting' = Tail(waiting)
    /\ deciding' = [deciding EXCEPT ![t] =
           [at |-> "evaluate", id |-> deciding[t].id, context |-> deciding[t].context,
            left |-> SelectSeq(_agents, LAMBDA a : a.role # "ceo")
                     \o SelectSeq(_agents, LAMBDA a : a.role = "ceo"),
            opinions |-> <<>>, events |-> <<"DecisionRequested">>]]
    /\ UNCHANGED <<_agents, _decisions, answers, requests>>

_evaluate(t) ==
    /\ deciding[t].at = "evaluate"
    /\ deciding[t].left # <<>>
    /\ LET agent == Head(deciding[t].left)
       IN  /\ ~agent.faulty
           /\ deciding' = [deciding EXCEPT
                  ![t].left = Tail(@),
                  ![t].opinions = Append(@, evaluate(agent.role, deciding[t].context, @)),
                  ![t].events = Append(@, "AgentEvaluated")]
    /\ UNCHANGED <<_agents, _decisions, holder, waiting, answers, requests>>

Publishing(t, events) ==
    deciding' = [deciding EXCEPT ![t] = [at |-> "publish", events |-> events]]

\* Mutant of _fail: the lock stays taken.
Mutant_FailLocked(t) ==
    /\ deciding[t].at = "evaluate"
    /\ deciding[t].left # <<>>
    /\ Head(deciding[t].left).faulty
    /\ Publishing(t, <<"AgentErrorOccurred", "DecisionErrorOccurred">>)
    /\ answers' = [answers EXCEPT ![t] = [status |-> "failed"]]
    /\ UNCHANGED <<_agents, _decisions, holder, waiting, requests>>
\* An agent raises: the call fails, the events it has collected are dropped.
_fail(t) ==
    /\ deciding[t].at = "evaluate"
    /\ deciding[t].left # <<>>
    /\ Head(deciding[t].left).faulty
    /\ holder' = None
    /\ Publishing(t, <<"AgentErrorOccurred", "DecisionErrorOccurred">>)
    /\ answers' = [answers EXCEPT ![t] = [status |-> "failed"]]
    /\ UNCHANGED <<_agents, _decisions, waiting, requests>>

\* Mutant of append: the decision takes the place of the last one.
Mutant_ReplaceLast(decisions, decision) ==
    IF decisions = <<>> THEN <<decision>> ELSE [decisions EXCEPT ![Len(decisions)] = decision]
append(decisions, decision) == Append(decisions, decision)

Decision(d, consensus) ==
    [id |-> d.id, context |-> d.context, opinions |-> d.opinions,
     direction |-> consensus.direction, approved |-> consensus.approved,
     confidence |-> consensus.confidence]

\* Consensus, the history and the metrics of it; then the lock is released.
_decide(t) ==
    /\ deciding[t].at = "evaluate"
    /\ deciding[t].left = <<>>
    /\ LET d == deciding[t] IN
       \E w \in {tally(d.opinions)} :
       \E consensus \in {_resolve(w, d.opinions, d.context.parameters)} :
       \E decision \in {Decision(d, consensus)} :
           /\ _decisions' = append(_decisions, decision)
           /\ answers' = [answers EXCEPT ![t] =
                  [status |-> "success", decision |-> decision,
                   summary |-> _summary(d.opinions, consensus),
                   metrics |-> _calculate(_decisions')]]
           /\ Publishing(t, d.events \o
                  <<"ConsensusReached",
                    IF decision.approved THEN "DecisionMade" ELSE "DecisionRejected",
                    "DecisionSnapshotCreated", "DecisionMetricsUpdated">>)
    /\ holder' = None
    /\ UNCHANGED <<_agents, waiting, requests>>

\* The events are published, which touches nothing else here, and the call
\* returns.
Publish(t) ==
    /\ deciding[t].at = "publish"
    /\ deciding' = [deciding EXCEPT ![t] = Out]
    /\ UNCHANGED <<_agents, _decisions, holder, waiting, answers, requests>>

\* The task is cancelled at an await: the lock, or its place in the queue, is
\* given up and no event is published any more.
Cancel(t) ==
    /\ deciding[t] # Out
    /\ holder' = IF holder = t THEN None ELSE holder
    /\ waiting' = SelectSeq(waiting, LAMBDA w : w # t)
    /\ deciding' = [deciding EXCEPT ![t] = Out]
    /\ UNCHANGED <<_agents, _decisions, answers, requests>>

DecideStep(t) == Acquire(t) \/ _evaluate(t) \/ _fail(t) \/ _decide(t) \/ Publish(t)

AgentsNext ==
    \/ \E t \in Deciders :
        \/ \E c \in Requests : decide(t, c)
        \/ DecideStep(t)
        \/ Cancel(t)
    \/ \E role \in {"risk", "ceo"} :
        \/ \E faulty \in BOOLEAN : register(Agent(role, faulty))
        \/ unregister(role)
    \/ clear

\* The event loop runs every task that can go on, and agents end.
AgentsFairness == \A t \in Deciders : WF_agents(DecideStep(t))

-----------------------------------------------------------------------------
(* Properties.                                                               *)

AgentsTypeOK ==
    /\ Range(_agents) \subseteq {Agent(role, faulty) : role \in Range(AgentRole), faulty \in BOOLEAN}
    /\ holder \in Deciders \union {None}
    /\ \A t \in Deciders :
           /\ deciding[t].at \in {"out", "lock", "evaluate", "publish"}
           /\ answers[t].status \in {"none", "failed", "success"}

\* A decision that is approved under risk_veto was one the risk framework had
\* approved, if the risk agent was among those asked; and what is approved is a
\* trade, never a hold.
VetoHolds ==
    \A i \in DOMAIN _decisions : LET d == _decisions[i] IN
        d.approved =>
            /\ (/\ d.context.parameters.risk_veto
                /\ \E j \in DOMAIN d.opinions : d.opinions[j].role = "risk") =>
                   d.context.risk_decision = "approved"
            /\ d.direction \in {"buy", "sell"}

\* The decision a caller is told of is in the history, once, where the metrics it
\* is given end: none is lost however the calls overlap, fail or are cancelled.
DecisionsAreKept ==
    /\ AgentsTypeOK
    /\ \A t \in Deciders : answers[t].status = "success" =>
           /\ answers[t].metrics.total_decisions \in DOMAIN _decisions
           /\ _decisions[answers[t].metrics.total_decisions] = answers[t].decision
    /\ \A i, j \in DOMAIN _decisions : _decisions[i].id = _decisions[j].id => i = j

\* Whatever agents fail and tasks are cancelled, a call of decide() ends: the lock
\* does not stay taken.
DecideReturns == \A t \in Deciders : deciding[t] # Out ~> deciding[t] = Out
=============================================================================
