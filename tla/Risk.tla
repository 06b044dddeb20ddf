-------------------------------- MODULE Risk --------------------------------
(***************************************************************************)
(* The risk framework (risk/): RuleRiskValidator keeps the rules and runs a *)
(* snapshot of the enabled ones, one await per rule; DefaultRiskPolicy turns *)
(* the outcome into a decision and RiskEvaluationManager publishes it.      *)
(***************************************************************************)
EXTENDS SequencesExt

CONSTANTS
    RuleNames,   \* the names rules are added under
    None

VARIABLES
    rules,   \* RuleRiskValidator._entries, in insertion order
    pc, job

RiskDecisionType == {"approved", "rejected", "warning"}

\* The fields of a RiskResult; `passed' is derived from the violations.
RiskResult == [passed_rules : SUBSET RuleNames,
               violations   : SUBSET RuleNames,
               errors       : SUBSET RuleNames]

NoOutcome == [passed_rules |-> {}, violations |-> {}, errors |-> {}]

RiskDecision == [decision_type   : RiskDecisionType,
                 triggered_rules : SUBSET RuleNames]

approved(decision) == decision.decision_type = "approved"

RuleEntry == [rule : RuleNames, enabled : BOOLEAN]

Registered(name) == \E i \in DOMAIN rules : rules[i].rule = name

add_rule(name) ==
    /\ ~Registered(name)
    /\ rules' = Append(rules, [rule |-> name, enabled |-> TRUE])
    /\ UNCHANGED <<pc, job>>

\* enable(name) and disable(name).
_set_enabled(name, on) ==
    /\ Registered(name)
    /\ rules' = [i \in DOMAIN rules |->
                    IF rules[i].rule = name
                    THEN [rules[i] EXCEPT !.enabled = on] ELSE rules[i]]
    /\ UNCHANGED <<pc, job>>

enabled ==
    FoldLeft(LAMBDA names, e : IF e.enabled THEN Append(names, e.rule) ELSE names,
             <<>>, rules)

\* evaluate(): RiskEvaluationStarted, then validate()'s snapshot of the rules.
evaluate(t) ==
    /\ pc[t] = "risk"
    /\ pc' = [pc EXCEPT ![t] = "rules"]
    /\ job' = [job EXCEPT ![t].rules = enabled, ![t].risk = NoOutcome]
    /\ UNCHANGED rules

\* One rule of the loop: None (it passes), a violation, or an exception, which
\* is recorded as an error and not as a violation.  (job.violated remembers, for
\* NothingUnapprovedIsPlaced, that a rule objected.)
validate(t) ==
    /\ pc[t] = "rules"
    /\ job[t].rules # <<>>
    /\ \E outcome \in {"passed_rules", "violations", "errors"} :
          job' = [job EXCEPT ![t].rules = Tail(@),
                             ![t].risk[outcome] = @ \union {Head(job[t].rules)},
                             ![t].violated = @ \/ outcome = "violations"]
    /\ UNCHANGED <<rules, pc>>

\* DefaultRiskPolicy: any violation rejects; an errored rule does not.
decide(result) ==
    [decision_type   |-> IF result.violations # {} THEN "rejected" ELSE "approved",
     triggered_rules |-> result.violations]

\* The rest of evaluate(): the policy's decision, published and returned.
Decided(t) ==
    /\ pc[t] = "rules"
    /\ job[t].rules = <<>>
    /\ job' = [job EXCEPT ![t].decision = decide(job[t].risk), ![t].risk = NoOutcome]
    /\ pc' = [pc EXCEPT ![t] = "order"]
    /\ UNCHANGED rules
=============================================================================
