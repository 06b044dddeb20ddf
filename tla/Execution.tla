------------------------------ MODULE Execution ------------------------------
(***************************************************************************)
(* The execution framework (execution/): DefaultExecutionManager.process()  *)
(* takes an order that is ready, validates it, has the executor coordinate  *)
(* it and routes it.  Every state change goes through ExecutionLifecycle,    *)
(* whose transition() raises when VALID_TRANSITIONS does not allow it: the   *)
(* exception leaves process(), which is the pc "lifecycle_error" here.       *)
(***************************************************************************)
EXTENDS Integers

CONSTANTS Tasks, None

VARIABLES pc, job

Orders == INSTANCE Orders WITH OrderInputs <- {}

ExecutionStatus == {"pending", "ready", "failed", "cancelled"}

ExecutionState == {"created", "queued", "ready", "executing", "executed", "failed",
                   "cancelled", "retrying", "completed"}

VALID_TRANSITIONS ==
    [created   |-> {"queued", "failed", "cancelled"},
     queued    |-> {"ready", "failed", "cancelled"},
     ready     |-> {"executing", "failed", "cancelled"},
     executing |-> {"executed", "retrying", "failed", "cancelled"},
     retrying  |-> {"executing", "failed", "cancelled"},
     executed  |-> {"completed"},
     completed |-> {},
     failed    |-> {},
     cancelled |-> {}]

can_transition(source, target) == target \in VALID_TRANSITIONS[source]

\* ExecutionResult: the request it carries is the order's (job.order.request).
ExecutionResult == [status : ExecutionStatus, state : ExecutionState]

ready(result) == result.status = "ready"

valid(request) == request.symbol # "" /\ request.quantity > 0

\* lifecycle.transition(target), with the rest of the handler it is part of.
transition(t, target, status, label) ==
    \/ /\ can_transition(job[t].execution.state, target)
       /\ job' = [job EXCEPT ![t].execution = [status |-> status, state |-> target]]
       /\ pc' = [pc EXCEPT ![t] = label]
    \/ /\ ~can_transition(job[t].execution.state, target)
       /\ pc' = [pc EXCEPT ![t] = "lifecycle_error"]
       /\ UNCHANGED job

Fail(t) == transition(t, "failed", "failed", "exchange")

\* process(), up to the request: an order that is not ready fails at once.
process(t) ==
    /\ pc[t] = "execution"
    /\ \/ /\ Orders!ready(job[t].order)
          /\ job' = [job EXCEPT ![t].execution = [status |-> "pending", state |-> "created"]]
          /\ pc' = [pc EXCEPT ![t] = "execution_created"]
       \/ /\ ~Orders!ready(job[t].order)
          /\ job' = [job EXCEPT ![t].execution = [status |-> "failed", state |-> "failed"]]
          /\ pc' = [pc EXCEPT ![t] = "exchange"]

validate(t) ==
    /\ pc[t] = "execution_created"
    /\ \/ valid(job[t].order.request)
          /\ transition(t, "queued", "pending", "execution_queued")
       \/ ~valid(job[t].order.request) /\ Fail(t)

\* The executor: it reports READY or raises an ExecutionError (an injected one
\* may; the default executor never does).
execute(t) ==
    /\ pc[t] = "execution_queued"
    /\ \/ transition(t, "ready", "pending", "execution_ready")
       \/ Fail(t)

\* The router, then the result "ready for adapter".
route(t) ==
    /\ pc[t] = "execution_ready"
    /\ \/ /\ job' = [job EXCEPT ![t].execution.status = "ready"]
          /\ pc' = [pc EXCEPT ![t] = "exchange"]
       \/ Fail(t)
=============================================================================
