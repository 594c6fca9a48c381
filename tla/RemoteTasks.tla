---------------------------- MODULE RemoteTasks ----------------------------
(***************************************************************************)
(* The samples of one batch share an adapter whose target works on its     *)
(* own: a task of A2A (adapters/a2a.py) or MCP (mcp.py), a run of Document *)
(* Autoflow (document_autoflow.py), or one call that is answered when it   *)
(* is over (http.py, sse.py, hermes.py, agrigraph.py).  A request, its     *)
(* answer and a cancellation are separate steps, and each may fail.        *)
(***************************************************************************)
EXTENDS Naturals, FiniteSets, Functions

CONSTANTS
  Caller,       \* the samples of the batch
  MaxRequests,  \* budget.max_requests; 0, or none given, is no limit
  MaxTokens,    \* budget.max_input_tokens, likewise; it stands for the limits of
                \* output tokens and cost too (a cost limit of 0 is a limit)
  Usage         \* tokens a finished run may report; 0 stands for unknown

ASSUME TaskAssumption ==
  /\ IsFiniteSet(Caller)
  /\ MaxRequests \in Nat
  /\ MaxTokens \in Nat
  /\ Usage \subseteq Nat

VARIABLES
  protocol,     \* a2a, mcp, docflow or call
  wait,         \* whether the input of each sample asks to wait for the task (mcp)
  step,         \* idle, ready, asked, reading, polling, stopping, result or error
  remote,       \* what the target does for each sample
  seen,         \* the status the adapter last read; none before the first
  stop,         \* why docflow stopped polling and asked to cancel
  action,       \* the final_action of each result
  usage,        \* the tokens each result reports
  calls,        \* self.calls
  tokens        \* self.input_tokens

taskVars == <<protocol, wait, step, remote, seen, stop, action, usage, calls, tokens>>

Settled == {"completed", "failed", "cancelled"}
Paused  == {"paused"}     \* input or a login required, or a review
Resting == Settled \cup Paused

TaskInit ==
  /\ protocol \in {"a2a", "mcp", "docflow", "call"}
  /\ wait \in [Caller -> BOOLEAN] /\ (protocol # "mcp" => \A s \in Caller : wait[s])
  /\ step = [s \in Caller |-> "idle"]
  /\ remote = [s \in Caller |-> "none"]
  /\ seen = [s \in Caller |-> "none"]
  /\ stop = [s \in Caller |-> "none"]
  /\ action = [s \in Caller |-> "none"]
  /\ usage = [s \in Caller |-> 0]
  /\ calls = 0
  /\ tokens = 0

Goes(s, where) == step' = [step EXCEPT ![s] = where]
Over(s, what) == Goes(s, "result") /\ action' = [action EXCEPT ![s] = what]

-----------------------------------------------------------------------------
(* The target *)

\* A review may still settle a run that waits for it.
Works(s, status) ==
  /\ remote[s] = "working" \/ (remote[s] = "paused" /\ status \in Settled)
  /\ remote' = [remote EXCEPT ![s] = status]
  /\ UNCHANGED <<protocol, wait, step, seen, stop, action, usage, calls, tokens>>

Arrives(s) ==
  /\ step[s] = "ready"
  /\ remote' = [remote EXCEPT ![s] = "working"]
  /\ Goes(s, "asked")
  /\ UNCHANGED <<protocol, wait, seen, stop, action, usage, calls, tokens>>

-----------------------------------------------------------------------------
(* The invocation *)

AdmitsMutant ==
  protocol = "docflow" /\ MaxRequests # 0 =>
    Cardinality({s \in Caller : step[s] \in {"result", "error"}}) < MaxRequests

\* _check_preflight_budget; there is no await between it and the count.
Admits == protocol = "docflow" /\ MaxRequests # 0 => calls < MaxRequests

Begins(s) ==
  /\ step[s] = "idle"
  /\ IF Admits THEN Goes(s, "ready") /\ calls' = IF protocol = "docflow" THEN calls + 1 ELSE calls
     ELSE Goes(s, "error") /\ UNCHANGED calls
  /\ UNCHANGED <<protocol, wait, remote, seen, stop, action, usage, tokens>>

\* Any exception: a bad input, a refused login, a capability the server did
\* not negotiate, an HTTP error, an answer of another shape, the timeout of a2a.
Raises(s) ==
  /\ step[s] \in {"ready", "asked", "reading", "polling"}
  /\ Goes(s, "error")
  /\ UNCHANGED <<protocol, wait, remote, seen, stop, action, usage, calls, tokens>>

Sees(s) == seen' = [seen EXCEPT ![s] = remote[s]]

\* One call: the target answers when it is done, or with an error status.
CallAnswers(s) ==
  /\ protocol = "call" /\ step[s] = "asked" /\ remote[s] \in Resting
  /\ IF remote[s] = "completed" THEN Over(s, "answer") /\ Sees(s)
     ELSE Goes(s, "error") /\ UNCHANGED <<seen, action>>
  /\ UNCHANGED <<protocol, wait, remote, stop, usage, calls, tokens>>

\* The status an answer was written with may be old when it is read.
TaskCreated(s) ==
  /\ protocol = "mcp" /\ step[s] = "asked"
  /\ seen' = [seen EXCEPT ![s] = "working"]
  /\ IF wait[s] THEN Goes(s, "polling") /\ UNCHANGED action ELSE Over(s, "task_created")
  /\ UNCHANGED <<protocol, wait, remote, stop, usage, calls, tokens>>

RunCreated(s) ==
  /\ protocol = "docflow" /\ step[s] = "asked"
  /\ Goes(s, "polling")
  /\ Sees(s)
  /\ UNCHANGED <<protocol, wait, remote, stop, action, usage, calls, tokens>>

\* A message instead of a task: the agent keeps nothing it still works on.
MessageOnly(s) ==
  /\ protocol = "a2a" /\ step[s] \in {"asked", "reading"} /\ seen[s] = "none"
  /\ remote[s] = "completed"
  /\ Over(s, "answer")
  /\ UNCHANGED <<protocol, wait, remote, seen, stop, usage, calls, tokens>>

\* A task in the response stream replaces the one held; status and artifact
\* updates are recorded as events and leave it as it is.
Streams(s) ==
  /\ protocol = "a2a" /\ step[s] \in {"asked", "reading"}
  /\ Goes(s, "reading")
  /\ \/ Sees(s)
     \/ UNCHANGED seen
  /\ UNCHANGED <<protocol, wait, remote, stop, action, usage, calls, tokens>>

StreamOver(s) ==
  /\ protocol = "a2a" /\ step[s] = "reading" /\ seen[s] # "none"
  /\ Goes(s, "polling")
  /\ UNCHANGED <<protocol, wait, remote, seen, stop, action, usage, calls, tokens>>

ConcludesMutant(status) == status # "none"

\* Whether the loop ends with this status; any other is polled again.
Concludes(status) == status \in Resting

Polls(s) ==
  /\ step[s] = "polling" /\ ~ Concludes(seen[s])
  /\ Sees(s)
  /\ UNCHANGED <<protocol, wait, step, remote, stop, action, usage, calls, tokens>>

\* mcp fetches the result of a completed task: that it is over is in its status.
Ends(s) ==
  /\ protocol \in {"a2a", "mcp"} /\ step[s] = "polling" /\ Concludes(seen[s])
  /\ Over(s, seen[s])
  /\ UNCHANGED <<protocol, wait, remote, seen, stop, usage, calls, tokens>>

\* task_timeout_seconds is over: the task is left to itself.
TaskTimesOut(s) ==
  /\ protocol = "mcp" /\ step[s] = "polling" /\ ~ Concludes(seen[s])
  /\ Over(s, "task_timeout")
  /\ UNCHANGED <<protocol, wait, remote, seen, stop, usage, calls, tokens>>

-----------------------------------------------------------------------------
(* Document Autoflow: stopping, and the budget at the end *)

\* The route is one of stop_on_routes, or max_poll_seconds are over.
Stops(s, why) ==
  /\ protocol = "docflow" /\ step[s] = "polling" /\ ~ Concludes(seen[s])
  /\ Goes(s, "stopping")
  /\ stop' = [stop EXCEPT ![s] = why]
  /\ UNCHANGED <<protocol, wait, remote, seen, action, usage, calls, tokens>>

\* _record_budget adds before it compares.
Within(total) == MaxTokens = 0 \/ total <= MaxTokens

\* The run is over for the adapter; its result is lost when the budget is.
Records(s, what, u) ==
  /\ tokens' = tokens + u
  /\ IF Within(tokens + u) THEN Over(s, what) /\ usage' = [usage EXCEPT ![s] = u]
     ELSE Goes(s, "error") /\ UNCHANGED <<action, usage>>
  /\ UNCHANGED <<protocol, wait, seen, calls>>

RunEnds(s, u) ==
  /\ protocol = "docflow" /\ step[s] = "polling" /\ Concludes(seen[s])
  /\ Records(s, seen[s], u)
  /\ UNCHANGED <<remote, stop>>

\* The cancel call is answered or fails.  An answer of 200, 202 or 204 only says
\* that the target was asked (remote_cancel_requested): it may work on, be done,
\* or end as cancelled later, as after no call at all.
StopEnds(s, u) ==
  /\ step[s] = "stopping"
  /\ Records(s, stop[s], u)
  /\ UNCHANGED <<remote, stop>>

-----------------------------------------------------------------------------
TaskNext ==
  \E s \in Caller :
    \/ Begins(s) \/ Raises(s) \/ Arrives(s)
    \/ \E status \in Resting : Works(s, status)
    \/ CallAnswers(s) \/ TaskCreated(s) \/ RunCreated(s)
    \/ MessageOnly(s) \/ Streams(s) \/ StreamOver(s)
    \/ Polls(s) \/ Ends(s) \/ TaskTimesOut(s)
    \/ \E why \in {"target_timeout", "reprocess"} : Stops(s, why)
    \/ \E u \in Usage : RunEnds(s, u) \/ StopEnds(s, u)

TaskSpec == TaskInit /\ [][TaskNext]_taskVars

-----------------------------------------------------------------------------
(* What the adapters promise *)

\* The results that leave the target at its work: a task that was created only,
\* or not waited for any longer, and a run that was asked to cancel.
LeftAtWork == {"task_created", "task_timeout", "target_timeout", "reprocess"}

\* A result says what became of the target's work: completed, failed and
\* cancelled are its own last word, and never what the adapter asked of it; work
\* goes on only under a result that says the adapter left it, whether or not a
\* cancel was acknowledged (a2a.py:77-90, mcp.py:206-222,
\* document_autoflow.py:84-126, 197-214).
ResultTrue ==
  \A s \in Caller : step[s] = "result" =>
    /\ action[s] \in Settled => remote[s] = action[s]
    /\ action[s] = "answer" => remote[s] = "completed"
    /\ remote[s] = "working" => action[s] \in LeftAtWork

\* Samples that run at the same time start no more runs than max_requests, and
\* the results they return together report no more tokens than the limit, where
\* there is one (document_autoflow.py:48-49, 216-239).
BudgetKept ==
  protocol = "docflow" =>
    /\ MaxRequests # 0 => Cardinality({s \in Caller : remote[s] # "none"}) <= MaxRequests
    /\ MaxTokens # 0 => SumFunction(usage) <= MaxTokens
=============================================================================
