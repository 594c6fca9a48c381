------------------------------- MODULE AgUi -------------------------------
(***************************************************************************)
(* The samples of one batch share an AG-UI adapter (adapters/ag_ui.py).    *)
(* Each reads the event stream of its own request in the loop of the       *)
(* harness thread; the worker cancels the run from another thread, through *)
(* the registry of open responses.                                         *)
(***************************************************************************)
EXTENDS Naturals, Sequences

CONSTANTS
  Sample,
  RunId,       \* run_id fields of the inputs, and ids a remote calls its run
  Message,     \* ids of text messages
  Tool,        \* ids of tool calls
  Topics,      \* the sets of event types the remote of each sample may use
  MaxEvents    \* bound on the events each sample reads

VARIABLES
  key,         \* the run_id of each sample's input, or a fresh one
  topic,       \* the event types the remote of each sample uses
  at,          \* idle, open, result or error
  parse,       \* the local variables of each invocation
  wire,        \* the events each invocation has accepted, in order
  active,      \* _active: the sample whose response is registered under a run id
  closed,      \* responses closed by a cancellation
  cancel,      \* cancel_active: idle, closing, done or raised
  toClose,     \* the responses it copied and has still to close
  due          \* the samples that were open when it copied

agUiVars == <<key, topic, at, parse, wire, active, closed, cancel, toClose, due>>

NoSample == "no sample"

ASSUME AgUiAssumption == NoSample \notin Sample

TextNew  == {"text.start", "text.chunk"}        \* a chunk with a role opens its message
TextMore == {"text.content", "text.delta"}      \* a chunk with a delta and no role
TextLast == {"text.end", "text.last"}           \* a chunk with neither
ToolNew  == {"tool.start", "tool.chunk", "tool.name"}
ToolMore == {"tool.args", "tool.part"}          \* part leaves the JSON incomplete
Thought  == {"reasoning.text", "reasoning.encrypted"}

Event ==
  ({"run.started", "run.finished"} \X RunId)
  \cup ((TextNew \cup TextMore \cup TextLast) \X Message)
  \cup ((ToolNew \cup ToolMore \cup {"tool.end", "tool.result"}) \X Tool)
  \cup (({"reasoning.start", "thinking.start", "reasoning.end", "other", "invalid", "run.error"}
         \cup Thought) \X {"none"})

Fresh(r) ==
  [started |-> FALSE, run |-> r, texts |-> {}, tools |-> [t \in Tool |-> "none"],
   mood |-> "none", finished |-> FALSE]

-----------------------------------------------------------------------------
(* One event: whether invoke accepts it, and what it then holds. *)

Ended(p) == {t \in Tool : p.tools[t] = "ended"}
Open(p)  == {t \in Tool : p.tools[t] \in {"open", "partial"}}

FinishableMutant(p, r) == p.texts = {} /\ p.mood = "none" /\ r = p.run

Finishable(p, r) == p.texts = {} /\ Open(p) = {} /\ p.mood = "none" /\ r = p.run

\* "invalid" is an event that does not parse, a patch that does not apply, a
\* skill event that is none, or [DONE].
Accepts(p, type, id) ==
  /\ ~ p.finished
  /\ p.started \/ type = "run.started"
  /\ CASE type = "run.started"  -> ~ p.started
       [] type = "run.finished" -> Finishable(p, id)
       [] type = "text.start"   -> id \notin p.texts
       [] type \in TextMore \cup TextLast -> id \in p.texts
       [] type = "tool.start"   -> p.tools[id] = "none"
       [] type \in ToolMore     -> id \in Open(p)
       [] type = "tool.chunk"   -> id \notin Ended(p)
       [] type = "tool.end"     -> p.tools[id] = "open"
       [] type = "tool.result"  -> id \in Ended(p)
       [] type \in {"reasoning.start", "thinking.start"} -> p.mood = "none"
       [] type \in {"reasoning.end", "reasoning.text"}   -> p.mood # "none"
       [] type = "reasoning.encrypted" -> p.mood = "reasoning"
       [] OTHER -> type \notin {"run.error", "invalid"}

Consumed(p, type, id) ==
  CASE type = "run.started"  -> [p EXCEPT !.started = TRUE, !.run = id]
    [] type = "run.finished" -> [p EXCEPT !.finished = TRUE]
    [] type \in TextNew      -> [p EXCEPT !.texts = @ \cup {id}]
    [] type \in TextLast     -> [p EXCEPT !.texts = @ \ {id}]
    [] type \in {"tool.start", "tool.chunk", "tool.args"} -> [p EXCEPT !.tools[id] = "open"]
    [] type = "tool.name"    -> [p EXCEPT !.tools[id] = IF @ = "none" THEN "open" ELSE @]
    [] type = "tool.part"    -> [p EXCEPT !.tools[id] = "partial"]
    [] type = "tool.end"     -> [p EXCEPT !.tools[id] = "ended"]
    [] type = "reasoning.start" -> [p EXCEPT !.mood = "reasoning"]
    [] type = "thinking.start"  -> [p EXCEPT !.mood = "thinking"]
    [] type = "reasoning.end"   -> [p EXCEPT !.mood = "none"]
    [] OTHER -> p

-----------------------------------------------------------------------------
(* One invocation *)

AgUiInit ==
  /\ key \in [Sample -> RunId]
  /\ topic \in {f \in [Sample -> UNION {Topics[s] : s \in Sample}] :
                \A s \in Sample : f[s] \in Topics[s]}
  /\ at = [s \in Sample |-> "idle"]
  /\ parse = [s \in Sample |-> Fresh(key[s])]
  /\ wire = [s \in Sample |-> <<>>]
  /\ active = [r \in RunId |-> NoSample]
  /\ closed = {}
  /\ cancel = "idle"
  /\ toClose = {}
  /\ due = {}

cancelVars == <<cancel, toClose, due>>

\* The POST is answered and its response registered, over what the key held.
Opens(s) ==
  /\ at[s] = "idle"
  /\ at' = [at EXCEPT ![s] = "open"]
  /\ active' = [active EXCEPT ![key[s]] = s]
  /\ UNCHANGED <<key, topic, parse, wire, closed, cancelVars>>

\* No connection, or an error status.
Refused(s) ==
  /\ at[s] = "idle"
  /\ at' = [at EXCEPT ![s] = "error"]
  /\ UNCHANGED <<key, topic, parse, wire, active, closed, cancelVars>>

UnregisterMutant(s) == [active EXCEPT ![parse[s].run] = NoSample]

\* The finally clause pops the run id, whoever is registered under it.
Unregister(s) == [active EXCEPT ![key[s]] = NoSample]

Leaves(s, outcome) ==
  /\ at' = [at EXCEPT ![s] = outcome]
  /\ active' = Unregister(s)
  /\ UNCHANGED <<key, topic, wire, closed, cancelVars>>

Receives(s, type, id) ==
  /\ at[s] = "open" /\ s \notin closed
  /\ Len(wire[s]) < MaxEvents[s] /\ type \in topic[s]
  /\ Accepts(parse[s], type, id)
  /\ parse' = [parse EXCEPT ![s] = Consumed(@, type, id)]
  /\ wire' = [wire EXCEPT ![s] = Append(@, <<type, id>>)]
  /\ UNCHANGED <<key, topic, at, active, closed, cancelVars>>

Rejects(s, type, id) ==
  /\ at[s] = "open" /\ s \notin closed /\ type \in topic[s]
  /\ ~ Accepts(parse[s], type, id)
  /\ Leaves(s, "error")
  /\ UNCHANGED parse

\* The body ends: a result needs RUN_FINISHED and a usage that is not negative.
StreamEnds(s) ==
  /\ at[s] = "open"
  /\ \/ parse[s].finished /\ Leaves(s, "result")
     \/ Leaves(s, "error")
  /\ UNCHANGED parse

-----------------------------------------------------------------------------
(* Cancellation *)

\* cancel_active copies the registry under the lock and closes one by one.
CancelActive ==
  /\ cancel = "idle"
  /\ cancel' = "closing"
  /\ toClose' = {active[r] : r \in RunId} \ {NoSample}
  /\ due' = {s \in Sample : at[s] = "open"}
  /\ UNCHANGED <<key, topic, at, parse, wire, active, closed>>

Running == \E s \in Sample : at[s] \in {"idle", "open"}

Closes(s) ==
  /\ cancel = "closing" /\ s \in toClose /\ Running
  /\ closed' = closed \cup {s}
  /\ toClose' = toClose \ {s}
  /\ UNCHANGED <<key, topic, at, parse, wire, active, cancel, due>>

\* Every sample is over and the loop of the harness thread is closed.
CloseRaises ==
  /\ cancel = "closing" /\ toClose # {} /\ ~ Running
  /\ cancel' = "raised"
  /\ UNCHANGED <<key, topic, at, parse, wire, active, closed, toClose, due>>

CancelReturns ==
  /\ cancel = "closing" /\ toClose = {}
  /\ cancel' = "done"
  /\ UNCHANGED <<key, topic, at, parse, wire, active, closed, toClose, due>>

AgUiNext ==
  \/ \E s \in Sample : Opens(s) \/ Refused(s) \/ StreamEnds(s) \/ Closes(s)
  \/ \E s \in Sample, e \in Event : Receives(s, e[1], e[2]) \/ Rejects(s, e[1], e[2])
  \/ CancelActive \/ CloseRaises \/ CancelReturns

AgUiSpec == AgUiInit /\ [][AgUiNext]_agUiVars

-----------------------------------------------------------------------------
(* What the adapter promises *)

\* The events of h about the same message or tool as event i.
Same(h, i, js) == {j \in js : h[j][2] = h[i][2]}
Between(h, i, types) == {j \in 1 .. Len(h) : h[j][1] \in types}

\* Whether what event i is about is open just before it.
IsOpen(h, i, news, lasts) ==
  \E j \in Same(h, i, 1 .. i - 1) :
    h[j][1] \in news /\ \A k \in Same(h, i, j + 1 .. i - 1) : h[k][1] \notin lasts

Bracketed(h, news, uses, lasts) ==
  \A i \in 1 .. Len(h) :
    /\ h[i][1] \in uses \cup lasts => IsOpen(h, i, news, lasts)
    /\ h[i][1] \in news => \E j \in Same(h, i, i + 1 .. Len(h)) : h[j][1] \in lasts

KeepsProtocol(h) ==
  /\ h # <<>> /\ h[1][1] = "run.started" /\ h[Len(h)] = <<"run.finished", h[1][2]>>
  /\ \A i \in 2 .. Len(h) - 1 :
       h[i][1] \notin {"run.started", "run.finished", "run.error", "invalid"}
  /\ Bracketed(h, TextNew, TextMore, TextLast)
  /\ Bracketed(h, {"reasoning.start", "thinking.start"}, Thought, {"reasoning.end"})
  /\ \A i \in 1 .. Len(h) :
       /\ h[i][1] \in ToolMore \cup {"tool.end"} => IsOpen(h, i, ToolNew, {"tool.end"})
       /\ h[i][1] \in ToolNew \cup {"tool.result"} =>
            \E j \in Same(h, i, 1 .. Len(h)) :
              h[j][1] = "tool.end" /\ (h[i][1] = "tool.result" => j < i)

\* A sample has a result only for a stream that kept the protocol from its
\* first event to its last: every message, tool call and thought it opened was
\* closed, in order, and it finished the run it started (ag_ui.py:108-273).
ResultInOrder == \A s \in Sample : at[s] = "result" => KeepsProtocol(wire[s])

\* Another sample used the same run id.
Shared(s) == \E u \in Sample \ {s} : key[u] = key[s] /\ at[u] # "idle"

\* When cancel_active returns, every stream that was open when it was called
\* has ended or its response is closed, unless its run id was not its own
\* (ag_ui.py:105-106, 269-271, 314-317).
CancelReaches ==
  cancel = "done" =>
    \A s \in due : at[s] # "open" \/ s \in closed \/ Shared(s)
=============================================================================
