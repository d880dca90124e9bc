------------------------------ MODULE Harness ------------------------------
(***************************************************************************)
(* One supervised run: Supervisor.run over a queue of workers, Worker.run   *)
(* with its turns and tool calls, and the monitor callback between them.    *)
(* It is sequential code, but what it does depends on every reply of the    *)
(* provider and on every tool, and it leaves its evidence behind span by    *)
(* span: a span is added to the batch when it ends, as the span processor   *)
(* does it, so a worker's span follows those of its turns and tools, and    *)
(* the supervisor's comes last.                                             *)
(*                                                                         *)
(* The behaviour faults of faults.py are replies like any other: a bad      *)
(* document, a forbidden or a repeated tool call, inflated tokens, a        *)
(* provider that raises.                                                    *)
(***************************************************************************)
EXTENDS Spans, FiniteSets, FiniteSetsExt, SequencesExt

CONSTANTS
    NWorkers,     \* length of the supervisor's queue
    MaxTurns,     \* Worker.max_steps
    MaxSteps,     \* Supervisor._max_steps
    MaxTokens,    \* Supervisor._max_tokens
    MaxFailures,  \* Supervisor._max_tool_failures
    Calls,        \* tool calls a reply may ask for: tool, arguments, success
    CallLists,    \* sequences of Calls that one reply may ask for
    TokenCounts,  \* tokens a reply may cost
    HasContract,  \* do the workers carry an output contract?
    UniqueIds     \* are call ids unique, or does each provider count its own?

ASSUME HarnessAssumption ==
    /\ NWorkers \in Nat \ {0}
    /\ MaxTurns \in Nat \ {0}
    /\ MaxSteps \in Nat
    /\ MaxTokens \in Nat
    /\ MaxFailures \in Nat
    /\ CallLists \subseteq Seq(Calls) \ {<<>>}
    /\ TokenCounts \subseteq Nat
    /\ HasContract \in BOOLEAN
    /\ UniqueIds \in BOOLEAN

VARIABLES
    phase,    \* what happens next: see Phases
    now,      \* the next timestamp
    batch,    \* the spans that have ended, in that order
    idx,      \* the worker at work, an index into the queue
    turn,     \* the worker's turn
    todo,     \* tool calls of this turn not yet executed
    reply,    \* tokens of this turn's reply
    runSpan,  \* the id of the worker's agent.run span
    pending,  \* Worker._pending_tool_ctxs
    outcome,  \* how the worker's loop ended, see Outcomes
    answer,   \* the answer it ended with
    state,    \* _WorkerState
    events,   \* supervisor.decision events on the root span
    answers, halted, rerouted   \* the workers in each map of the result

workerVars == <<turn, todo, reply, runSpan, pending, outcome, answer, state>>
resultVars == <<answers, halted, rerouted>>
vars == <<phase, now, batch, idx, workerVars, events, resultVars>>

Phases == {"dispatch", "turn", "tools", "leaving", "closed"}
Outcomes == {"none", "answered", "exhausted", "halt", "reroute"}
Workers == 1..NWorkers
RootId == 1

\* One call as the provider returns it.  FakeProvider numbers calls by its
\* own cursor, so two workers' providers repeat each other's ids; the ids of
\* a live provider are unique.
CallId(w, t, i) == <<IF UniqueIds THEN w ELSE 0, t, i>>

Requested(calls) ==
    [i \in DOMAIN calls |->
        [id |-> CallId(idx, turn, i), tool |-> calls[i].tool,
         args |-> calls[i].args, ok |-> calls[i].ok]]

NewState == [steps |-> 0, tokens |-> 0, failures |-> 0]

-----------------------------------------------------------------------------
\* Mutant of Observed: a failure is noted, not counted.
ObservedOnce(kind, ok, tokens) ==
    [steps |-> state.steps + 1,
     tokens |-> state.tokens + tokens,
     failures |-> IF kind # "tool" THEN state.failures
                  ELSE IF ok THEN 0 ELSE 1]

\* Supervisor._decide: the counters after one more step, and what it rules.
\* Every tool call of a turn reports the whole reply's tokens.
Observed(kind, ok, tokens) ==
    [steps |-> state.steps + 1,
     tokens |-> state.tokens + tokens,
     failures |-> IF kind # "tool" THEN state.failures
                  ELSE IF ok THEN 0 ELSE state.failures + 1]

Ruling(kind, s) ==
    IF kind = "tool" /\ s.failures > MaxFailures
        THEN [action |-> "reroute", reason |-> "tool failures"]
    ELSE IF s.steps > MaxSteps
        THEN [action |-> "halt", reason |-> "step limit exceeded"]
    ELSE IF s.tokens > MaxTokens
        THEN [action |-> "halt", reason |-> "token limit exceeded"]
    ELSE [action |-> "continue", reason |-> "none"]

Decision(w, action, reason) ==
    [worker |-> w, action |-> action, reason |-> reason]

\* The monitor callback: counters, the event for an intervention, and
\* where control goes when the worker may continue.
Monitor(kind, ok, tokens, onward) ==
    LET s == Observed(kind, ok, tokens)
        ruling == Ruling(kind, s)
    IN  /\ state' = s
        /\ IF ruling.action = "continue"
           THEN events' = events /\ onward
           ELSE /\ events' = Append(events,
                                Decision(idx, ruling.action, ruling.reason))
                /\ phase' = "leaving"
                /\ outcome' = ruling.action
                /\ UNCHANGED <<turn, todo, answer>>

-----------------------------------------------------------------------------
Init ==
    /\ phase = "dispatch"
    /\ now = RootId + 1
    /\ batch = <<>>
    /\ idx = 1
    /\ turn = 1 /\ todo = <<>> /\ reply = 0 /\ runSpan = NoSpan
    /\ pending = <<>> /\ outcome = "none" /\ answer = "none"
    /\ state = NewState
    /\ events = <<>>
    /\ answers = {} /\ halted = {} /\ rerouted = {}

\* The top of the supervisor's loop: the next worker's run begins.
StartWorker ==
    /\ phase = "dispatch"
    /\ idx <= NWorkers
    /\ phase' = "turn"
    /\ now' = now + 1
    /\ runSpan' = now
    /\ turn' = 1 /\ todo' = <<>> /\ reply' = 0 /\ pending' = <<>>
    /\ outcome' = "none" /\ answer' = "none"
    /\ state' = NewState
    /\ UNCHANGED <<batch, idx, events, resultVars>>

ChatSpan(error, tokens, calls, output) ==
    [Span("chat", now, runSpan, now + 1) EXCEPT
        !.links = pending, !.error = error, !.system = TRUE,
        !.tokens = tokens, !.calls = calls,
        !.final = output # "none", !.output = output,
        !.contract = HasContract /\ output # "none"]

\* Mutants of EndTurn: one turn too many, or the pending links are kept.
EndTurnLate(span, tokens) ==
    /\ phase = "turn"
    /\ turn <= MaxTurns + 1
    /\ now' = now + 2
    /\ batch' = Append(batch, span)
    /\ pending' = <<>>
    /\ reply' = tokens
    /\ UNCHANGED <<idx, runSpan, resultVars>>

EndTurnKeepsLinks(span, tokens) ==
    /\ phase = "turn"
    /\ turn <= MaxTurns
    /\ now' = now + 2
    /\ batch' = Append(batch, span)
    /\ reply' = tokens
    /\ UNCHANGED <<idx, runSpan, pending, resultVars>>

\* What every turn does: end the chat span and take the pending links.
EndTurn(span, tokens) ==
    /\ phase = "turn"
    /\ turn <= MaxTurns
    /\ now' = now + 2
    /\ batch' = Append(batch, span)
    /\ pending' = <<>>
    /\ reply' = tokens
    /\ UNCHANGED <<idx, runSpan, resultVars>>

\* A worker returns an answer of its own; an empty one is not final.
Return(text) ==
    /\ phase' = "leaving"
    /\ outcome' = "answered"
    /\ answer' = text
    /\ UNCHANGED <<turn, todo>>

ChatCalls(calls, tokens) ==
    /\ EndTurn(ChatSpan(FALSE, tokens, [i \in DOMAIN calls |->
                           Requested(calls)[i].id], "none"), tokens)
    /\ phase' = "tools"
    /\ todo' = Requested(calls)
    /\ UNCHANGED <<turn, outcome, answer, state, events>>

ChatAnswer(output, tokens) ==
    /\ EndTurn(ChatSpan(FALSE, tokens, <<>>, output), tokens)
    /\ Monitor("llm", TRUE, tokens, Return(output))

\* The provider raises: the span is errored and the error is the answer.
ChatError ==
    /\ EndTurn(ChatSpan(TRUE, 0, <<>>, "none"), 0)
    /\ Monitor("llm", TRUE, 0, Return("bad"))

\* One tool call, and the monitor's ruling on it.
ExecTool ==
    LET call == Head(todo)
        span == [Span("tool.call", now, runSpan, now + 1) EXCEPT
                    !.tool = call.tool, !.args = call.args,
                    !.callId = call.id, !.ok = call.ok]
        onward == /\ todo' = Tail(todo)
                  /\ IF Len(todo) = 1 THEN phase' = "turn" /\ turn' = turn + 1
                                      ELSE UNCHANGED <<phase, turn>>
                  /\ UNCHANGED <<outcome, answer>>
    IN  /\ phase = "tools"
        /\ now' = now + 2
        /\ batch' = Append(batch, span)
        /\ pending' = Append(pending, span.id)
        /\ Monitor("tool", call.ok, reply, onward)
        /\ UNCHANGED <<idx, reply, runSpan, resultVars>>

\* Mutant of OutOfTurns: off by one, so nothing follows the last turn.
OutOfTurnsLate ==
    /\ phase = "turn"
    /\ turn > MaxTurns + 1
    /\ phase' = "leaving"
    /\ outcome' = "exhausted"
    /\ UNCHANGED <<now, batch, idx, turn, todo, reply, runSpan, pending,
                   answer, state, events, resultVars>>

OutOfTurns ==
    /\ phase = "turn"
    /\ turn > MaxTurns
    /\ phase' = "leaving"
    /\ outcome' = "exhausted"
    /\ UNCHANGED <<now, batch, idx, turn, todo, reply, runSpan, pending,
                   answer, state, events, resultVars>>

\* Mutant of WorkerSpan: the parent context is not passed on.
WorkerSpanDetached ==
    [Span("agent.run", runSpan, NoSpan, now) EXCEPT
        !.completed = TRUE, !.closed = TRUE]

WorkerSpan ==
    [Span("agent.run", runSpan, RootId, now) EXCEPT
        !.completed = TRUE, !.closed = TRUE,
        !.final = outcome = "answered" /\ answer # "none",
        !.output = IF outcome = "answered" THEN answer ELSE "none"]

\* Mutants of LeaveWorker: a reroute from the last worker stays one, or
\* becomes a halt that is not recorded.
LeaveWorkerRerouted ==
    /\ phase = "leaving"
    /\ phase' = "dispatch"
    /\ now' = now + 1
    /\ batch' = Append(batch, WorkerSpan)
    /\ idx' = idx + 1
    /\ IF outcome = "reroute"
       THEN rerouted' = rerouted \cup {idx} /\ UNCHANGED <<answers, halted>>
       ELSE /\ answers' = answers \cup {idx}
            /\ halted' = IF outcome = "halt" THEN halted \cup {idx} ELSE halted
            /\ UNCHANGED rerouted
    /\ UNCHANGED <<workerVars, events>>

LeaveWorkerSilent ==
    /\ phase = "leaving"
    /\ phase' = "dispatch"
    /\ now' = now + 1
    /\ batch' = Append(batch, WorkerSpan)
    /\ idx' = idx + 1
    /\ IF outcome = "reroute" /\ idx < NWorkers
       THEN rerouted' = rerouted \cup {idx} /\ UNCHANGED <<answers, halted>>
       ELSE /\ answers' = answers \cup {idx}
            /\ halted' = IF outcome \in {"halt", "reroute"}
                         THEN halted \cup {idx} ELSE halted
            /\ UNCHANGED rerouted
    /\ UNCHANGED <<workerVars, events>>

\* Worker.run's finally clause and the supervisor's bookkeeping behind it.
\* A reroute with nobody left to take over becomes a halt.
LeaveWorker ==
    /\ phase = "leaving"
    /\ phase' = "dispatch"
    /\ now' = now + 1
    /\ batch' = Append(batch, WorkerSpan)
    /\ idx' = idx + 1
    /\ IF outcome = "reroute" /\ idx < NWorkers
       THEN /\ rerouted' = rerouted \cup {idx}
            /\ UNCHANGED <<answers, halted, events>>
       ELSE /\ answers' = answers \cup {idx}
            /\ halted' = IF outcome \in {"halt", "reroute"}
                         THEN halted \cup {idx} ELSE halted
            /\ events' = IF outcome = "reroute"
                         THEN Append(events, Decision(idx, "halt", "no successor"))
                         ELSE events
            /\ UNCHANGED rerouted
    /\ UNCHANGED workerVars

RootSpan(decisions) ==
    [Span("agent.run", RootId, NoSpan, now) EXCEPT
        !.completed = TRUE, !.closed = TRUE, !.decisions = decisions]

\* The queue is done: the terminal decision, the markers, the root span.
CloseRun ==
    LET escalation == halted # {}
        last == Decision(0, IF escalation THEN "escalate" ELSE "complete",
                         "terminal")
    IN  /\ phase = "dispatch"
        /\ idx > NWorkers
        /\ phase' = "closed"
        /\ now' = now + 1
        /\ events' = Append(events, last)
        /\ batch' = Append(batch, RootSpan(events'))
        /\ UNCHANGED <<idx, workerVars, resultVars>>

Chat ==
    \/ \E calls \in CallLists, tokens \in TokenCounts : ChatCalls(calls, tokens)
    \/ \E output \in Outputs, tokens \in TokenCounts : ChatAnswer(output, tokens)
    \/ ChatError

Next ==
    \/ StartWorker
    \/ Chat
    \/ ExecTool
    \/ OutOfTurns
    \/ LeaveWorker
    \/ CloseRun

\* A single thread runs to the end; a provider call and a tool return or raise.
Spec == Init /\ [][Next]_vars

FairSpec == Spec /\ WF_vars(Next)

-----------------------------------------------------------------------------
Left == {w \in Workers : w < idx}

\* The turns and tool calls of the worker at work that have ended.
Mine == {i \in DOMAIN batch : batch[i].parent = runSpan}

Ruled(w, action) ==
    \E i \in DOMAIN events : events[i].worker = w /\ events[i].action = action

\* Type invariant.
TypeOK ==
    /\ phase \in Phases
    /\ now \in Nat
    /\ \A i \in DOMAIN batch :
          /\ batch[i].id \in 1..now
          /\ batch[i].output \in Outputs
    /\ idx \in 1..NWorkers + 1
    /\ turn \in 1..MaxTurns + 1
    /\ outcome \in Outcomes
    /\ answer \in Outputs
    /\ state \in [steps : Nat, tokens : Nat, failures : Nat]
    /\ answers \subseteq Workers
    /\ halted \subseteq Workers
    /\ rerouted \subseteq Workers

\* Supervisor.run loses no worker: each one it is done with either has an
\* answer or was replaced by its successor, never both, and the last worker
\* is never replaced.
EveryWorkerIsAccounted ==
    /\ answers \cup rerouted = Left
    /\ answers \cap rerouted = {}
    /\ halted \subseteq answers
    /\ NWorkers \notin rerouted

\* The evidence tells what the supervisor did: a worker counts as halted
\* exactly when the root span has a halt event for it, as rerouted exactly
\* when it has a reroute event and none that takes it back, and the terminal
\* event escalates exactly when somebody was halted.
DecisionsMatchResult ==
    /\ \A w \in Left :
          /\ w \in halted <=> Ruled(w, "halt")
          /\ w \in rerouted <=> Ruled(w, "reroute") /\ ~Ruled(w, "halt")
    /\ phase = "closed" =>
          LET last == batch[Len(batch)].decisions
          IN  last[Len(last)].action =
                  IF halted = {} THEN "complete" ELSE "escalate"

\* Limits bite in time (supervisor.py:3-4), measured on the spans and not on
\* the supervisor's counters: a worker that is still at work has run at most
\* MaxSteps tools, has spent at most MaxTokens on all turns but its last, and
\* its tools have not failed more than MaxFailures times in a row.
StoppedInTime ==
    phase \in {"turn", "tools"} =>
        LET tools == {i \in Mine : IsTool(batch[i])}
            chats == {i \in Mine : IsChat(batch[i])}
            lastTurns == {i \in chats : \A j \in chats : j <= i}
        IN  /\ Cardinality(tools) <= MaxSteps
            /\ MapThenSumSet(LAMBDA i : batch[i].tokens, chats \ lastTurns)
                  <= MaxTokens
            /\ \A F \in SUBSET tools :
                  /\ \A i \in F : ~batch[i].ok
                  /\ \A i \in F, j \in tools : j > i => j \in F
                  => Cardinality(F) <= MaxFailures

\* A chat turn links to every tool span whose result it consumes
\* (workers.py:184) and to nothing else: the tools of its own worker that
\* ended since that worker's previous turn.
LinksAreExact ==
    \A c \in DOMAIN batch : IsChat(batch[c]) =>
        LET mine == {i \in 1..c - 1 : batch[i].parent = batch[c].parent}
            consumed == {t \in mine : IsTool(batch[t])
                            /\ \A i \in mine : i > t => ~IsChat(batch[i])}
        IN  /\ ToSet(batch[c].links) = {batch[t].id : t \in consumed}
            /\ Len(batch[c].links) = Cardinality(consumed)

\* What is exported is one closed tree: ids are unique, every span's parent
\* is in the batch and encloses it in time, and there is one root, which is
\* closed and ends last.
ExportIsATree ==
    phase = "closed" =>
        /\ \A i, j \in DOMAIN batch : batch[i].id = batch[j].id => i = j
        /\ \A i \in DOMAIN batch :
              IF i = Len(batch) THEN batch[i].parent = NoSpan /\ batch[i].closed
              ELSE \E p \in DOMAIN batch :
                      /\ batch[p].id = batch[i].parent
                      /\ IsAgent(batch[p])
                      /\ batch[p].start < batch[i].start
                      /\ batch[i].end < batch[p].end

\* "token limit exceeded" (supervisor.py:113): a worker that is halted for
\* that reason has spent more than MaxTokens.
TokenLimitIsReal ==
    \A i \in DOMAIN events :
        events[i].reason = "token limit exceeded" /\ events[i].worker = idx
            /\ phase = "leaving"
        => MapThenSumSet(LAMBDA j : batch[j].tokens, Mine) > MaxTokens

\* Every run ends, whatever the provider and the tools do.
RunEnds == <>(phase = "closed")

=============================================================================
