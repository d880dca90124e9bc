------------------------------- MODULE Checks -------------------------------
(***************************************************************************)
(* The deterministic verifiers of internal/verify over a reconstructed run, *)
(* configured as experiment_config.json configures them: one contract, an   *)
(* allowlist, loop detection with its defaults, span and token limits and   *)
(* all nine evidence obligations.  The duration limit is left out: a minute *)
(* is longer than any run here.                                             *)
(***************************************************************************)
EXTENDS RunGraph, FiniteSets, FiniteSetsExt, Verdict

CONSTANTS
    AllowedTools,    \* policy.allowedTools
    MaxRepetitions,  \* loop.maxRepetitions, 2 by default
    MaxSpans,        \* limits.maxSteps
    MaxRunTokens     \* limits.maxTotalTokens

ASSUME ChecksAssumption ==
    /\ MaxRepetitions \in Nat \ {0}   \* withDefaults replaces 0 and less
    /\ MaxSpans \in Nat
    /\ MaxRunTokens \in Nat

Claims ==
    {"run_root", "agent_completion", "model_correlation", "tool_pairing",
     "final_answer", "supervisor_decision", "temporal_nesting",
     "trace_integrity", "trace_closed", "causal_links"}

-----------------------------------------------------------------------------
\* One operator per claim of the evidence contract: is it established?
TraceIntegrity(run) ==
    run.duplicates = {} /\ run.missingParents = {} /\ run.missingLinks = {}

RunRoot(run) == IsAgent(run.root) /\ run.root.parent = NoSpan

AgentCompletion(run) == \A s \in StepsOf(run) : IsAgent(s) => s.completed

\* The harness always names the models and the span.
ModelCorrelation(run) == \A s \in StepsOf(run) : IsChat(s) => s.system

\* Mutant of ToolPairing: declared calls are not looked for.
ToolPairingOneWay(run) ==
    LET tools == ToolCalls(run)
        ids == {tools[i].callId : i \in DOMAIN tools}
    IN  NoCall \notin ids /\ Cardinality(ids) = Len(tools)

\* Tool spans are paired with declared calls in the whole trace, not per
\* worker; a tool span always has a result marker.
ToolPairing(run) ==
    LET tools == ToolCalls(run)
        ids == {tools[i].callId : i \in DOMAIN tools}
    IN  /\ NoCall \notin ids
        /\ Cardinality(ids) = Len(tools)
        /\ \A s \in StepsOf(run) : IsChat(s) => ToSet(s.calls) \subseteq ids

\* Mutant of FinalAnswer: every turn would have to be final.
FinalAnswerAlways(run) ==
    \A s \in StepsOf(run) : IsChat(s) => s.final /\ s.output # "none"

FinalAnswer(run) ==
    \E s \in StepsOf(run) : IsChat(s) /\ s.final /\ s.output # "none"

SupervisorDecision(run) == run.root.decisions # <<>>

\* Mutant of TemporalNesting: only the start of the window is checked.
TemporalNestingStart(run) ==
    \A s, p \in StepsOf(run) : s.parent = p.id => s.start >= p.start

TemporalNesting(run) ==
    \A s, p \in StepsOf(run) :
        s.parent = p.id => s.start >= p.start /\ s.end <= p.end

\* A tool that a later turn of the same agent follows is linked from a turn.
CausalLinks(run) ==
    LET steps == StepsOf(run)
        linked == {e[1] : e \in {e \in run.edges :
                              \E s \in steps : s.id = e[2] /\ IsChat(s)}}
        Scope(t) == IF \E p \in steps : p.id = t.parent /\ IsChat(p)
                    THEN (CHOOSE p \in steps : p.id = t.parent).parent
                    ELSE t.parent
    IN  \A t \in steps : IsTool(t) /\ t.id \notin linked =>
            \A c \in steps :
                ~ (IsChat(c) /\ c.parent = Scope(t) /\ c.start >= t.end)

Established(claim, run) ==
    CASE claim = "run_root" -> RunRoot(run)
      [] claim = "agent_completion" -> AgentCompletion(run)
      [] claim = "model_correlation" -> ModelCorrelation(run)
      [] claim = "tool_pairing" -> ToolPairing(run)
      [] claim = "final_answer" -> FinalAnswer(run)
      [] claim = "supervisor_decision" -> SupervisorDecision(run)
      [] claim = "temporal_nesting" -> TemporalNesting(run)
      [] claim = "trace_integrity" -> TraceIntegrity(run)
      [] claim = "trace_closed" -> run.closed
      [] claim = "causal_links" -> CausalLinks(run)

\* CheckEvidence: the claims its findings name.
Gaps(run) == {c \in Claims : ~Established(c, run)}

-----------------------------------------------------------------------------
CheckSchema(run) ==
    \E s \in StepsOf(run) : s.contract /\ s.output # "good"

CheckPolicy(run) == \E s \in StepsOf(run) : IsTool(s) /\ s.tool \notin AllowedTools

CheckStatus(run) == \E s \in StepsOf(run) : s.error

CheckBudget(run) ==
    \/ Len(run.steps) > MaxSpans
    \/ MapThenSumSet(LAMBDA i : run.steps[i].tokens, DOMAIN run.steps)
          > MaxRunTokens

\* The same call too often, or two calls in turns over four steps.
CheckLoop(run) ==
    LET tools == ToolCalls(run)
        seq == [i \in DOMAIN tools |-> <<tools[i].tool, tools[i].args>>]
        Count(c) == Cardinality({i \in DOMAIN seq : seq[i] = c})
    IN  \/ \E i \in DOMAIN seq : Count(seq[i]) > MaxRepetitions
        \/ \E i \in 1..Len(seq) - 3 :
              seq[i] = seq[i + 2] /\ seq[i + 1] = seq[i + 3] /\ seq[i] # seq[i + 1]

\* verify.Verify without a judge.
Findings(run) ==
    {Violation(v, "critical") : v \in
        {v \in {"schema", "policy", "budget", "status"} :
            \/ v = "schema" /\ CheckSchema(run)
            \/ v = "policy" /\ CheckPolicy(run)
            \/ v = "budget" /\ CheckBudget(run)
            \/ v = "status" /\ CheckStatus(run)}}
    \cup (IF CheckLoop(run) THEN {Violation("loop", "warning")} ELSE {})
    \cup (IF Gaps(run) # {} THEN {EvidenceGap} ELSE {})

=============================================================================
