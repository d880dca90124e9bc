---------------------------- MODULE MCExperiments ----------------------------
(***************************************************************************)
(* Experiments for the model checker: one fault of each sort, the generated *)
(* traces of two short branches, the fixed trace of causal_run.py, and the  *)
(* cycle of tests/test_causal.py.                                           *)
(***************************************************************************)
EXTENDS Experiments

Policy == Violation("policy", "critical")
Objection == JudgeIssue("critical")

MCBehaviors == <<"policy_violation">>
MCTelemetries == <<"reorder_spans", "drop_tool_result">>
MCSeeds == <<1>>
MCModels == <<"flash">>

\* In turn: only the second judge objects, both see a violation, a gap that
\* the second judge would rather fail, an outage, no report.
MCOutcomes ==
    {<<{}, {Objection}>>, <<{Policy}, {Policy, Objection}>>,
     <<{EvidenceGap}, {EvidenceGap, Objection}>>, <<{JudgeError}, {}>>,
     <<NoReport, {Objection}>>}

\* synthetic_spans: the root, and a chat chain that is fed by a tool call.
synthetic_spans ==
    <<[Span("agent.run", 1, NoSpan, 0) EXCEPT !.closed = TRUE, !.completed = TRUE],
      Span("chat", 2, 1, 0), Span("tool.call", 3, 2, 0), Span("chat", 4, 1, 0),
      [Span("chat", 5, 4, 0) EXCEPT !.final = TRUE, !.output = "good",
                                    !.links = <<3>>]>>

\* Two spans that are each other's parents, under a root of their own trace.
Cycle ==
    <<[Span("agent.run", 1, NoSpan, 0) EXCEPT !.closed = TRUE],
      Span("chat", 2, 3, 0), Span("chat", 3, 2, 0)>>

\* A parent that is also linked: two edges between the same spans.
Doubled ==
    <<[Span("agent.run", 1, NoSpan, 0) EXCEPT !.closed = TRUE],
      Span("tool.call", 2, 1, 0),
      [Span("chat", 3, 2, 0) EXCEPT !.final = TRUE, !.output = "good",
                                    !.links = <<2, 1>>]>>

\* One longer branch: ten orders where the trace has links, more without.
Longer == Synthetic(<<2, 3>>, 2, <<3>>, <<1, 2, 3, 4, 5, 6>>)

MCTraces == synthetic_spans_variant(2, 2)
              \cup {synthetic_spans, Cycle, Doubled, Longer}
MCTopoLimits == {2, 20}
MCRenderKeys == {"text", "canonical"}
MCAnswers == {"PASS", "FAIL", "", Outage}

=============================================================================
