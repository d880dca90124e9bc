------------------------------ MODULE Pipeline ------------------------------
(***************************************************************************)
(* From behaviour to verdict: a supervised run (Harness), the one export of *)
(* its spans through a possible transport fault (Telemetry), and what the   *)
(* server makes of the batch: Reconstruct (RunGraph), Verify (Checks) and   *)
(* report.Build (Verdict).  This is the composition of experiments/run.py's *)
(* run_cell.                                                                *)
(***************************************************************************)
EXTENDS Harness, Artifacts, Checks

CONSTANTS
    NoReport,        \* the run has not been exported yet
    ScheduleFires    \* may a run outlast the processor's schedule (a minute)?

VARIABLE report     \* what the server answers for the run

pipelineVars == <<vars, report>>

Faults == EvidenceFaults \cup {"none"}

verdictOf(spans) == verdictFor(Findings(Reconstruct(spans)))

PipelineInit == Init /\ report = NoReport

\* telemetry.flush() and fetch_report: one POST, one verdict.
Export(fault) ==
    LET sent == export(fault, batch) IN
    /\ phase = "closed"
    /\ report = NoReport
    /\ report' = [fault |-> fault,
                  lossy |-> sent # batch /\ fault # "reorder_spans",
                  verdict |-> verdictOf(sent),
                  gaps |-> Gaps(Reconstruct(sent)),
                  recorded |-> envelope_from_spans(batch)]
    /\ UNCHANGED vars

\* The processor's scheduled export fired when k spans had ended: the trace
\* goes out in two requests, the store keeps the report on the second, and
\* the recorder merges both into one file.  Which earlier exports there were
\* does not matter to the last one.
ExportScheduled(k) ==
    LET second == SubSeq(batch, k + 1, Len(batch)) IN
    /\ ScheduleFires
    /\ phase = "closed"
    /\ report = NoReport
    /\ report' = [fault |-> "scheduled_export",
                  lossy |-> TRUE,
                  verdict |-> verdictOf(second),
                  gaps |-> Gaps(Reconstruct(second)),
                  recorded |-> merge_envelopes(
                      envelope_from_spans(SubSeq(batch, 1, k)),
                      envelope_from_spans(second))]
    /\ UNCHANGED vars

PipelineNext ==
    \/ Next /\ UNCHANGED report
    \/ \E fault \in Faults : Export(fault)
    \/ \E k \in 1..Len(batch) - 1 : ExportScheduled(k)

PipelineSpec == PipelineInit /\ [][PipelineNext]_pipelineVars

-----------------------------------------------------------------------------
Reported(faults) == report # NoReport /\ report.fault \in faults

\* What the agents really did, whatever of it was exported.
Misbehaved ==
    \/ \E i \in DOMAIN batch :
          \/ batch[i].error
          \/ IsTool(batch[i]) /\ batch[i].tool \notin AllowedTools
          \/ batch[i].contract /\ batch[i].output = "bad"
    \/ Len(batch) > MaxSpans
    \/ MapThenSumSet(LAMBDA i : batch[i].tokens, DOMAIN batch) > MaxRunTokens

\* Two tool calls that the loop verifier could object to.
Repetitive ==
    LET tools == {i \in DOMAIN batch : IsTool(batch[i])}
    IN  Cardinality({<<batch[i].tool, batch[i].args>> : i \in tools})
            # Cardinality(tools)

\* No false alarm: when every worker came to an answer, nobody misbehaved
\* and no call was repeated, the intact trace gets a PASS.
CleanRunPasses ==
    /\ Reported({"none"}) /\ ~Misbehaved /\ ~Repetitive
    /\ \A i \in DOMAIN batch : (batch[i].parent = RootId => batch[i].final)
    => report.verdict = "PASS"

\* "a missing or duplicated span cannot silently become proof that a worker
\* succeeded" (README.md:56): a run that misbehaved never passes, and once a
\* transport fault has taken or changed anything, neither does any other.
NoFalseAssurance ==
    Reported(Faults) =>
        /\ Misbehaved => report.verdict # "PASS"
        /\ report.lossy => report.verdict \in {"INCONCLUSIVE", "FAIL"}

\* The same of a trace that the schedule cut in two: "the server would verify
\* only the second half and could miss early spans" (telemetry.py:232).
HalfNeverPasses ==
    Reported({"scheduled_export"}) /\ Misbehaved => report.verdict # "PASS"

\* An abstention names what is missing: each fault that changed the batch
\* leaves a gap under the claim that is about that kind of evidence.
FaultIsNamed ==
    LET claim == [drop_parent |-> {"run_root", "trace_integrity"},
                  duplicate_span |-> {"trace_integrity"},
                  drop_child |-> {"trace_integrity"},
                  drop_tool_result |-> {"tool_pairing"},
                  mismatch_tool_id |-> {"tool_pairing"},
                  truncate_final |-> {"final_answer"},
                  late_span |-> {"temporal_nesting"},
                  drop_attribute |-> {"model_correlation"},
                  truncate_closed |-> {"trace_closed"},
                  drop_link |-> {"causal_links"},
                  orphan_link_target |-> {"trace_integrity"}]
    IN  Reported(DOMAIN claim) /\ report.lossy
            => claim[report.fault] \subseteq report.gaps

\* "reverse a batch; reconstruction should tolerate it" (faults.py:56): the
\* order in which the spans of a batch arrive changes no verdict and no gap.
ReorderIsHarmless ==
    Reported({"reorder_spans"}) =>
        /\ report.verdict = verdictOf(batch)
        /\ report.gaps = Gaps(Reconstruct(batch))

\* "replay must derive the same evidence fault the live exporter injects, or
\* a replayed artifact silently measures a different mutation"
\* (test_replay_parity.py:1): for every run, not the test's one fixture, the
\* fault applied to the recorded file gives the spans the live fault gave,
\* except where the test admits that the order matters.  There the replay
\* still never turns a damaged or bad run into a PASS.
OrderDependent == {"duplicate_span", "reorder_spans", "late_span", "sample_spans"}

ReplayMatchesLive ==
    Reported(Faults \ OrderDependent) =>
        apply_evidence_fault(report.recorded, report.fault)
            = envelope_from_spans(export(report.fault, batch))

ReplayNeverAssures ==
    Reported(OrderDependent) =>
        LET derived == apply_evidence_fault(report.recorded, report.fault) IN
        /\ Misbehaved => verdictOf(derived) # "PASS"
        /\ report.lossy => verdictOf(derived) \in {"INCONCLUSIVE", "FAIL"}

\* "The clean artifact is the source of truth" (replay.py:3): whatever was
\* exported, and in how many requests, replaying the recorded file gives the
\* verdict of the complete and intact batch, on the same spans.
RecordIsTheRun ==
    report # NoReport =>
        /\ ToSet(report.recorded) = ToSet(batch)
        /\ Len(report.recorded) = Len(batch)
        /\ verdictOf(report.recorded) = verdictOf(batch)

=============================================================================
