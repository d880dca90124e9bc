----------------------------- MODULE Artifacts -----------------------------
(***************************************************************************)
(* The durable form of a trace: harness/trace_artifacts.py as operators on  *)
(* the spans of one trace.  An envelope is the list of its spans sorted by  *)
(* start time and id; apply_evidence_fault derives a damaged copy from it   *)
(* offline, where the live exporter damages the batch in the order in which *)
(* the spans ended.  Resources and checksums are left out: an envelope is   *)
(* its own checksum.                                                        *)
(***************************************************************************)
EXTENDS Telemetry

SpanBefore(s, t) == s.start < t.start \/ (s.start = t.start /\ s.id < t.id)

envelope_from_spans(batch) == Sorted(batch, SpanBefore)

\* Mutant of merge_envelopes: the later export replaces the earlier one.
merge_envelopes_latest(previous, current) == envelope_from_spans(current)

\* The first span with an id is kept, whichever export it came with.
merge_envelopes(previous, current) ==
    envelope_from_spans(Unique(previous \o current))

\* The derived copy has the faults of Telemetry, each written a second time
\* for JSON spans; what differs is the order they find the spans in.
\* Mutant of apply_evidence_fault: the last tool result is the forged one.
apply_evidence_fault_last(envelope, fault) ==
    IF fault = "mismatch_tool_id"
    THEN Reverse(rewrite_first_tool_id(Reverse(envelope)))
    ELSE IF fault = "none" THEN envelope ELSE export(fault, envelope)

\* Mutant of apply_evidence_fault: offline sampling keeps every span.
apply_evidence_fault_unsampled(envelope, fault) ==
    IF fault \in {"sample_spans", "none"} THEN envelope
    ELSE export(fault, envelope)

apply_evidence_fault(envelope, fault) ==
    CASE fault = "none" -> envelope
      [] fault = "drop_parent" ->
            Dropping(envelope, LAMBDA s : IsAgent(s) /\ s.parent = NoSpan)
      [] fault = "duplicate_span" ->
            IF envelope = <<>> THEN envelope
            ELSE Append(envelope, envelope[Len(envelope)])
      [] fault = "reorder_spans" -> Reverse(envelope)
      [] fault = "drop_child" ->
            Dropping(envelope, LAMBDA s : IsAgent(s) /\ s.parent # NoSpan)
      [] fault = "drop_tool_result" -> Dropping(envelope, IsTool)
      [] fault = "mismatch_tool_id" ->
            ChangeFirst(envelope, IsTool,
                        LAMBDA s : [s EXCEPT !.callId = ForgedCall])
      [] fault = "truncate_final" ->
            ChangeAll(envelope, LAMBDA s : [s EXCEPT
                !.final = FALSE, !.output = "none", !.contract = FALSE])
      [] fault = "late_span" -> move_first_child_late(envelope)
      [] fault = "truncate_closed" ->
            ChangeAll(envelope, LAMBDA s : [s EXCEPT !.closed = FALSE])
      [] fault = "drop_attribute" ->
            ChangeFirst(envelope, IsChat, LAMBDA s : [s EXCEPT !.system = FALSE])
      [] fault = "sample_spans" -> sample(envelope)
      [] fault = "drop_link" ->
            ChangeAll(envelope, LAMBDA s : [s EXCEPT !.links = <<>>])
      [] fault = "orphan_link_target" ->
            ChangeFirst(envelope, LAMBDA s : s.links # <<>>,
                LAMBDA s : [s EXCEPT !.links = [@ EXCEPT ![1] = ForeignSpan]])

=============================================================================
