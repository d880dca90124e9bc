----------------------------- MODULE Telemetry -----------------------------
(***************************************************************************)
(* EvidenceFaultExporter: what a transport fault makes of the batch that    *)
(* one flush exports.  The spans themselves are immutable; a fault that     *)
(* rewrites one replaces it by a changed clone.                             *)
(***************************************************************************)
EXTENDS SpanLists, FiniteSetsExt

EvidenceFaults ==
    {"drop_parent", "duplicate_span", "reorder_spans", "drop_child",
     "drop_tool_result", "mismatch_tool_id", "truncate_final", "late_span",
     "drop_attribute", "sample_spans", "truncate_closed", "drop_link",
     "orphan_link_target"}

\* The batch with the first span that passes the test replaced, if any does.
ChangeFirst(batch, Test(_), Change(_)) ==
    LET hits == {i \in DOMAIN batch : Test(batch[i])}
    IN  IF hits = {} THEN batch
        ELSE [batch EXCEPT ![Min(hits)] = Change(@)]

ChangeAll(batch, Change(_)) == [i \in DOMAIN batch |-> Change(batch[i])]

rewrite_first_tool_id(batch) ==
    ChangeFirst(batch, IsTool, LAMBDA s : [s EXCEPT !.callId = ForgedCall])

truncate_final_markers(batch) ==
    ChangeAll(batch, LAMBDA s :
        [s EXCEPT !.final = FALSE, !.output = "none", !.contract = FALSE])

truncate_closed_marker(batch) ==
    ChangeAll(batch, LAMBDA s : [s EXCEPT !.closed = FALSE])

\* The first span with a parent starts after everything else has ended.
move_first_child_late(batch) ==
    LET start == Max({batch[i].end : i \in DOMAIN batch}) + 1
    IN  ChangeFirst(batch, LAMBDA s : s.parent # NoSpan, LAMBDA s :
            [s EXCEPT !.start = start, !.end = start + (s.end - s.start)])

drop_required_attribute(batch) ==
    ChangeFirst(batch, IsChat, LAMBDA s : [s EXCEPT !.system = FALSE])

strip_links(batch) == ChangeAll(batch, LAMBDA s : [s EXCEPT !.links = <<>>])

orphan_first_link(batch) ==
    ChangeFirst(batch, LAMBDA s : s.links # <<>>, LAMBDA s :
        [s EXCEPT !.links = [@ EXCEPT ![1] = ForeignSpan]])

\* Every other span, beginning with the first.
sample(batch) ==
    [k \in 1..(Len(batch) + 1) \div 2 |-> batch[2 * k - 1]]

Dropping(batch, Test(_)) ==
    Picked(batch, {i \in DOMAIN batch : ~Test(batch[i])})

export(fault, batch) ==
    CASE fault = "none" -> batch
      [] fault = "drop_parent" ->
            Dropping(batch, LAMBDA s : IsAgent(s) /\ s.parent = NoSpan)
      [] fault = "duplicate_span" -> Append(batch, batch[Len(batch)])
      [] fault = "reorder_spans" -> Reverse(batch)
      [] fault = "drop_child" ->
            Dropping(batch, LAMBDA s : IsAgent(s) /\ s.parent # NoSpan)
      [] fault = "drop_tool_result" -> Dropping(batch, IsTool)
      [] fault = "mismatch_tool_id" -> rewrite_first_tool_id(batch)
      [] fault = "truncate_final" -> truncate_final_markers(batch)
      [] fault = "truncate_closed" -> truncate_closed_marker(batch)
      [] fault = "late_span" -> move_first_child_late(batch)
      [] fault = "drop_attribute" -> drop_required_attribute(batch)
      [] fault = "sample_spans" -> sample(batch)
      [] fault = "drop_link" -> strip_links(batch)
      [] fault = "orphan_link_target" -> orphan_first_link(batch)

=============================================================================
