------------------------------- MODULE Causal -------------------------------
(***************************************************************************)
(* experiments/causal.py and causal_run.py: the causal graph of a list of   *)
(* spans, its canonical form, the enumeration of its topological orders,    *)
(* and the sweep that asks for a verdict in each of them.  Ids are numbers, *)
(* ordered as numbers; a text is the sequence of its lines, and lines that  *)
(* the code sorts are the set of them.  A checksum is the text it hashes.   *)
(***************************************************************************)
EXTENDS Analysis

\* Mutant of trace_closed: the span that came first is taken for the root.
first_span_closed(spans) ==
    spans # <<>> /\ spans[1].parent = NoSpan /\ spans[1].closed

trace_closed(spans) == \E s \in ToSet(spans) : s.parent = NoSpan /\ s.closed

final_present(spans) == \E s \in ToSet(spans) : s.final /\ s.output # "none"

Ids(spans) == {s.id : s \in ToSet(spans)}

\* An edge from each known parent, and from each linked span, known or not.
Edges(spans) ==
    UNION {{<<p, s.id, "parent">> : p \in ({s.parent} \ {s.id}) \cap Ids(spans)}
             \cup {<<t, s.id, "link">> : t \in ToSet(s.links) \ {s.id}}
           : s \in ToSet(spans)}

\* Of spans with one id the last is the node.
build_dag(spans) ==
    [nodes |-> [n \in Ids(spans) |->
                  spans[SelectLastInSeq(spans, LAMBDA s : s.id = n)]],
     edges |-> Edges(spans)]

canonical_render(spans) ==
    LET dag == build_dag(spans)
    IN  [nodes |-> {<<n, dag.nodes[n].name>> : n \in DOMAIN dag.nodes},
         edges |-> dag.edges]

-----------------------------------------------------------------------------
\* Parallel edges count once each; an edge from an unknown span counts nowhere.
Adjacent(dag, n, m) == Cardinality({e \in dag.edges : e[1] = n /\ e[2] = m})

Indegrees(dag) ==
    [n \in DOMAIN dag.nodes |->
        Cardinality({e \in dag.edges : e[1] \in DOMAIN dag.nodes /\ e[2] = n})]

\* sorted: a set of node ids in ascending order.
Ascending(S) == Picked([n \in 1..Max(S \cup {0}) |-> n], S)

Frontier(ind) == Ascending({n \in DOMAIN ind : ind[n] = 0})

\* Mutant of Expand: the chosen span stays in the frontier.
ExpandAgain(dag, top) ==
    LET cands == Reverse(Frontier(top.ind)) IN
    [i \in DOMAIN cands |->
        [order |-> Append(top.order, cands[i]),
         ind |-> [n \in DOMAIN top.ind |->
                    top.ind[n] - Adjacent(dag, cands[i], n)]]]

\* The orders that continue this one by a span whose causes have all come;
\* the smallest id is on top of the stack.
Expand(dag, top) ==
    LET cands == Reverse(Frontier(top.ind)) IN
    [i \in DOMAIN cands |->
        [order |-> Append(top.order, cands[i]),
         ind |-> [n \in DOMAIN top.ind |->
                    IF n = cands[i] THEN -1
                    ELSE top.ind[n] - Adjacent(dag, cands[i], n)]]]

\* One iteration of the depth-first search with its explicit stack, until
\* there are enough orders.
topo_step(dag, limit, search) ==
    IF search.stack = <<>> \/ Len(search.out) >= limit THEN search
    ELSE LET top == Last(search.stack)
             rest == Front(search.stack)
         IN  IF Len(top.order) = Cardinality(DOMAIN dag.nodes)
             THEN [stack |-> rest, out |-> Append(search.out, top.order)]
             ELSE [stack |-> rest \o Expand(dag, top), out |-> search.out]

\* An order costs no more than one iteration per node and one to put it out.
topo_out(dag, limit) ==
    LET enough == limit * (Cardinality(DOMAIN dag.nodes) + 1)
        start == [order |-> <<>>, ind |-> Indegrees(dag)]
        search[k \in 0..enough] ==
            IF k = 0 THEN [stack |-> <<start>>, out |-> <<>>]
            ELSE topo_step(dag, limit, search[k - 1])
    IN  search[enough].out

\* A node is queued when the last edge into it is taken away.
kahn_step(dag, check) ==
    IF check.queue = <<>> THEN check
    ELSE LET cur == Head(check.queue)
             after == [n \in DOMAIN check.ind |->
                          check.ind[n] - Adjacent(dag, cur, n)]
             freed == {n \in DOMAIN after : after[n] = 0 /\ check.ind[n] > 0}
         IN  [queue |-> Tail(check.queue) \o Ascending(freed),
              ind |-> after, seen |-> check.seen + 1]

\* A node is queued once at most, and seen in an iteration of its own.
is_acyclic(dag) ==
    LET size == Cardinality(DOMAIN dag.nodes)
        ind == Indegrees(dag)
        check[k \in 0..size] ==
            IF k = 0 THEN [queue |-> Frontier(ind), ind |-> ind, seen |-> 0]
            ELSE kahn_step(dag, check[k - 1])
    IN  check[size].seen = size

\* The list of orders, if there is one: Python's None is the empty set.
topo_orders(spans, limit) ==
    LET dag == build_dag(spans) IN
    IF spans = <<>> \/ ~is_acyclic(dag) THEN {} ELSE {topo_out(dag, limit)}

-----------------------------------------------------------------------------
StartsSooner(s, t) == s.start < t.start \/ (s.start = t.start /\ s.id < t.id)

time_sorted(spans) == Sorted(spans, StartsSooner)

\* What one line of a judge's rendering tells of a span.
fact_line(s) == [s EXCEPT !.links = ToSet(@)]

judge_renderings(spans) ==
    LET dag == build_dag(spans) IN
    [text |-> [i \in DOMAIN spans |-> fact_line(spans[i])],
     time_sorted |-> [i \in DOMAIN spans |-> fact_line(time_sorted(spans)[i])],
     canonical |-> [nodes |-> {fact_line(dag.nodes[n]) : n \in DOMAIN dag.nodes},
                    edges |-> dag.edges]]

\* Mutant of deterministic_verdict: a link may dangle.
deterministic_verdict_dangling(spans) ==
    IF ~trace_closed(spans) THEN "INCONCLUSIVE"
    ELSE IF \E s \in ToSet(spans) : s.parent \notin Ids(spans) \cup {NoSpan}
         THEN "INCONCLUSIVE"
    ELSE IF final_present(spans) THEN "PASS" ELSE "FAIL"

deterministic_verdict(spans) ==
    IF ~trace_closed(spans) THEN "INCONCLUSIVE"
    ELSE IF \E s \in ToSet(spans) :
               \/ s.parent \notin Ids(spans) \cup {NoSpan}
               \/ ~(ToSet(s.links) \subseteq Ids(spans))
         THEN "INCONCLUSIVE"
    ELSE IF final_present(spans) THEN "PASS" ELSE "FAIL"

sweep(spans, limit) ==
    LET orders == topo_orders(spans, limit)
        listed == IF orders = {} THEN <<>> ELSE CHOOSE list \in orders : TRUE
        by_id == build_dag(spans).nodes
    IN  [checksum |-> canonical_render(spans),
         closed |-> trace_closed(spans),
         serializations |->
            [i \in DOMAIN listed |->
                [order |-> listed[i],
                 verdict |-> deterministic_verdict(
                     [k \in DOMAIN listed[i] |-> by_id[listed[i][k]]])]]]

-----------------------------------------------------------------------------
\* synthetic_spans_variant: the traces its random choices can produce.  Under
\* a closed root hang branches of the given lengths; chats and tool calls take
\* turns in a branch, one branch ends in the final answer, and that answer
\* links to tool calls of the others.
Synthetic(chains, finalBranch, links, times) ==
    LET first(b) == 2 + FoldLeft(+, 0, SubSeq(chains, 1, b - 1))
        size == first(Len(chains) + 1) - 1
        node(id) ==
            LET b == CHOOSE b \in DOMAIN chains :
                        id \in first(b)..first(b + 1) - 1
                i == id - first(b)
                parent == IF i = 0 THEN 1 ELSE id - 1
            IN  IF i = chains[b] - 1 /\ b = finalBranch
                THEN [Span("chat", id, parent, 0) EXCEPT
                        !.final = TRUE, !.output = "good", !.links = links]
                ELSE Span(IF i % 2 = 0 THEN "chat" ELSE "tool.call", id, parent, 0)
        root == [Span("agent.run", 1, NoSpan, 0) EXCEPT
                   !.closed = TRUE, !.completed = TRUE]
    IN  [id \in 1..size |->
            [IF id = 1 THEN root ELSE node(id) EXCEPT !.start = times[id]]]

\* Tool calls outside the final branch, and one or two of them as links.
FeederLinks(chains, finalBranch) ==
    LET bare == Synthetic(chains, finalBranch, <<>>,
                          [id \in 1..1 + FoldLeft(+, 0, chains) |-> id])
        first(b) == 2 + FoldLeft(+, 0, SubSeq(chains, 1, b - 1))
        feeders == {id \in DOMAIN bare :
                      /\ IsTool(bare[id])
                      /\ id \notin first(finalBranch)..first(finalBranch + 1) - 1}
    IN  {<<f>> : f \in feeders}
          \cup {<<p[1], p[2]>> : p \in {q \in feeders \X feeders : q[1] # q[2]}}

synthetic_spans_variant(maxBranches, maxChain) ==
    UNION {UNION {
        {Synthetic(chains, fb, links, times) :
            links \in FeederLinks(chains, fb),
            times \in {[id \in 1..1 + FoldLeft(+, 0, chains) |-> id],
                        Reverse([id \in 1..1 + FoldLeft(+, 0, chains) |-> id])}}
        : fb \in DOMAIN chains}
        : chains \in UNION {[1..n -> 2..maxChain] : n \in 2..maxBranches}}

-----------------------------------------------------------------------------
\* The causal faults of causal_run.py; unlike the exporter's, the orphaned
\* link is the first one of every span that has any.
strip_closed(spans) == [i \in DOMAIN spans |-> [spans[i] EXCEPT !.closed = FALSE]]

strip_links(spans) == [i \in DOMAIN spans |-> [spans[i] EXCEPT !.links = <<>>]]

orphan_first_link(spans) ==
    [i \in DOMAIN spans |->
        IF spans[i].links = <<>> THEN spans[i]
        ELSE [spans[i] EXCEPT !.links = [@ EXCEPT ![1] = ForeignSpan]]]

CAUSAL_FAULTS == <<"truncate_closed", "drop_link", "orphan_link_target">>

apply_fault(spans, fault) ==
    CASE fault = None -> spans
      [] fault = "truncate_closed" -> strip_closed(spans)
      [] fault = "drop_link" -> strip_links(spans)
      [] fault = "orphan_link_target" -> orphan_first_link(spans)

\* One cell of the causal results for the trace and for each fault.
build_cells(trace, spans, limit) ==
    LET faults == <<None>> \o CAUSAL_FAULTS IN
    [i \in DOMAIN faults |->
        LET faulted == apply_fault(spans, faults[i])
            result == sweep(faulted, limit)
            verdicts == [k \in DOMAIN result.serializations |->
                            result.serializations[k].verdict]
        IN  [trace |-> trace, evidence |-> faults[i],
             checksum |-> result.checksum, closed |-> result.closed,
             serializationVerdicts |-> verdicts,
             renderings |-> judge_renderings(faulted)]]

=============================================================================
