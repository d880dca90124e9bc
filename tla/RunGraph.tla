------------------------------ MODULE RunGraph ------------------------------
(***************************************************************************)
(* graph.Reconstruct: from a flat list of spans of one trace to the run:    *)
(* the steps in tree order, the causal edges, what does not fit together,   *)
(* and whether the trace is closed.  The list is not empty and its spans    *)
(* are valid and of one trace; Reconstruct refuses any other.               *)
(***************************************************************************)
EXTENDS SpanLists

\* tracesClosed: only a root's own marker counts, not an orphan's.
tracesClosed(unique) ==
    \E s \in unique : s.parent = NoSpan /\ s.closed

Ids(spans) == {s.id : s \in ToSet(spans)}

\* Mutant of Orphans: a parent must have come before its child.
OrphansSoFar(spans) ==
    {spans[i] : i \in {i \in Kept(spans) :
        /\ spans[i].parent # NoSpan
        /\ \A j \in 1..i - 1 : spans[j].id # spans[i].parent}}

\* Spans whose parent is nowhere in the list.
Orphans(spans) ==
    {s \in ToSet(Unique(spans)) :
        s.parent # NoSpan /\ s.parent \notin Ids(spans)}

\* Siblings, and roots, by start time with ties in input order; an orphan is
\* a root as well.
StartsBefore(s, t) == s.start < t.start

Children(order, s) ==
    Picked(order, {k \in DOMAIN order : order[k].parent = s.id})

Roots(order) ==
    Picked(order, {k \in DOMAIN order :
        order[k].parent = NoSpan \/ order[k].parent \notin Ids(order)})

\* What the walk visits from each span on, depth first.  n bounds the depth;
\* without a cycle no path is longer than the list.
Walk(order) ==
    LET walk[n \in 0..Len(order)] ==
            [s \in ToSet(order) |->
                IF n = 0 THEN <<>>
                ELSE LET below == Children(order, s)
                     IN  <<s>> \o FlattenSeq([k \in DOMAIN below |->
                                                 walk[n - 1][below[k]]])]
    IN  walk[Len(order)]

Steps(order) ==
    LET walk == Walk(order)
        roots == Roots(order)
    IN  FlattenSeq([k \in DOMAIN roots |-> walk[roots[k]]])

Reconstruct(spans) ==
    LET unique == ToSet(Unique(spans))
        order == Sorted(Unique(spans), StartsBefore)
        links == UNION {{<<l, s.id>> : l \in ToSet(s.links)} : s \in unique}
    IN  [steps |-> Steps(order),
         root |-> Roots(order)[1],
         duplicates |-> {spans[i].id : i \in DOMAIN spans \ Kept(spans)},
         missingParents |-> Orphans(spans),
         missingLinks |-> {l \in links : l[1] \notin Ids(spans)},
         edges |-> {l \in links : l[1] \in Ids(spans) /\ l[1] # l[2]},
         closed |-> tracesClosed(unique)]

ToolCalls(run) ==
    Picked(run.steps, {i \in DOMAIN run.steps : IsTool(run.steps[i])})

StepsOf(run) == ToSet(run.steps)

=============================================================================
