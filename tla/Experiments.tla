---------------------------- MODULE Experiments ----------------------------
(***************************************************************************)
(* The experiments as a reader of their numbers sees them.  A grid is run   *)
(* cell by cell, twice: two results files of one grid, whose judges differ. *)
(* A causal trace arrives span by span in any order and is swept.  The      *)
(* swept cells are shown to two judge families whose calls may fail.  The   *)
(* properties relate the published numbers to each other and to the cells.  *)
(***************************************************************************)
EXTENDS CausalMetrics

CONSTANTS
    Behaviors, Telemetries, Seeds, Models,   \* sequences: what the grids cross
    Runs,          \* runs per cell
    Outcomes,      \* findings of a cell in the two files, or NoReport
    NoReport,      \* the server had no report for the cell
    Traces,        \* the causal traces
    TopoLimits,    \* bounds on the topological orders
    RenderKeys,    \* the renderings that the judges are shown
    Answers,       \* what a judge family may say, Outage among it
    MaxJudged      \* bound: cells that are judged (--limit)

VARIABLES
    grid,      \* the cells of the grid, in order
    a, b,      \* the cells run so far, in either file
    trace,     \* the spans of a causal trace, in the order they were made
    fault,     \* the causal fault they went through
    arrived,   \* those that have arrived, in the order of arrival
    judged     \* the rows of the two families

gridVars == <<grid, a, b>>
causalVars == <<trace, fault, arrived>>
vars == <<gridVars, causalVars, judged>>

\* The spans of the generated traces: the causal half of a span, with ids
\* that number them.
CausalSpan ==
    [name : {"agent.run", "chat", "tool.call"}, id : Nat \ {NoSpan},
     parent : Nat, start : Nat, end : Nat, error : BOOLEAN, links : Seq(Nat),
     system : BOOLEAN, tokens : Nat, calls : {<<>>}, tool : {NoTool},
     args : {NoTool}, callId : {NoCall}, ok : BOOLEAN, final : BOOLEAN,
     output : Outputs, contract : BOOLEAN, completed : BOOLEAN,
     closed : BOOLEAN, decisions : {<<>>}]

\* A trace as the generator promises it: closed, answered, with a link, and
\* nothing that it names is missing.
Complete(spans) ==
    /\ trace_closed(spans) /\ final_present(spans)
    /\ \E s \in ToSet(spans) : s.links # <<>>
    /\ \A s \in ToSet(spans) : s.parent \in Ids(spans) \cup {NoSpan}
                              /\ ToSet(s.links) \subseteq Ids(spans)

CausalFault == {None} \cup ToSet(CAUSAL_FAULTS)

\* The ids of a trace differ; a trace that is not complete is one that has a
\* cycle, whichever fault it goes through.
ASSUME TracesAssumption ==
    \A spans \in Traces :
        /\ spans \in Seq(CausalSpan)
        /\ \A i, j \in DOMAIN spans : spans[i].id = spans[j].id => i = j
        /\ \/ Complete(spans)
           \/ \A f \in CausalFault :
                 ~is_acyclic(build_dag(apply_fault(spans, f)))

ASSUME GridsAssumption ==
    /\ Behaviors \in Seq(ToSet(Behaviors))
    /\ Telemetries \in Seq(ToSet(Telemetries))
    /\ Seeds \in Seq(ToSet(Seeds))
    /\ Models \in Seq(ToSet(Models))
    /\ Runs \in Nat

ASSUME JudgesAssumption ==
    /\ TopoLimits \subseteq Nat /\ TopoLimits # {}
    /\ IsFiniteSet(RenderKeys)

Grids ==
    {build_grid(Behaviors, Seeds, Models, Runs),
     build_evidence_grid(Telemetries, Seeds, Models, Runs),
     build_false_assurance_grid(Behaviors, Telemetries, Seeds, Models)}

Init ==
    /\ a = <<>> /\ b = <<>> /\ arrived = <<>> /\ judged = <<>>
    /\ \/ grid \in Grids /\ trace = <<>> /\ fault = None
       \/ /\ grid = <<>>
          /\ fault \in CausalFault
          /\ \E spans \in Traces : trace = apply_fault(spans, fault)

\* The cell with its verdict; without a report it keeps the defaults.
CellResult(cell, findings) ==
    [fault |-> cell.fault, seed |-> cell.seed, model |-> cell.model,
     run |-> cell.run, evidence |-> cell.evidence,
     verdict |-> IF findings = NoReport THEN "NO_REPORT" ELSE verdictFor(findings),
     findings |-> IF findings = NoReport THEN {} ELSE findings,
     judged |-> findings # NoReport]

RunCell(outcome) ==
    /\ Len(a) < Len(grid)
    /\ a' = Append(a, CellResult(grid[Len(a) + 1], outcome[1]))
    /\ b' = Append(b, CellResult(grid[Len(b) + 1], outcome[2]))
    /\ UNCHANGED <<grid, causalVars, judged>>

Arrive(s) ==
    /\ s \notin ToSet(arrived)
    /\ arrived' = Append(arrived, s)
    /\ UNCHANGED <<gridVars, trace, fault, judged>>

Drained == trace # <<>> /\ Len(arrived) = Len(trace)

\* causal_run.main sweeps the trace as it was made; the judges see its cells.
Swept == build_cells("t", trace, Max(TopoLimits))

JudgeCell(first, second) ==
    /\ fault = None /\ arrived = trace /\ Drained
    /\ Len(judged) < MaxJudged
    /\ LET c == Swept[Len(judged) + 1]
       IN  judged' = Append(judged, <<JudgeRow(c, first), JudgeRow(c, second)>>)
    /\ UNCHANGED <<gridVars, causalVars>>

Next ==
    \/ \E outcome \in Outcomes : RunCell(outcome)
    \/ \E s \in ToSet(trace) : Arrive(s)
    \/ \E first, second \in [RenderKeys -> Answers] : JudgeCell(first, second)

Spec == Init /\ [][Next]_vars

-----------------------------------------------------------------------------
\* The reference: every list of all the spans, each once, in which no edge
\* points backwards.
AllOrders(spans) ==
    LET ids == Ids(spans)
        before == {<<e[1], e[2]>> : e \in Edges(spans)}
        lists[k \in 0..Cardinality(ids)] ==
            IF k = 0 THEN {<<>>}
            ELSE UNION {{Append(list, n) : n \in ids \ ToSet(list)} :
                           list \in lists[k - 1]}
    IN  {order \in lists[Cardinality(ids)] :
            \A i, j \in DOMAIN order : i < j => <<order[j], order[i]>> \notin before}

\* "Valid topological orderings of the DAG, bounded to limit.  None when the
\* DAG is cyclic (no ordering exists) or empty" (causal.py:155): of whatever
\* has arrived, all orders if they fit, otherwise as many as the limit allows,
\* each valid and none twice.
SweepIsExact ==
    LET all == AllOrders(arrived) IN
    \A limit \in TopoLimits :
        LET got == topo_orders(arrived, limit) IN
        IF arrived = <<>> \/ all = {} THEN got = {}
        ELSE \E list \in got :
                /\ ToSet(list) \subseteq all
                /\ Cardinality(ToSet(list)) = Len(list)
                /\ Len(list) = Min({limit, Cardinality(all)})

\* "Two orderings of the same trace must hash identically" (causal.py:14) and
\* must be swept alike, at every point of the arrival; of the renderings only
\* the arrival order itself may differ, and all three tell "the same causal
\* facts" (causal.py:231).
OrderIsForgotten ==
    LET made == Picked(trace, {i \in DOMAIN trace : trace[i] \in ToSet(arrived)})
        here == judge_renderings(arrived)
        there == judge_renderings(made)
        limit == Min(TopoLimits)
    IN  /\ sweep(arrived, limit) = sweep(made, limit)
        /\ here.canonical = there.canonical
        /\ here.time_sorted = there.time_sorted
        /\ ToSet(here.text) = here.canonical.nodes
        /\ ToSet(here.time_sorted) = here.canonical.nodes

\* "an unclosed trace is INCONCLUSIVE (no premature PASS)" (causal.py:269): in
\* whatever order the spans come, a PASS is only given when nothing that is
\* still under way caused anything that has come; no serialization says
\* otherwise; and when all have come the verdict is the one that the
\* generator promises for the fault (causal_run.py:158).
NoPrematurePass ==
    LET cell == sweep(arrived, Min(TopoLimits))
        verdicts == {cell.serializations[i].verdict :
                       i \in DOMAIN cell.serializations}
    IN  /\ Cardinality(verdicts) <= 1
        /\ "PASS" \in verdicts =>
              /\ cell.closed
              /\ \A e \in Edges(trace) :
                    e[2] \in Ids(arrived) => e[1] \in Ids(arrived)
        /\ Drained /\ verdicts # {} =>
              verdicts = {IF fault \in {None, "drop_link"} THEN "PASS"
                          ELSE "INCONCLUSIVE"}

-----------------------------------------------------------------------------
NoReports(cells) == HowMany(cells, LAMBDA c : c.verdict = "NO_REPORT")

\* The passes that the matrix shows in its rows and columns of one condition.
MatrixPasses(cells, cond) ==
    LET matrix == behavior_by_telemetry_matrix(cells)
        of(b_, t) == <<IF b_ = None THEN "clean_behavior" ELSE "faulty_behavior",
                       IF t = None THEN "clean_telemetry" ELSE "faulty_telemetry">>
        shown == {p \in {behavior_fault(c) : c \in ToSet(cells)}
                           \X {telemetry_fault(c) : c \in ToSet(cells)} :
                     of(p[1], p[2]) = cond}
    IN  SumFunction([p \in shown |-> matrix[p[1]][p[2]].hits])

\* The tables of one results file agree, whichever cells have been run.  The
\* four conditions divide the cells; the matrix hides a fault ("0 = the fault
\* is never hidden", analyze.py:630) exactly where the four-condition table
\* and the headline rates count a pass; the judge's column of the coverage is
\* made of opinions; no gap is talked away by a judge ("must be 1.0 by
\* construction", analyze.py:226); and the signature of the planned cells
\* fits no truncated file ("any truncation or tampering changes it",
\* analyze.py:519).
TablesAgree ==
    LET table == condition_summary(a)
        rate(cond) == IF cond \in DOMAIN table THEN table[cond].passes
                      ELSE Rate(0, 0)
        hidden == <<"faulty_behavior", "faulty_telemetry">>
        coverage == fault_coverage(a)
    IN  /\ SumFunction([cond \in DOMAIN table |-> table[cond].passes.runs])
             = Len(a)
        /\ SumFunction([cond \in DOMAIN table |-> table[cond].passes.hits
                + table[cond].fails.hits + table[cond].inconclusive.hits])
             + NoReports(a) = Len(a)
        /\ \A cond \in DOMAIN table : MatrixPasses(a, cond) = rate(cond).hits
        /\ false_assurance_rate_2x2(a) = rate(hidden)
        /\ clean_false_positive_rate(a).hits
             = LET clean == rate(<<"clean_behavior", "clean_telemetry">>)
               IN  clean.runs - clean.hits
        /\ \A label \in DOMAIN coverage : "judge" \in DOMAIN coverage[label] =>
              coverage[label]["judge"].hits
                = HowMany(a, LAMBDA c : positive_label(c) = label /\ JudgeFlags(c))
        /\ evidence_gap_preservation(a).hits = evidence_gap_preservation(a).runs
        /\ verify_integrity([cells |-> a, cellsSignature |-> cells_signature(grid)])
             <=> Len(a) = Len(grid)

Turned(flags) == [i \in DOMAIN flags |-> ~flags[i]]

\* A kappa lies between -1 and 1, and does not depend on who is named first
\* nor on which answer is called yes.
FairKappa(f, g) ==
    LET k == cohen_kappa(f, g) IN
    f # <<>> =>
        /\ k.runs > 0 /\ -k.runs <= k.hits /\ k.hits <= k.runs
        /\ cohen_kappa(g, f) = k
        /\ cohen_kappa(Turned(f), Turned(g)) = k
        /\ k.hits = k.runs <=> f = g

\* Comparing two files is fair.  Where the fault, seed, model and run name a
\* cell (the behaviour and evidence grids), each run is compared with its own
\* other half ("only paired runs are compared", analyze.py:548): swapping the
\* files turns every delta round, and a file does not differ from itself.
\* Kappa is fair, and the matrix of two judges says what their pairwise
\* agreement says when both judged every run; so for the causal judges, where
\* an answer that failed or named no verdict is in neither.
ComparisonIsFair ==
    LET there == delta(a, b)
        back == delta(b, a)
        same == delta(a, a)
        first == [i \in DOMAIN judged |-> judged[i][1]]
        second == [i \in DOMAIN judged |-> judged[i][2]]
        agreed == causal_judge_agreement(first, second)
    IN  /\ Cardinality({KeyOf(c) : c \in ToSet(grid)}) = Len(grid) =>
              /\ there.pairedRuns = Len(a) /\ back.pairedRuns = Len(a)
              /\ \A f \in DOMAIN there.rows :
                    /\ there.rows[f].delta = -back.rows[f].delta
                    /\ same.rows[f].delta = 0
              /\ judge_agreement(a, b) = judge_agreement(b, a)
              /\ (\A c \in ToSet(a) \cup ToSet(b) : c.judged) /\ Len(a) > 1 =>
                    judge_agreement_matrix(<<a, b>>).pairs[<<1, 2>>]
                        = judge_agreement(a, b).kappa
        /\ FairKappa(FlagsOf(a, JudgeFlags), FlagsOf(b, JudgeFlags))
        /\ agreed = causal_judge_agreement(second, first)
        /\ agreed.n > 1 =>
              causal_judge_agreement_matrix(<<first, second>>).pairs[<<1, 2>>]
                  = agreed.kappa
        /\ \A i \in DOMAIN judged, side \in {1, 2} :
              LET row == judged[i][side] IN
              causal_judge_flip_rate(<<row>>).hits = 1 <=>
                 \E r, q \in RenderKeys \ row.errors :
                    /\ row.renderings[r] # row.renderings[q]
                    /\ NoAnswer \notin {row.renderings[r], row.renderings[q]}

=============================================================================
