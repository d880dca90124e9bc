--------------------------- MODULE CausalMetrics ---------------------------
(***************************************************************************)
(* The causal half of experiments/analyze.py, over the cells of the sweep   *)
(* (Causal!build_cells) and over the rows of a judge family that was shown  *)
(* their renderings (experiments/causal_judge.py).  A row has the answers   *)
(* it got, by rendering: a rendering whose call failed has none, and the    *)
(* empty answer is a reply in which no verdict was found.                   *)
(***************************************************************************)
EXTENDS Causal

Renderings == {"text", "time_sorted", "canonical"}

NoAnswer == ""

Differ(verdicts) == Cardinality(verdicts) > 1

flip_rate(cells) ==
    Share(cells, LAMBDA c : Len(c.serializationVerdicts) > 1,
          LAMBDA c : Differ(ToSet(c.serializationVerdicts)))

premature_pass_rate(cells) ==
    Share(cells, LAMBDA c : ~c.closed,
          LAMBDA c : "PASS" \in ToSet(c.serializationVerdicts))

fault_recall_late(cells) ==
    [fault \in {c.evidence : c \in ToSet(cells)} \ {None} |->
        Share(cells, LAMBDA c : c.evidence = fault,
              LAMBDA c : ToSet(c.serializationVerdicts) \ {"PASS"} # {})]

\* The verdict of the first serialization, if there is any.
FirstVerdict(c) ==
    IF c.serializationVerdicts = <<>> THEN "" ELSE c.serializationVerdicts[1]

verdict_calibration(cells) ==
    [cond \in {<<c.closed, c.evidence>> : c \in ToSet(cells)} |->
        [v \in Verdicts |->
            Share(cells, LAMBDA c : <<c.closed, c.evidence>> = cond,
                  LAMBDA c : FirstVerdict(c) = v)]]

-----------------------------------------------------------------------------
\* run_judge for one cell: asked(rendering) is the reply, or Outage.
Outage == "outage"

JudgeRow(c, asked) ==
    LET got == {r \in DOMAIN asked : asked[r] # Outage}
    IN  [trace |-> c.trace, evidence |-> c.evidence,
         renderings |-> [r \in got |-> asked[r]],
         errors |-> DOMAIN asked \ got]

\* _judge_renderings: the renderings with a verdict.
Answered(row) ==
    [r \in {q \in DOMAIN row.renderings : row.renderings[q] # NoAnswer} |->
        row.renderings[r]]

Opinions(row) == {Answered(row)[r] : r \in DOMAIN Answered(row)}

causal_judge_flip_rate(rows) ==
    Share(rows, LAMBDA row : Opinions(row) # {},
          LAMBDA row : Differ(Opinions(row)))

\* The verdict of a family on each (trace, fault, rendering); of rows on one
\* trace and fault the last counts.
Index(rows) ==
    LET keys == UNION {{<<row.trace, row.evidence, r>> : r \in DOMAIN Answered(row)} :
                         row \in ToSet(rows)}
    IN  [k \in keys |->
            Answered(rows[SelectLastInSeq(rows, LAMBDA row :
                row.trace = k[1] /\ row.evidence = k[2]
                    /\ k[3] \in DOMAIN Answered(row))])[k[3]]]

Doubts(index, order) == [i \in DOMAIN order |-> index[order[i]] # "PASS"]

causal_judge_agreement(a, b) ==
    LET order == SetToSeq(DOMAIN Index(a) \cap DOMAIN Index(b))
    IN  Kappa(Doubts(Index(a), order), Doubts(Index(b), order), 2)

causal_judge_agreement_matrix(files) ==
    LET common == {k \in DOMAIN Index(files[1]) :
                     \A j \in DOMAIN files : k \in DOMAIN Index(files[j])}
        order == SetToSeq(common)
        flags == [j \in DOMAIN files |-> Doubts(Index(files[j]), order)]
        consensus == judge_consensus(flags)
    IN  [n |-> Len(order),
         consensus |-> [j \in DOMAIN files |-> cohen_kappa(flags[j], consensus)],
         pairs |-> [p \in {q \in (DOMAIN files) \X (DOMAIN files) : q[1] # q[2]} |->
                      cohen_kappa(flags[p[1]], flags[p[2]])]]

verdict_distribution_by_rendering(rows) ==
    [r \in UNION {DOMAIN Answered(row) : row \in ToSet(rows)} |->
        [v \in {"PASS", "FAIL", "INCONCLUSIVE"} |->
            HowMany(rows, LAMBDA row :
                r \in DOMAIN Answered(row) /\ Answered(row)[r] = v)]]

fault_pass_rates(rows) ==
    [fault \in {row.evidence : row \in ToSet(rows)} \ {None} |->
        [r \in Renderings |->
            Share(rows,
                  LAMBDA row : row.evidence = fault /\ r \in DOMAIN Answered(row),
                  LAMBDA row : Answered(row)[r] = "PASS")]]

=============================================================================
