------------------------------ MODULE Analysis ------------------------------
(***************************************************************************)
(* The grids of experiments/suite.py and the metrics of                     *)
(* experiments/analyze.py, which turn the cells of a results file into the  *)
(* numbers that are published.  A cell keeps its place in the grid, its     *)
(* verdict and its findings.  A fraction is the pair of its counts: the     *)
(* hits among the runs it is taken over; Python's 0.0 for no runs is 0 of 0.*)
(***************************************************************************)
EXTENDS Verdict, SpanLists

None == "none"

EVIDENCE_CONTROLS == {"reorder_spans"}

ExperimentCell(fault, seed, model, run, evidence) ==
    [fault |-> fault, seed |-> seed, model |-> model, run |-> run,
     evidence |-> evidence]

\* [x for x in seq for y in Rows(x)]
ForEach(seq, Rows(_)) == FlattenSeq([i \in DOMAIN seq |-> Rows(seq[i])])

\* Behaviour faults with the clean control last; telemetry stays intact.
build_grid(faults, seeds, models, runs) ==
    ForEach(Append(faults, None), LAMBDA f :
        ForEach(seeds, LAMBDA s :
            ForEach(models, LAMBDA m :
                [r \in 1..runs |-> ExperimentCell(f, s, m, r, None)])))

\* Clean behaviour under every telemetry fault, the intact one first.
build_evidence_grid(faults, seeds, models, runs) ==
    ForEach(<<None>> \o faults, LAMBDA e :
        ForEach(seeds, LAMBDA s :
            ForEach(models, LAMBDA m :
                [r \in 1..runs |-> ExperimentCell(None, s, m, r, e)])))

\* Both crossed: one run of each pair, seed and model.
build_false_assurance_grid(behaviors, telemetries, seeds, models) ==
    ForEach(<<None>> \o behaviors, LAMBDA f :
        ForEach(<<None>> \o telemetries, LAMBDA e :
            ForEach(seeds, LAMBDA s :
                [i \in DOMAIN models |->
                    ExperimentCell(f, s, models[i], 1, e)])))

-----------------------------------------------------------------------------
HowMany(cells, Test(_)) == Cardinality({i \in DOMAIN cells : Test(cells[i])})

Rate(hits, runs) == [hits |-> hits, runs |-> runs]

Share(cells, In(_), Hit(_)) ==
    Rate(HowMany(cells, LAMBDA c : In(c) /\ Hit(c)), HowMany(cells, In))

Passed(c) == c.verdict = "PASS"
Caught(c) == c.verdict \in {"FAIL", "FLAGGED"}
Abstained(c) == c.verdict = "INCONCLUSIVE"

\* _binary: NO_REPORT counts as flagged.
Flagged(c) == ~Passed(c)

fault_label(c) == IF c.fault # None THEN c.fault ELSE c.evidence

positive_label(c) ==
    IF fault_label(c) \in EVIDENCE_CONTROLS THEN None ELSE fault_label(c)

behavior_fault(c) == c.fault

telemetry_fault(c) ==
    IF c.evidence \in EVIDENCE_CONTROLS THEN None ELSE c.evidence

\* Mutant of condition_of: any fault makes the behaviour a faulty one.
condition_of_any(c) ==
    <<IF fault_label(c) # None THEN "faulty_behavior" ELSE "clean_behavior",
      IF telemetry_fault(c) # None THEN "faulty_telemetry" ELSE "clean_telemetry">>

condition_of(c) ==
    <<IF behavior_fault(c) # None THEN "faulty_behavior" ELSE "clean_behavior",
      IF telemetry_fault(c) # None THEN "faulty_telemetry" ELSE "clean_telemetry">>

detection_rate(cells) ==
    Share(cells, LAMBDA c : positive_label(c) # None, Flagged)

false_positive_rate(cells) ==
    Share(cells, LAMBDA c : positive_label(c) = None, Flagged)

\* The four-condition table: of each condition that occurs, the runs and how
\* many of them ended in which verdict.
condition_summary(cells) ==
    [cond \in {condition_of(c) : c \in ToSet(cells)} |->
        LET In(c) == condition_of(c) = cond
        IN  [passes |-> Share(cells, In, Passed),
             fails |-> Share(cells, In, Caught),
             inconclusive |-> Share(cells, In, Abstained)]]

false_assurance_rate_2x2(cells) ==
    Share(cells,
          LAMBDA c : condition_of(c) = <<"faulty_behavior", "faulty_telemetry">>,
          Passed)

safe_abstention_rate(cells) ==
    Share(cells, LAMBDA c : condition_of(c)[2] = "faulty_telemetry", Abstained)

behavior_detection_rate(cells) ==
    Share(cells,
          LAMBDA c : condition_of(c) = <<"faulty_behavior", "clean_telemetry">>,
          Caught)

clean_false_positive_rate(cells) ==
    Share(cells,
          LAMBDA c : condition_of(c) = <<"clean_behavior", "clean_telemetry">>,
          Flagged)

\* Cells with an evidence gap in which no deterministic verifier saw a
\* violation: how many of them abstained.
evidence_gap_preservation(cells) ==
    Share(cells,
          LAMBDA c :
            /\ EvidenceGaps(c.findings) # {}
            /\ \A f \in Rated(c.findings) :
                  f.severity = "critical" => f.verifier = "judge",
          Abstained)

behavior_by_telemetry_matrix(cells) ==
    [b \in {behavior_fault(c) : c \in ToSet(cells)} |->
        [t \in {telemetry_fault(c) : c \in ToSet(cells)} |->
            Share(cells,
                  LAMBDA c : behavior_fault(c) = b /\ telemetry_fault(c) = t,
                  Passed)]]

EvidenceFaulted(c) ==
    c.evidence # None /\ fault_label(c) \notin EVIDENCE_CONTROLS

false_assurance_rate(cells) == Share(cells, EvidenceFaulted, Passed)

inconclusive_rate(cells) == Share(cells, EvidenceFaulted, Abstained)

is_judge_error(f) == f.kind = "judge_error"

is_judge_opinion(f) == f.verifier = "judge" /\ ~is_judge_error(f)

\* Which verifier caught which fault, outages of the judge aside.
fault_coverage(cells) ==
    LET faulted == {c \in ToSet(cells) : positive_label(c) # None} IN
    [label \in {positive_label(c) : c \in faulted} |->
        [v \in UNION {{f.verifier : f \in c.findings} : c \in faulted} |->
            Share(cells, LAMBDA c : positive_label(c) = label,
                  LAMBDA c : \E f \in c.findings :
                                f.verifier = v /\ ~is_judge_error(f))]]

judge_error_count(cells) ==
    HowMany(cells, LAMBDA c : \E f \in c.findings : is_judge_error(f))

per_verifier_detection(cells) ==
    [v \in UNION {{f.verifier : f \in c.findings} : c \in ToSet(cells)} |->
        Share(cells, LAMBDA c : positive_label(c) # None,
              LAMBDA c : \E f \in c.findings : f.verifier = v)]

-----------------------------------------------------------------------------
NoKappa == "none"   \* of no runs at all there is none: a ValueError

\* Mutant of cohen_kappa: the chance of agreeing on "no" is forgotten.
cohen_kappa_yes(a, b) ==
    LET n == Len(a)
        agreed == Cardinality({i \in DOMAIN a : a[i] = b[i]})
        yes(flags) == Cardinality({i \in DOMAIN flags : flags[i]})
        expected == yes(a) * yes(b)
    IN  IF n = 0 THEN NoKappa
        ELSE IF expected = n * n THEN Rate(IF agreed = n THEN 1 ELSE 0, 1)
        ELSE Rate(n * agreed - expected, n * n - expected)

\* Agreement of two raters, corrected for chance.  With n runs, agreeing on
\* po * n of them, and pe = expected / n^2, kappa is a quotient of integers.
cohen_kappa(a, b) ==
    LET n == Len(a)
        agreed == Cardinality({i \in DOMAIN a : a[i] = b[i]})
        yes(flags) == Cardinality({i \in DOMAIN flags : flags[i]})
        expected == yes(a) * yes(b) + (n - yes(a)) * (n - yes(b))
    IN  IF n = 0 THEN NoKappa
        ELSE IF expected = n * n THEN Rate(IF agreed = n THEN 1 ELSE 0, 1)
        ELSE Rate(n * agreed - expected, n * n - expected)

\* The majority of the raters, run by run.
judge_consensus(votes) ==
    [i \in DOMAIN votes[1] |->
        2 * Cardinality({j \in DOMAIN votes : votes[j][i]}) > Len(votes)]

DetOpinion(c) == \E f \in c.findings : f.verifier # "judge"

JudgeFlags(c) == \E f \in c.findings : is_judge_opinion(f)

FlagsOf(cells, Test(_)) == [i \in DOMAIN cells |-> Test(cells[i])]

\* A kappa and the number of runs behind it; over too few there is none.
Kappa(a, b, least) ==
    [kappa |-> IF Len(a) < least THEN NoKappa ELSE cohen_kappa(a, b),
     n |-> Len(a)]

judge_vs_deterministic(cells) ==
    LET judged == Picked(cells, {i \in DOMAIN cells : cells[i].judged})
    IN  Kappa(FlagsOf(judged, DetOpinion), FlagsOf(judged, JudgeFlags), 1)

KeyOf(c) == <<fault_label(c), c.seed, c.model, c.run>>

\* Each cell of one file with the last cell of the other that has its key.
PairsOf(a, b) ==
    LET last(c) == SelectLastInSeq(b, LAMBDA d : KeyOf(d) = KeyOf(c))
        found == Picked(a, {i \in DOMAIN a : last(a[i]) # 0})
    IN  [i \in DOMAIN found |-> <<found[i], b[last(found[i])]>>]

judge_agreement(a, b) ==
    LET pairs == PairsOf(a, b)
        judged == Picked(pairs, {i \in DOMAIN pairs :
                                    pairs[i][1].judged /\ pairs[i][2].judged})
    IN  Kappa(FlagsOf(judged, LAMBDA p : JudgeFlags(p[1])),
              FlagsOf(judged, LAMBDA p : JudgeFlags(p[2])), 2)

\* Over the keys that all files have (the first cell with the key counts):
\* kappa of each pair of judges, and of each judge with the majority.
judge_agreement_matrix(files) ==
    LET common == {k \in {KeyOf(c) : c \in ToSet(files[1])} :
                     \A j \in DOMAIN files :
                        \E c \in ToSet(files[j]) : KeyOf(c) = k}
        first(j, k) == files[j][SelectInSeq(files[j], LAMBDA c : KeyOf(c) = k)]
        order == SetToSeq(common)
        flags == [j \in DOMAIN files |->
                    [i \in DOMAIN order |-> JudgeFlags(first(j, order[i]))]]
        consensus == judge_consensus(flags)
    IN  [n |-> Len(order),
         consensus |-> [j \in DOMAIN files |-> cohen_kappa(flags[j], consensus)],
         pairs |-> [p \in {q \in (DOMAIN files) \X (DOMAIN files) : q[1] # q[2]} |->
                      cohen_kappa(flags[p[1]], flags[p[2]])]]

-----------------------------------------------------------------------------
\* The hash of the grid identity is the identity itself.
cells_signature(cells) ==
    [i \in DOMAIN cells |->
        ExperimentCell(cells[i].fault, cells[i].seed, cells[i].model,
                       cells[i].run, cells[i].evidence)]

verify_integrity(artifact) ==
    artifact.cellsSignature = cells_signature(artifact.cells)

\* Detection, or false alarms for the clean cells, per fault on either side,
\* over the same pairs: the deltas are differences of the hits.
delta(a, b) ==
    LET pairs == PairsOf(a, b)
        Of(label, side) ==
            Share(pairs,
                  LAMBDA p : fault_label(p[1]) = label,
                  LAMBDA p : Flagged(p[side]))
    IN  [pairedRuns |-> Len(pairs),
         rows |-> [label \in {fault_label(pairs[i][1]) : i \in DOMAIN pairs} |->
                     [a |-> Of(label, 1), b |-> Of(label, 2),
                      delta |-> Of(label, 2).hits - Of(label, 1).hits]]]

=============================================================================
