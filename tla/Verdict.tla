------------------------------ MODULE Verdict ------------------------------
(***************************************************************************)
(* From findings to a verdict: internal/report/report.go and the findings   *)
(* the verifiers of internal/verify can emit.  A finding keeps the fields   *)
(* that the mapping reads: the verifier's name, the finding kind, the       *)
(* severity, and whether a source (the judging model) is named.  Messages,  *)
(* span ids and timestamps are wording and are left out.  The mapping only  *)
(* raises flags while it ranges over the slice, so order and multiplicity   *)
(* do not matter and a run's findings are a set.                            *)
(***************************************************************************)

Verdicts == {"PASS", "FLAGGED", "INCONCLUSIVE", "FAIL"}

\* verify.VerifierNames, in run order, and the judge slot.
DeterministicVerifiers ==
    {"schema", "policy", "loop", "budget", "status", "evidence"}

Verifiers == DeterministicVerifiers \cup {"judge"}

Kinds == {"", "evidence_gap", "judge_error"}

Severities == {"warning", "critical"}

Finding == [verifier : Verifiers, kind : Kinds, severity : Severities,
            sourced : BOOLEAN]

Violation(verifier, severity) ==
    [verifier |-> verifier, kind |-> "", severity |-> severity,
     sourced |-> FALSE]

\* evidenceFinding: every gap is a warning of the evidence verifier.
EvidenceGap ==
    [verifier |-> "evidence", kind |-> "evidence_gap",
     severity |-> "warning", sourced |-> FALSE]

\* What the deterministic verifiers can report: schema, policy, budget and
\* status are critical, the loop verifier only warns, evidence only abstains.
DeterministicFinding ==
    {Violation(v, "critical") : v \in {"schema", "policy", "budget", "status"}}
        \cup {Violation("loop", "warning"), EvidenceGap}

\* Mutant of JudgeIssue: the model's own word is taken for the severity.
JudgeIssueUnchecked(severity) ==
    [verifier |-> "judge", kind |-> "", severity |-> "info",
     sourced |-> TRUE]

\* One issue the judging model raised, stamped with the model's name.
JudgeIssue(severity) ==
    [verifier |-> "judge", kind |-> "", severity |-> severity,
     sourced |-> TRUE]

\* Mutant of JudgeError: an outage counts as a critical issue.
JudgeErrorCritical ==
    [verifier |-> "judge", kind |-> "judge_error", severity |-> "critical",
     sourced |-> FALSE]

\* Verify's own finding when Judge.Run returns an error; it names no source.
JudgeError ==
    [verifier |-> "judge", kind |-> "judge_error", severity |-> "warning",
     sourced |-> FALSE]

JudgeFinding == {JudgeIssue(s) : s \in Severities} \cup {JudgeError}

-----------------------------------------------------------------------------
\* An evidence gap is set aside before its severity is looked at.
EvidenceGaps(findings) == {f \in findings : f.kind = "evidence_gap"}

Rated(findings) == findings \ EvidenceGaps(findings)

JudgeOpinion(f) == f.verifier = "judge" \/ f.sourced

DetCritical(findings) ==
    \E f \in Rated(findings) : f.severity = "critical" /\ ~JudgeOpinion(f)

JudgeCritical(findings) ==
    \E f \in Rated(findings) : f.severity = "critical" /\ JudgeOpinion(f)

Warning(findings) == \E f \in Rated(findings) : f.severity # "critical"

\* Mutant of verdictFor: the judge is heard before the evidence gaps.
verdictForJudgeFirst(findings) ==
    IF DetCritical(findings) THEN "FAIL"
    ELSE IF JudgeCritical(findings) THEN "FAIL"
    ELSE IF EvidenceGaps(findings) # {} THEN "INCONCLUSIVE"
    ELSE IF Warning(findings) THEN "FLAGGED"
    ELSE "PASS"

verdictFor(findings) ==
    IF DetCritical(findings) THEN "FAIL"
    ELSE IF EvidenceGaps(findings) # {} THEN "INCONCLUSIVE"
    ELSE IF JudgeCritical(findings) THEN "FAIL"
    ELSE IF Warning(findings) THEN "FLAGGED"
    ELSE "PASS"

=============================================================================
