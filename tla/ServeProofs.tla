---------------------------- MODULE ServeProofs ----------------------------
(***************************************************************************)
(* Proofs about module Serve, for every set of requests and traces, every   *)
(* set of batches, with and without a judge: whatever the interleaving of   *)
(* the handlers, the verdicts are right.  The invariant says what each      *)
(* handler has gathered at each point of its code, and that what the store  *)
(* holds was put there by a handler that got that far.                      *)
(*                                                                          *)
(* Then about its use of the store and of the shared judge.  For any        *)
(* clients, the handlers' steps are steps of the store's specification.     *)
(* For clients that post one batch at a time, as the experiment drivers do, *)
(* an acknowledged report stays retrievable for its time to live, a stored  *)
(* report is never replaced by an older one, and a report carries its own   *)
(* tokens.  The runs ServePutOrder and ServeSharedJudge show that the last  *)
(* two fail for clients that do not wait.                                   *)
(***************************************************************************)
EXTENDS Serve, TLAPS

\* What a judge's reply adds to the findings.
Judged(text) ==
    IF text \in Failures THEN {JudgeError}
    ELSE IF text \in Severities THEN {JudgeIssue(text)} ELSE {}

OwnVerdict(r) == verdictFor(det[r] \cup Judged(reply[r]))

\* A judge that is configured has been asked.
Asked(r) == JudgeOn => reply[r] # "none"

Gathered(r) ==
    /\ pc[r] \in {"idle", "judge_reset", "chat"} => reply[r] = "none"
    /\ pc[r] \in {"idle", "judge_reset", "chat", "judge_copy", "build"} =>
          report[r] = NoReport
    /\ pc[r] \in {"judge_reset", "chat", "judge_copy"} => findings[r] = det[r]
    /\ pc[r] = "judge_copy" => reply[r] \in Replies \ {"error"}
    /\ pc[r] = "build" =>
          findings[r] = det[r] \cup Judged(reply[r]) /\ Asked(r)
    /\ pc[r] \in {"usage", "put", "respond"} =>
          /\ report[r] \in Store!Report
          /\ report[r].body.by = r
          /\ report[r].body.verdict = OwnVerdict(r)
          /\ Asked(r)
    /\ report[r] # NoReport => report[r].body.verdict = OwnVerdict(r)

PutBy(t, r) ==
    /\ r \in Requests
    /\ trace[r] = t
    /\ pc[r] \in {"respond", "done"}
    /\ Asked(r)
    /\ reports[t].body.verdict = OwnVerdict(r)

VerdictInv ==
    /\ TypeOK
    /\ \A r \in Requests : Gathered(r)
    /\ \A t \in Traces : reports[t] # NoReport => PutBy(t, reports[t].body.by)

-----------------------------------------------------------------------------
\* The verdict mapping (report.go:84-122) on deterministic findings to which
\* a judge's reply is added: a FAIL or an abstention stands, an outage only
\* takes a PASS away, and a PASS needs a clean batch and no issue.
LEMMA JudgeIsASupplement ==
    ASSUME NEW D \in SUBSET DeterministicFinding,
           NEW text \in Replies \cup {"none"}
    PROVE  /\ verdictFor(D) \in {"FAIL", "INCONCLUSIVE"} =>
                 verdictFor(D \cup Judged(text)) = verdictFor(D)
           /\ text \in Failures =>
                 verdictFor(D \cup Judged(text)) =
                     IF verdictFor(D) = "PASS" THEN "FLAGGED" ELSE verdictFor(D)
           /\ verdictFor(D \cup Judged(text)) = "PASS" =>
                 D = {} /\ text \in {"clean", "none"}
<1> DEFINE A == D \cup Judged(text)
<1>1. \A f \in D : ~JudgeOpinion(f)
  <2> SUFFICES ASSUME NEW f \in D PROVE ~JudgeOpinion(f)
      OBVIOUS
  <2>1. \/ \E v \in {"schema", "policy", "budget", "status"} :
              f = Violation(v, "critical")
        \/ f = Violation("loop", "warning")
        \/ f = EvidenceGap
        BY DEF DeterministicFinding
  <2>2. ASSUME NEW v \in {"schema", "policy", "budget", "status", "loop"},
               NEW s \in Severities, f = Violation(v, s)
        PROVE  f.verifier # "judge" /\ f.sourced = FALSE
        BY <2>2 DEF Violation
  <2>3. f = EvidenceGap => f.verifier # "judge" /\ f.sourced = FALSE
        BY DEF EvidenceGap
  <2>4. f.verifier # "judge" /\ f.sourced = FALSE
        BY <2>1, <2>2, <2>3 DEF Severities
  <2> QED
      BY <2>4, Zenon DEF JudgeOpinion
<1>3. \A f \in Judged(text) : JudgeOpinion(f) /\ f.kind # "evidence_gap"
  <2> SUFFICES ASSUME NEW f \in Judged(text)
               PROVE  JudgeOpinion(f) /\ f.kind # "evidence_gap"
      OBVIOUS
  <2>1. f = JudgeError \/ f = JudgeIssue(text)
        BY DEF Judged
  <2>2. f = JudgeError => f.verifier = "judge" /\ f.kind # "evidence_gap"
        BY DEF JudgeError
  <2>3. ASSUME NEW s, f = JudgeIssue(s)
        PROVE  f.verifier = "judge" /\ f.kind # "evidence_gap"
        BY <2>3 DEF JudgeIssue
  <2> QED
      BY <2>1, <2>2, <2>3, Zenon DEF JudgeOpinion
<1>4. DetCritical(A) <=> DetCritical(D)
      BY <1>3 DEF DetCritical, Rated, EvidenceGaps
<1>5. EvidenceGaps(A) = EvidenceGaps(D)
      BY <1>3 DEF EvidenceGaps
<1>6. ~JudgeCritical(D)
      BY <1>1 DEF JudgeCritical, Rated, EvidenceGaps
<1>7. /\ verdictFor(D) = "FAIL" => DetCritical(D)
      /\ verdictFor(D) = "INCONCLUSIVE" =>
            ~DetCritical(D) /\ EvidenceGaps(D) # {}
      /\ verdictFor(D) = "FLAGGED" => 
            ~DetCritical(D) /\ EvidenceGaps(D) = {} /\ Warning(D)
      /\ verdictFor(D) = "PASS" => 
            ~DetCritical(D) /\ EvidenceGaps(D) = {} /\ ~Warning(D)
      /\ verdictFor(D) \in {"FAIL", "INCONCLUSIVE", "FLAGGED", "PASS"}
      BY <1>6 DEF verdictFor
<1>8. verdictFor(D) \in {"FAIL",
       "INCONCLUSIVE"} => verdictFor(A) = verdictFor(D)
      BY <1>4, <1>5, <1>7 DEF verdictFor
<1>9. ASSUME text \in Failures
      PROVE  /\ ~JudgeCritical(A)
             /\ Warning(A)
  <2>1. Judged(text) = {JudgeError}
        BY <1>9 DEF Judged
  <2>2. JudgeError \in Rated(A) /\ JudgeError.severity = "warning"
        BY <2>1 DEF JudgeError, Rated, EvidenceGaps
  <2>3. Warning(A)
        BY <2>2 DEF Warning
  <2>4. ~JudgeCritical(A)
        BY <2>1, <1>1 DEF JudgeCritical, Rated, EvidenceGaps, JudgeError
  <2> QED
      BY <2>3, <2>4
<1>10. text \in Failures =>
          verdictFor(A) =
              IF verdictFor(D) = "PASS" THEN "FLAGGED" ELSE verdictFor(D)
       BY <1>4, <1>5, <1>7, <1>9 DEF verdictFor
<1>11. ASSUME verdictFor(A) = "PASS"
       PROVE  D = {} /\ text \in {"clean", "none"}
  <2>1. ~DetCritical(A) /\ EvidenceGaps(A) = {} /\ ~JudgeCritical(A) /\ ~Warning(A)
        BY <1>11 DEF verdictFor
  <2>2. \A f \in A : f.severity # "critical" /\ f.severity = "critical"
        BY <2>1 DEF DetCritical, JudgeCritical, Warning, Rated
  <2>3. D = {} /\ Judged(text) = {}
        BY <2>2
  <2>4. text \notin Failures /\ text \notin Severities
        BY <2>3 DEF Judged
  <2> QED
      BY <2>3, <2>4 DEF Replies, Failures, Severities
<1> QED
    BY <1>8, <1>10, <1>11

\* Sweeping only removes reports.
LEMMA SweptIsPart ==
    ASSUME TypeOK, NEW t \in Traces
    PROVE  Store!Swept[t] \in {reports[t], NoReport}
BY DEF TypeOK, Store!TypeOK, Store!Swept

\* The map after a sweep is still a map from traces to reports.
LEMMA SweptTypes ==
    ASSUME TypeOK
    PROVE  /\ Store!Swept \in [Traces -> Store!Report \cup {NoReport}]
           /\ Store!SweptAt \in Int
BY DEF TypeOK, Store!TypeOK, Store!Swept, Store!SweptAt

-----------------------------------------------------------------------------
\* Every finding that a verifier can emit is a finding, and every set of
\* findings is mapped to a verdict.
LEMMA FindingTypes ==
    /\ DeterministicFinding \subseteq Finding
    /\ JudgeFinding \subseteq Finding
    /\ \A F : verdictFor(F) \in Verdicts
<1>1. \A v \in Verifiers, s \in Severities : Violation(v, s) \in Finding
      BY DEF Violation, Finding, Kinds
<1>2. EvidenceGap \in Finding /\ JudgeError \in Finding
      BY DEF EvidenceGap, JudgeError, Finding, Kinds, Severities, Verifiers,
             DeterministicVerifiers
<1>3. \A s \in Severities : JudgeIssue(s) \in Finding
      BY DEF JudgeIssue, Finding, Kinds, Verifiers
<1> QED
    BY <1>1, <1>2, <1>3 DEF DeterministicFinding, JudgeFinding, Verifiers,
       DeterministicVerifiers, Severities, verdictFor, Verdicts

\* A step of one handler leaves what the others have gathered alone.
LEMMA OtherHandlers ==
    ASSUME NEW q \in Requests, Gathered(q),
           UNCHANGED <<pc[q], reply[q], report[q], findings[q], det[q]>>
    PROVE  Gathered(q)'
BY DEF Gathered, OwnVerdict, Asked

-----------------------------------------------------------------------------
\* A refused request gathers nothing.
LEMMA RefuseKeeps ==
    ASSUME VerdictInv, NEW r \in Requests, NEW answered \in {"refused",
           "failed"}, Refuse(r, answered)
    PROVE  VerdictInv'
<1> USE DEF VerdictInv
<1>1. TypeOK'
  <2>1. pc' \in [Requests -> {"idle", "done"} \cup InFlight]
        BY DEF TypeOK, Refuse, Move, InFlight, Building
  <2> QED
      BY <2>1, ServeAssumption DEF TypeOK, Store!TypeOK, Refuse, Move, storeVars
<1>2. \A q \in Requests : Gathered(q)'
  <2>1. ASSUME NEW q \in Requests, q # r
        PROVE  Gathered(q)'
        BY <2>1, OtherHandlers DEF Refuse, Move, TypeOK
  <2>2. Gathered(r)'
        BY <1>1 DEF TypeOK, Gathered, OwnVerdict, Asked, Refuse, Move
  <2> QED
      BY <2>1, <2>2
<1>3. \A u \in Traces : reports'[u] # NoReport => PutBy(u, reports[u].body.by)'
      BY DEF TypeOK, Gathered, PutBy, OwnVerdict, Asked, Refuse, Move, storeVars
<1> QED
    BY <1>1, <1>2, <1>3

\* The deterministic verifiers start a handler's findings.
LEMMA VerifyKeeps ==
    ASSUME VerdictInv, NEW r \in Requests,
           NEW t \in Traces, NEW batch \in Batches, Verify(r, t, batch)
    PROVE  VerdictInv'
<1> USE DEF VerdictInv
<1>1. TypeOK'
  <2>1. pc' \in [Requests -> {"idle", "done"} \cup InFlight]
        BY DEF TypeOK, Verify, Move, InFlight, Building
  <2>2. findings' \in [Requests -> SUBSET Finding]
        BY ServeAssumption, FindingTypes DEF TypeOK, Verify
  <2>3. det' \in [Requests -> SUBSET DeterministicFinding]
        BY ServeAssumption DEF TypeOK, Verify
  <2> QED
      BY <2>1, <2>2, <2>3, ServeAssumption
         DEF TypeOK, Store!TypeOK, Verify, Move, storeVars
<1>2. \A q \in Requests : Gathered(q)'
  <2>1. ASSUME NEW q \in Requests, q # r
        PROVE  Gathered(q)'
        BY <2>1, OtherHandlers DEF Verify, Move, TypeOK
  <2>2. Gathered(r)'
    <3>1. /\ pc'[r] = IF JudgeOn THEN "judge_reset" ELSE "build"
          /\ reply'[r] = "none" /\ report'[r] = NoReport
          /\ findings'[r] = batch /\ det'[r] = batch
          BY DEF TypeOK, Gathered, Verify, Move
    <3>2. Judged("none") = {}
          BY DEF Judged, Failures, Severities
    <3> QED
        BY <3>1, <3>2, ServeAssumption DEF Gathered, OwnVerdict, Asked
  <2> QED
      BY <2>1, <2>2
<1>3. \A u \in Traces : reports'[u] # NoReport => PutBy(u, reports[u].body.by)'
      BY DEF TypeOK, Gathered, PutBy, OwnVerdict, Asked, Verify, Move, storeVars
<1> QED
    BY <1>1, <1>2, <1>3

\* Clearing the shared token counts touches no verdict.
LEMMA JudgeResetKeeps ==
    ASSUME VerdictInv, NEW r \in Requests, JudgeReset(r)
    PROVE  VerdictInv'
<1> USE DEF VerdictInv
<1>1. TypeOK'
  <2>1. pc' \in [Requests -> {"idle", "done"} \cup InFlight]
        BY DEF TypeOK, JudgeReset, Move, InFlight, Building
  <2> QED
      BY <2>1, ServeAssumption
         DEF TypeOK, Store!TypeOK, JudgeReset, Move, storeVars
<1>2. \A q \in Requests : Gathered(q)'
  <2>1. ASSUME NEW q \in Requests, q # r
        PROVE  Gathered(q)'
        BY <2>1, OtherHandlers DEF JudgeReset, Move, TypeOK
  <2>2. Gathered(r)'
        BY <1>1 DEF TypeOK, Gathered, OwnVerdict, Asked, JudgeReset, Move
  <2> QED
      BY <2>1, <2>2
<1>3. \A u \in Traces : reports'[u] # NoReport => PutBy(u, reports[u].body.by)'
      BY DEF TypeOK, Gathered, PutBy, OwnVerdict, Asked, JudgeReset, Move,
             storeVars
<1> QED
    BY <1>1, <1>2, <1>3

\* The reply belongs to the handler that asked.
LEMMA ChatTextKeeps ==
    ASSUME VerdictInv, NEW r \in Requests, NEW text \in Replies \ {"error"},
           ChatText(r, text)
    PROVE  VerdictInv'
<1> USE DEF VerdictInv
<1>1. TypeOK'
  <2>1. pc' \in [Requests -> {"idle", "done"} \cup InFlight]
        BY DEF TypeOK, ChatText, Move, InFlight, Building
  <2> QED
      BY <2>1, ServeAssumption
         DEF TypeOK, Store!TypeOK, ChatText, Move, storeVars
<1>2. \A q \in Requests : Gathered(q)'
  <2>1. ASSUME NEW q \in Requests, q # r
        PROVE  Gathered(q)'
        BY <2>1, OtherHandlers DEF ChatText, Move, TypeOK
  <2>2. Gathered(r)'
        BY <1>1 DEF TypeOK, Gathered, OwnVerdict, Asked, ChatText, Move
  <2> QED
      BY <2>1, <2>2
<1>3. \A u \in Traces : reports'[u] # NoReport => PutBy(u, reports[u].body.by)'
      BY DEF TypeOK, Gathered, PutBy, OwnVerdict, Asked, ChatText, Move,
             storeVars
<1> QED
    BY <1>1, <1>2, <1>3

\* A failed call adds the outage to the findings.
LEMMA ChatErrorKeeps ==
    ASSUME VerdictInv, NEW r \in Requests, ChatError(r)
    PROVE  VerdictInv'
<1> USE DEF VerdictInv
<1>1. TypeOK'
  <2>1. pc' \in [Requests -> {"idle", "done"} \cup InFlight]
        BY DEF TypeOK, ChatError, Move, InFlight, Building
  <2>2. findings' \in [Requests -> SUBSET Finding]
    <3>1. JudgeError \in Finding
          BY FindingTypes DEF JudgeFinding
    <3> QED
        BY <3>1 DEF TypeOK, ChatError
  <2>3. reply' \in [Requests -> Replies \cup {"none"}]
        BY DEF TypeOK, ChatError, Replies, Failures
  <2> QED
      BY <2>1, <2>2, <2>3, ServeAssumption
         DEF TypeOK, Store!TypeOK, ChatError, Move, storeVars
<1>2. \A q \in Requests : Gathered(q)'
  <2>1. ASSUME NEW q \in Requests, q # r
        PROVE  Gathered(q)'
        BY <2>1, OtherHandlers DEF ChatError, Move, TypeOK
  <2>2. Gathered(r)'
    <3>1. /\ pc'[r] = "build"
          /\ reply'[r] = "error" /\ report'[r] = NoReport
          /\ findings'[r] = det[r] \cup {JudgeError} /\ det'[r] = det[r]
          BY DEF TypeOK, Gathered, ChatError, Move
    <3>2. Judged("error") = {JudgeError}
          BY DEF Judged, Failures
    <3> QED
        BY <3>1, <3>2, ServeAssumption DEF Gathered, OwnVerdict, Asked
  <2> QED
      BY <2>1, <2>2
<1>3. \A u \in Traces : reports'[u] # NoReport => PutBy(u, reports[u].body.by)'
      BY DEF TypeOK, Gathered, PutBy, OwnVerdict, Asked, ChatError, Move,
             storeVars
<1> QED
    BY <1>1, <1>2, <1>3

\* The findings that LLM.Run and Verify add between them.
LEMMA JudgeCopyJudges ==
    ASSUME TypeOK, NEW r \in Requests, Gathered(r), JudgeCopy(r)
    PROVE  findings' = [findings EXCEPT ![r] = @ \cup Judged(reply[r])]
<1>1. reply[r] \in {"garbled", "clean", "warning", "critical"}
      BY DEF Gathered, JudgeCopy, Move, Replies, Failures
<1>2. CASE reply[r] = "garbled"
      BY <1>2 DEF JudgeCopy, Judged, Failures
<1>3. CASE reply[r] = "clean"
      BY <1>3 DEF JudgeCopy, Judged, Failures, Severities
<1>4. CASE reply[r] \in Severities
      BY <1>4 DEF JudgeCopy, Judged, Failures, Severities
<1> QED
    BY <1>1, <1>2, <1>3, <1>4 DEF Severities

\* Reading the reply adds what the judge said.
LEMMA JudgeCopyKeeps ==
    ASSUME VerdictInv, NEW r \in Requests, JudgeCopy(r)
    PROVE  VerdictInv'
<1> USE DEF VerdictInv
<1>1. TypeOK'
  <2>1. pc' \in [Requests -> {"idle", "done"} \cup InFlight]
        BY DEF TypeOK, JudgeCopy, Move, InFlight, Building
  <2>2. findings' \in [Requests -> SUBSET Finding]
    <3>1. findings' = [findings EXCEPT ![r] = @ \cup Judged(reply[r])]
          BY JudgeCopyJudges
    <3>2. Judged(reply[r]) \subseteq Finding
          BY FindingTypes DEF Judged, JudgeFinding
    <3> QED
        BY <3>1, <3>2 DEF TypeOK
  <2> QED
      BY <2>1, <2>2, ServeAssumption
         DEF TypeOK, Store!TypeOK, JudgeCopy, Move, storeVars
<1>2. \A q \in Requests : Gathered(q)'
  <2>1. ASSUME NEW q \in Requests, q # r
        PROVE  Gathered(q)'
        BY <2>1, OtherHandlers DEF JudgeCopy, Move, TypeOK
  <2>2. Gathered(r)'
    <3>1. /\ pc'[r] = "build"
          /\ reply'[r] = reply[r] /\ report'[r] = NoReport
          /\ reply[r] # "none"
          /\ findings[r] = det[r] /\ det'[r] = det[r]
          BY DEF TypeOK, Gathered, JudgeCopy, Move, Replies, Failures
    <3>2. findings'[r] = findings[r] \cup Judged(reply[r])
          BY JudgeCopyJudges DEF TypeOK
    <3> QED
        BY <3>1, <3>2, ServeAssumption DEF Gathered, OwnVerdict, Asked
  <2> QED
      BY <2>1, <2>2
<1>3. \A u \in Traces : reports'[u] # NoReport => PutBy(u, reports[u].body.by)'
      BY DEF TypeOK, Gathered, PutBy, OwnVerdict, Asked, JudgeCopy, Move,
             storeVars
<1> QED
    BY <1>1, <1>2, <1>3

\* The verdict is that of the findings gathered.
LEMMA BuildKeeps ==
    ASSUME VerdictInv, NEW r \in Requests, Build(r)
    PROVE  VerdictInv'
<1> USE DEF VerdictInv
<1>1. TypeOK'
  <2>1. pc' \in [Requests -> {"idle", "done"} \cup InFlight]
        BY DEF TypeOK, Build, Move, InFlight, Building
  <2>2. report' \in [Requests -> Store!Report \cup {NoReport}]
        BY ServeAssumption, FindingTypes
           DEF TypeOK, Build, Move, Store!Report, ReportBody, Store!TypeOK
  <2> QED
      BY <2>1, <2>2, ServeAssumption
         DEF TypeOK, Store!TypeOK, Build, Move, storeVars
<1>2. \A q \in Requests : Gathered(q)'
  <2>1. ASSUME NEW q \in Requests, q # r
        PROVE  Gathered(q)'
        BY <2>1, OtherHandlers DEF Build, Move, TypeOK
  <2>2. Gathered(r)'
    <3>1. /\ pc'[r] = IF JudgeOn THEN "usage" ELSE "put"
          /\ reply'[r] = reply[r] /\ Asked(r)
          /\ findings[r] = det[r] \cup Judged(reply[r]) /\ det'[r] = det[r]
          BY DEF TypeOK, Gathered, Build, Move
    <3>2. /\ report'[r] \in Store!Report
          /\ report'[r].body.by = r
          /\ report'[r].body.verdict = verdictFor(findings[r])
      <4> DEFINE body == [verdict |-> verdictFor(findings[r]),
                          usage |-> NoTokens, by |-> r]
      <4>1. report'[r] = [generatedAt |-> clock, body |-> body]
            BY DEF TypeOK, Build
      <4>2. body \in ReportBody
            BY FindingTypes DEF ReportBody
      <4>3. clock \in Int
            BY DEF TypeOK, Store!TypeOK
      <4> QED
          BY <4>1, <4>2, <4>3 DEF Store!Report
    <3> QED
        BY <3>1, <3>2, ServeAssumption DEF Gathered, OwnVerdict, Asked
  <2> QED
      BY <2>1, <2>2
<1>3. \A u \in Traces : reports'[u] # NoReport => PutBy(u, reports[u].body.by)'
      BY DEF TypeOK, Gathered, PutBy, OwnVerdict, Asked, Build, Move, storeVars
<1> QED
    BY <1>1, <1>2, <1>3

\* SetJudgeUsage changes the token counts of a report and nothing else.
LEMMA UsageIsAside ==
    ASSUME TypeOK, NEW r \in Requests, Gathered(r), SetJudgeUsage(r)
    PROVE  \E new \in Store!Report :
               /\ report' = [report EXCEPT ![r] = new]
               /\ new.body.verdict = report[r].body.verdict
               /\ new.body.by = report[r].body.by
<1> DEFINE body == [report[r].body EXCEPT !.usage = judgeLast]
           new == [report[r] EXCEPT !.body = body]
<1>1. report[r] \in Store!Report
      BY DEF Gathered, SetJudgeUsage, Move
<1>2. report[r].body \in ReportBody
      BY <1>1 DEF Store!Report
<1>3. judgeLast \in Requests \cup {NoTokens}
      BY DEF TypeOK
<1>4. /\ body \in ReportBody
      /\ body.verdict = report[r].body.verdict
      /\ body.by = report[r].body.by
      BY <1>2, <1>3 DEF ReportBody
<1>5. new \in Store!Report /\ new.body = body
      BY <1>1, <1>4 DEF Store!Report
<1>6. report' = [report EXCEPT ![r] = new]
      BY DEF SetJudgeUsage
<1> QED
    BY <1>4, <1>5, <1>6

\* The token counts are no part of the verdict.
LEMMA SetJudgeUsageKeeps ==
    ASSUME VerdictInv, NEW r \in Requests, SetJudgeUsage(r)
    PROVE  VerdictInv'
<1> USE DEF VerdictInv
<1>1. TypeOK'
  <2>1. pc' \in [Requests -> {"idle", "done"} \cup InFlight]
        BY DEF TypeOK, SetJudgeUsage, Move, InFlight, Building
  <2>2. report' \in [Requests -> Store!Report \cup {NoReport}]
        BY UsageIsAside DEF TypeOK
  <2> QED
      BY <2>1, <2>2, ServeAssumption
         DEF TypeOK, Store!TypeOK, SetJudgeUsage, Move, storeVars
<1>2. \A q \in Requests : Gathered(q)'
  <2>1. ASSUME NEW q \in Requests, q # r
        PROVE  Gathered(q)'
        BY <2>1, OtherHandlers DEF SetJudgeUsage, Move, TypeOK
  <2>2. Gathered(r)'
    <3>1. /\ pc'[r] = "put"
          /\ reply'[r] = reply[r] /\ Asked(r) /\ det'[r] = det[r]
          BY DEF TypeOK, Gathered, SetJudgeUsage, Move
    <3>2. /\ report'[r] \in Store!Report
          /\ report'[r].body.by = report[r].body.by
          /\ report'[r].body.verdict = report[r].body.verdict
          BY UsageIsAside DEF TypeOK
    <3>3. pc[r] = "usage" /\ report[r] \in Store!Report
          BY DEF Gathered, SetJudgeUsage, Move
    <3>4. report[r].body.by = r /\ report[r].body.verdict = OwnVerdict(r)
          BY <3>3 DEF Gathered
    <3> QED
        BY <3>1, <3>2, <3>4 DEF Gathered, OwnVerdict, Asked
  <2> QED
      BY <2>1, <2>2
<1>3. \A u \in Traces : reports'[u] # NoReport => PutBy(u, reports[u].body.by)'
      BY DEF TypeOK, Gathered, PutBy, OwnVerdict, Asked, SetJudgeUsage, Move,
             storeVars
<1> QED
    BY <1>1, <1>2, <1>3

\* The store gets the handler's own report, for its own trace.
LEMMA PutReportKeeps ==
    ASSUME VerdictInv, NEW r \in Requests, PutReport(r)
    PROVE  VerdictInv'
<1> USE DEF VerdictInv
<1>1. TypeOK'
  <2>1. pc' \in [Requests -> {"idle", "done"} \cup InFlight]
        BY DEF TypeOK, PutReport, Move, InFlight
  <2>2. /\ reports' \in [Traces -> Store!Report \cup {NoReport}]
        /\ latest' \in [Traces -> Store!Report \cup {NoReport}]
        /\ lastSweep' \in Int
    <3>1. report[r] \in Store!Report
          BY DEF Gathered, PutReport, Move
    <3>2. /\ reports' = [Store!Swept EXCEPT ![trace[r]] = report[r]]
          /\ latest' = [latest EXCEPT ![trace[r]] = report[r]]
          /\ lastSweep' = Store!SweptAt
          BY DEF PutReport, Store!Put
    <3>3. /\ Store!Swept \in [Traces -> Store!Report \cup {NoReport}]
          /\ Store!SweptAt \in Int
          BY SweptTypes
    <3>4. latest \in [Traces -> Store!Report \cup {NoReport}]
          BY DEF TypeOK, Store!TypeOK
    <3> QED
        BY <3>1, <3>2, <3>3, <3>4
  <2> QED
      BY <2>1, <2>2 DEF TypeOK, Store!TypeOK, PutReport, Move, Store!Put
<1>2. \A q \in Requests : Gathered(q)'
  <2>1. ASSUME NEW q \in Requests, q # r
        PROVE  Gathered(q)'
        BY <2>1, OtherHandlers DEF PutReport, Move, Store!Put, TypeOK
  <2>2. Gathered(r)'
        BY <1>1 DEF TypeOK, Gathered, OwnVerdict, Asked, PutReport, Move
  <2> QED
      BY <2>1, <2>2
<1>3. ASSUME NEW u \in Traces, reports'[u] # NoReport
      PROVE  PutBy(u, reports[u].body.by)'
  <2>1. /\ pc[r] = "put" /\ pc' = [pc EXCEPT ![r] = "respond"]
        /\ UNCHANGED <<trace, reply, det>>
        BY DEF PutReport, Move
  <2>2. /\ report[r].body.by = r
        /\ report[r].body.verdict = OwnVerdict(r)
        /\ Asked(r)
        BY <2>1 DEF Gathered
  <2>3. reports' = [Store!Swept EXCEPT ![trace[r]] = report[r]]
        BY DEF PutReport, Store!Put
  <2>4. CASE u = trace[r]
    <3>1. reports'[u] = report[r]
          BY <2>3, <2>4, SweptTypes
    <3>2. reports'[u].body.by = r
          BY <2>2, <3>1
    <3>3. pc'[r] = "respond" /\ trace'[r] = u
          BY <2>1, <2>4 DEF TypeOK
    <3>4. reports'[u].body.verdict = OwnVerdict(r)' /\ Asked(r)'
          BY <2>1, <2>2, <3>1 DEF OwnVerdict, Asked
    <3> QED
        BY <3>2, <3>3, <3>4 DEF PutBy
  <2>5. CASE u # trace[r]
    <3>1. reports'[u] = reports[u]
          BY <1>3, <2>3, <2>5, SweptTypes, SweptIsPart
    <3>2. PutBy(u, reports[u].body.by)
          BY <1>3, <3>1
    <3> QED
        BY <2>1, <3>1, <3>2 DEF TypeOK, PutBy, OwnVerdict, Asked
  <2> QED
      BY <2>4, <2>5
<1> QED
    BY <1>1, <1>2, <1>3

\* Answering changes no report.
LEMMA RespondKeeps ==
    ASSUME VerdictInv, NEW r \in Requests, Respond(r)
    PROVE  VerdictInv'
<1> USE DEF VerdictInv
<1>1. TypeOK'
  <2>1. pc' \in [Requests -> {"idle", "done"} \cup InFlight]
        BY DEF TypeOK, Respond, Move, InFlight, Building
  <2> QED
      BY <2>1, ServeAssumption
         DEF TypeOK, Store!TypeOK, Respond, Move, storeVars
<1>2. \A q \in Requests : Gathered(q)'
  <2>1. ASSUME NEW q \in Requests, q # r
        PROVE  Gathered(q)'
        BY <2>1, OtherHandlers DEF Respond, Move, TypeOK
  <2>2. Gathered(r)'
        BY <1>1 DEF TypeOK, Gathered, OwnVerdict, Asked, Respond, Move
  <2> QED
      BY <2>1, <2>2
<1>3. \A u \in Traces : reports'[u] # NoReport => PutBy(u, reports[u].body.by)'
      BY DEF TypeOK, Gathered, PutBy, OwnVerdict, Asked, Respond, Move,
             storeVars
<1> QED
    BY <1>1, <1>2, <1>3

\* A fetch may sweep other reports and alters none.
LEMMA GetReportKeeps ==
    ASSUME VerdictInv, NEW t \in Traces, GetReport(t)
    PROVE  VerdictInv'
<1> USE DEF VerdictInv
<1>1. TypeOK'
  <2>1. pc' \in [Requests -> {"idle", "done"} \cup InFlight]
        BY DEF TypeOK, GetReport, Store!Get, handlerVars, InFlight, Building
  <2> QED
      BY <2>1, ServeAssumption, SweptTypes
         DEF TypeOK, Store!TypeOK, GetReport, Store!Get, handlerVars, storeVars
<1>2. \A q \in Requests : Gathered(q)'
      BY DEF TypeOK, Gathered, OwnVerdict, Asked, GetReport, Store!Get,
             handlerVars, InFlight, Building
<1>3. ASSUME NEW u \in Traces, reports'[u] # NoReport
      PROVE  PutBy(u, reports[u].body.by)'
  <2>1. UNCHANGED <<pc, trace, reply, det>>
        BY DEF GetReport, handlerVars
  <2>2. reports'[u] = reports[u]
        BY <1>3, SweptIsPart DEF GetReport, Store!Get
  <2>3. PutBy(u, reports[u].body.by)
        BY <1>3, <2>2
  <2> QED
      BY <2>1, <2>2, <2>3 DEF PutBy, OwnVerdict, Asked
<1> QED
    BY <1>1, <1>2, <1>3

\* Time alters no report.
LEMMA TickKeeps ==
    ASSUME VerdictInv, Tick
    PROVE  VerdictInv'
<1> USE DEF VerdictInv
<1>1. TypeOK'
  <2>1. pc' \in [Requests -> {"idle", "done"} \cup InFlight]
        BY DEF TypeOK, Tick, Store!Tick, handlerVars, InFlight, Building
  <2> QED
      BY <2>1, ServeAssumption
         DEF TypeOK, Store!TypeOK, Tick, Store!Tick, handlerVars, storeVars
<1>2. \A q \in Requests : Gathered(q)'
      BY DEF TypeOK, Gathered, OwnVerdict, Asked, Tick, Store!Tick,
             handlerVars, InFlight, Building
<1>3. \A u \in Traces : reports'[u] # NoReport => PutBy(u, reports[u].body.by)'
      BY DEF TypeOK, Gathered, PutBy, OwnVerdict, Asked, Tick, Store!Tick,
             handlerVars, storeVars, InFlight, Building
<1> QED
    BY <1>1, <1>2, <1>3

\* A restart empties the store and ends every handler.
LEMMA RestartKeeps ==
    ASSUME VerdictInv, Restart
    PROVE  VerdictInv'
<1> USE DEF VerdictInv
<1>1. TypeOK'
  <2>1. pc' \in [Requests -> {"idle", "done"} \cup InFlight]
        BY DEF TypeOK, Restart, Store!Restart, Store!Nobody, Store!ZeroTime,
               InFlight, Building
  <2> QED
      BY <2>1, ServeAssumption DEF TypeOK, Store!TypeOK, Restart,
             Store!Restart, Store!Nobody, Store!ZeroTime, storeVars
<1>2. \A q \in Requests : Gathered(q)'
      BY DEF TypeOK, Gathered, OwnVerdict, Asked, Restart, Store!Restart,
             Store!Nobody, Store!ZeroTime, InFlight, Building
<1>3. \A u \in Traces : reports'[u] # NoReport => PutBy(u, reports[u].body.by)'
      BY DEF TypeOK, Gathered, PutBy, OwnVerdict, Asked, Restart,
             Store!Restart, Store!Nobody, Store!ZeroTime, storeVars, InFlight,
                    Building
<1> QED
    BY <1>1, <1>2, <1>3

-----------------------------------------------------------------------------
\* The invariant holds before the first request.
LEMMA VerdictInvInit == Init => VerdictInv
<1> SUFFICES ASSUME Init PROVE VerdictInv
    OBVIOUS
<1>1. TypeOK
      BY ServeAssumption DEF Init, TypeOK, Store!Init, Store!NewStore,
         Store!TypeOK, Store!Nobody, Store!ZeroTime, Store!NoAnswer
<1>2. \A r \in Requests : Gathered(r)
      BY DEF Init, Gathered
<1>3. \A t \in Traces : reports[t] = NoReport
      BY DEF Init, Store!Init, Store!NewStore, Store!Nobody
<1> QED
    BY <1>1, <1>2, <1>3 DEF VerdictInv

\* Every step of the server preserves the invariant.
LEMMA VerdictInvNext == VerdictInv /\ [Next]_vars => VerdictInv'
<1> SUFFICES ASSUME VerdictInv, [Next]_vars PROVE VerdictInv'
    OBVIOUS
<1>1. CASE UNCHANGED vars
      BY <1>1 DEF VerdictInv, TypeOK, Gathered, PutBy, OwnVerdict, Asked,
         Store!TypeOK, vars, handlerVars, storeVars
<1>2. ASSUME NEW r \in Requests, NEW answered \in {"refused", "failed"},
             Refuse(r, answered)
      PROVE  VerdictInv'
      BY <1>2, RefuseKeeps
<1>3. ASSUME NEW r \in Requests, NEW t \in Traces, NEW batch \in Batches,
             Verify(r, t, batch)
      PROVE  VerdictInv'
      BY <1>3, VerifyKeeps
<1>4. ASSUME NEW r \in Requests, Handle(r)
      PROVE  VerdictInv'
      BY <1>4, JudgeResetKeeps, ChatTextKeeps, ChatErrorKeeps, JudgeCopyKeeps,
         BuildKeeps, SetJudgeUsageKeeps, PutReportKeeps, RespondKeeps
         DEF Handle
<1>5. ASSUME NEW t \in Traces, GetReport(t) PROVE VerdictInv'
      BY <1>5, GetReportKeeps
<1>6. CASE Tick
      BY <1>6, TickKeeps
<1>7. CASE Restart
      BY <1>7, RestartKeeps
<1> QED
    BY <1>1, <1>2, <1>3, <1>4, <1>5, <1>6, <1>7 DEF Next

\* Whatever the interleaving, every handler's report and every stored report
\* carries the verdict of its own findings.
THEOREM VerdictInvariant == Spec => []VerdictInv
<1> QED
    BY VerdictInvInit, VerdictInvNext, PTL DEF Spec

\* Every variable of the server keeps its type.
THEOREM TypeCorrect == Spec => []TypeOK
<1>1. VerdictInv => TypeOK
      BY DEF VerdictInv
<1> QED
    BY <1>1, VerdictInvariant, PTL

\* No reply of the judge, in any interleaving, changes a FAIL or an
\* abstention of the deterministic verifiers.
THEOREM DeterministicStands == Spec => []DeterministicVerdictStands
<1>1. VerdictInv => DeterministicVerdictStands
  <2> SUFFICES ASSUME VerdictInv, NEW r \in Requests, report[r] # NoReport,
                      verdictFor(det[r]) \in {"FAIL", "INCONCLUSIVE"}
               PROVE  report[r].body.verdict = verdictFor(det[r])
      BY DEF DeterministicVerdictStands
  <2>1. report[r].body.verdict = OwnVerdict(r)
        BY DEF VerdictInv, Gathered
  <2>2. det[r] \in SUBSET DeterministicFinding /\ reply[r] \in Replies \cup {"none"}
        BY DEF VerdictInv, TypeOK
  <2> QED
      BY <2>1, <2>2, JudgeIsASupplement DEF OwnVerdict
<1> QED
    BY <1>1, VerdictInvariant, PTL

\* A judge that cannot be reached or understood turns a PASS into FLAGGED
\* and changes nothing else.
THEOREM OutageIsNobodysOpinion == Spec => []OutageIsNotAnOpinion
<1>1. VerdictInv => OutageIsNotAnOpinion
  <2> SUFFICES ASSUME VerdictInv, NEW r \in Requests, report[r] # NoReport,
                      reply[r] \in Failures
               PROVE  report[r].body.verdict =
                          IF verdictFor(det[r]) = "PASS" THEN "FLAGGED"
                          ELSE verdictFor(det[r])
      BY DEF OutageIsNotAnOpinion
  <2>1. report[r].body.verdict = OwnVerdict(r)
        BY DEF VerdictInv, Gathered
  <2>2. det[r] \in SUBSET DeterministicFinding /\ reply[r] \in Replies \cup {"none"}
        BY DEF VerdictInv, TypeOK
  <2> QED
      BY <2>1, <2>2, JudgeIsASupplement DEF OwnVerdict
<1> QED
    BY <1>1, VerdictInvariant, PTL

\* A PASS that the store holds was earned by the batch of its own trace and,
\* when a judge is configured, by a judge that answered without an issue.
THEOREM StoredPassHasEvidence == Spec => []StoredPassIsEarned
<1>1. VerdictInv => StoredPassIsEarned
  <2> SUFFICES ASSUME VerdictInv, NEW t \in Traces, reports[t] # NoReport,
                      reports[t].body.verdict = "PASS"
               PROVE  LET r == reports[t].body.by IN
                          /\ trace[r] = t
                          /\ det[r] = {}
                          /\ JudgeOn => reply[r] = "clean"
      BY DEF StoredPassIsEarned
  <2> DEFINE r == reports[t].body.by
  <2>1. PutBy(t, r)
        BY DEF VerdictInv
  <2>2. r \in Requests /\ trace[r] = t /\ OwnVerdict(r) = "PASS" /\ Asked(r)
        BY <2>1 DEF PutBy
  <2>3. det[r] \in SUBSET DeterministicFinding /\ reply[r] \in Replies \cup {"none"}
        BY <2>2 DEF VerdictInv, TypeOK
  <2>4. det[r] = {} /\ reply[r] \in {"clean", "none"}
        BY <2>2, <2>3, JudgeIsASupplement DEF OwnVerdict
  <2> QED
      BY <2>2, <2>4, ServeAssumption DEF Asked
<1> QED
    BY <1>1, VerdictInvariant, PTL

-----------------------------------------------------------------------------
\* A handler is never longer between Build and Put than Tick allows.
InTime ==
    \A r \in Requests : pc[r] \in Building =>
        /\ report[r].generatedAt \in 0..clock
        /\ clock - report[r].generatedAt <= MaxLag

\* A handler that took a batch in knows its trace, and only a handler that
\* is done has been acknowledged.
Placed ==
    /\ \A r \in Requests : pc[r] \in InFlight => trace[r] \in Traces
    /\ \A r \in acked : pc[r] = "done"

StoreUseInv == VerdictInv /\ InTime /\ Placed

\* Clients that wait for their answer have one handler running at a time.
OneAtATime ==
    \A q, r \in Requests : pc[q] \in InFlight /\ pc[r] \in InFlight => q = r

\* A stored report is from the past, and older than what is built next.
InOrder ==
    \A t \in Traces : reports[t] # NoReport =>
        /\ reports[t].generatedAt <= clock
        /\ \A q \in Requests : pc[q] \in Building =>
              reports[t].generatedAt <= report[q].generatedAt

\* A handler's report is in the map, or one that is no older, or its time to
\* live is over.
Held(r) ==
    /\ trace[r] \in Traces
    /\ report[r] \in Store!Report
    /\ \/ Store!Expired(report[r])
       \/ /\ reports[trace[r]] # NoReport
          /\ reports[trace[r]].generatedAt >= report[r].generatedAt

Kept == \A r \in Requests : pc[r] = "respond" \/ r \in acked => Held(r)

OwnUsage(r) == IF reply[r] = "error" THEN NoTokens ELSE r

\* The pair of counts that each point of the code is about to read is the
\* handler's own.
OwnTokens ==
    \A r \in Requests :
        /\ pc[r] = "chat" => judgeLast = NoTokens
        /\ pc[r] = "judge_copy" => clientLast = r
        /\ JudgeOn /\ pc[r] \in {"build", "usage"} => judgeLast = OwnUsage(r)
        /\ JudgeOn /\ pc[r] \in {"put", "respond"} =>
              report[r].body.usage = OwnUsage(r)

SerialInv == StoreUseInv /\ OneAtATime /\ InOrder /\ Kept /\ OwnTokens

-----------------------------------------------------------------------------
\* Where a handler with a built report keeps it, and of what type it is.
LEMMA BuiltTypes ==
    ASSUME VerdictInv, NEW r \in Requests,
           pc[r] \in Building \cup {"respond"}
    PROVE  /\ report[r] \in Store!Report
           /\ report[r].generatedAt \in Int
           /\ report[r].body \in ReportBody
           /\ report[r] # NoReport
<1>1. report[r] \in Store!Report
      BY DEF VerdictInv, Gathered, Building
<1>2. report[r] # NoReport
      BY <1>1, NoReportAssumption DEF Store!Report
<1> QED
    BY <1>1, <1>2 DEF Store!Report

\* Recording the usage leaves the time of a report alone.
LEMMA UsageKeepsTime ==
    ASSUME VerdictInv, NEW r \in Requests, SetJudgeUsage(r)
    PROVE  /\ report' = [report EXCEPT ![r] = report'[r]]
           /\ report'[r].generatedAt = report[r].generatedAt
           /\ report'[r].body.usage = judgeLast
<1> DEFINE body == [report[r].body EXCEPT !.usage = judgeLast]
           new == [report[r] EXCEPT !.body = body]
<1>1. pc[r] \in Building \cup {"respond"}
      BY DEF SetJudgeUsage, Move, Building
<1>2. report[r] \in Store!Report /\ report[r].body \in ReportBody
      BY <1>1, BuiltTypes
<1>3. judgeLast \in Requests \cup {NoTokens}
      BY DEF VerdictInv, TypeOK
<1>4. body \in ReportBody /\ body.usage = judgeLast
      BY <1>2, <1>3 DEF ReportBody
<1>5. new.generatedAt = report[r].generatedAt /\ new.body = body
      BY <1>2, <1>4 DEF Store!Report
<1>6. report' = [report EXCEPT ![r] = new]
      BY DEF SetJudgeUsage
<1> HIDE DEF body, new
<1>7. report'[r] = new
      BY <1>6 DEF VerdictInv, TypeOK
<1> QED
    BY <1>4, <1>5, <1>6, <1>7

\* What a step of one handler changes of the time keeping of the others.
LEMMA OthersInTime ==
    ASSUME InTime, NEW q \in Requests,
           UNCHANGED <<pc[q], report[q], clock>>
    PROVE  (pc[q] \in Building =>
              /\ report[q].generatedAt \in 0..clock
              /\ clock - report[q].generatedAt <= MaxLag)'
BY DEF InTime, Building

\* The clock stops for a handler between Build and Put when its time is up.
LEMMA InTimeNext ==
    ASSUME StoreUseInv, [Next]_vars
    PROVE  InTime'
<1> DEFINE Timely(q) ==
        pc[q] \in Building => /\ report[q].generatedAt \in 0..clock
                              /\ clock - report[q].generatedAt <= MaxLag
<1> SUFFICES ASSUME NEW q \in Requests PROVE Timely(q)'
    BY DEF InTime
<1>0. /\ TypeOK /\ VerdictInv /\ InTime
      /\ pc \in [Requests -> {"idle", "done"} \cup InFlight]
      /\ report \in [Requests -> Store!Report \cup {NoReport}]
      /\ clock \in Nat
      BY DEF StoreUseInv, VerdictInv, TypeOK, Store!TypeOK
<1>1. CASE UNCHANGED <<pc[q], report[q], clock>>
      BY <1>0, <1>1, OthersInTime DEF Building
<1>2. CASE pc'[q] \notin Building
      BY <1>2 DEF Building
<1>3. CASE UNCHANGED vars
      BY <1>1, <1>3 DEF vars, handlerVars, storeVars
<1>4. ASSUME NEW r \in Requests, NEW answered, Refuse(r, answered)
      PROVE  Timely(q)'
      BY <1>0, <1>1, <1>2, <1>4 DEF Refuse, Move, storeVars, Building
<1>5. ASSUME NEW r \in Requests, NEW t, NEW batch, Verify(r, t, batch)
      PROVE  Timely(q)'
      BY <1>0, <1>1, <1>2, <1>5 DEF Verify, Move, storeVars, Building
<1>6. ASSUME NEW r \in Requests, Handle(r)
      PROVE  Timely(q)'
  <2>1. CASE q # r
    <3>1. UNCHANGED <<pc[q], report[q], clock>>
          BY <1>0, <1>6, <2>1 DEF Handle, JudgeReset, ChatText, ChatError,
             JudgeCopy, Build, SetJudgeUsage, PutReport, Respond, Move,
             Store!Put, storeVars
    <3> QED
        BY <1>1, <3>1
  <2>2. CASE q = r /\ Build(r)
    <3>1. report'[r].generatedAt = clock /\ clock' = clock
          BY <1>0, <2>2 DEF Build, storeVars
    <3> QED
        BY <1>0, <2>2, <3>1, ServeAssumption
  <2>3. CASE q = r /\ SetJudgeUsage(r)
    <3>1. report'[r].generatedAt = report[r].generatedAt /\ clock' = clock
          BY <1>0, <2>3, UsageKeepsTime DEF SetJudgeUsage, storeVars
    <3>2. pc[r] \in Building
          BY <2>3 DEF SetJudgeUsage, Move, Building
    <3> QED
        BY <1>0, <2>3, <3>1, <3>2 DEF InTime
  <2>4. CASE q = r /\ ~Build(r) /\ ~SetJudgeUsage(r)
    <3>1. pc'[q] \notin Building
          BY <1>0, <1>6, <2>4 DEF Handle, JudgeReset, ChatText, ChatError,
             JudgeCopy, PutReport, Respond, Move, Building
    <3> QED
        BY <1>2, <3>1
  <2> QED
      BY <2>1, <2>2, <2>3, <2>4
<1>7. ASSUME NEW t, GetReport(t)
      PROVE  Timely(q)'
      BY <1>1, <1>7 DEF GetReport, Store!Get, handlerVars
<1>8. CASE Tick
  <2>1. UNCHANGED <<pc, report>> /\ clock' = clock + 1
        BY <1>8 DEF Tick, Store!Tick, handlerVars
  <2>2. ASSUME pc[q] \in Building
        PROVE  /\ report[q].generatedAt \in 0..clock + 1
               /\ clock + 1 - report[q].generatedAt <= MaxLag
    <3>1. clock - report[q].generatedAt < MaxLag
          BY <1>8, <2>2 DEF Tick
    <3>2. report[q].generatedAt \in 0..clock
          BY <1>0, <2>2, BuiltTypes DEF InTime
    <3> QED
        BY <1>0, <3>1, <3>2, ServeAssumption
  <2>3. /\ pc'[q] = pc[q]
        /\ report'[q].generatedAt = report[q].generatedAt
        BY <2>1
  <2> QED
      BY <1>0, <2>1, <2>2, <2>3 DEF Building
<1>9. CASE Restart
      BY <1>0, <1>2, <1>9 DEF Restart, InFlight, Building
<1> QED
    BY <1>3, <1>4, <1>5, <1>6, <1>7, <1>8, <1>9 DEF Next

\* A handler's trace does not change, and only done handlers are answered.
LEMMA PlacedNext ==
    ASSUME StoreUseInv, [Next]_vars
    PROVE  Placed'
<1>0. /\ Placed
      /\ pc \in [Requests -> {"idle", "done"} \cup InFlight]
      /\ trace \in [Requests -> Traces \cup {NoReport}]
      /\ acked \in SUBSET Requests
      BY DEF StoreUseInv, VerdictInv, TypeOK
<1>1. CASE UNCHANGED vars
      BY <1>0, <1>1 DEF vars, handlerVars, Placed, InFlight, Building
<1>2. ASSUME NEW r \in Requests, NEW answered, Refuse(r, answered)
      PROVE  Placed'
      BY <1>0, <1>2 DEF Placed, Refuse, Move, InFlight, Building
<1>3. ASSUME NEW r \in Requests, NEW t \in Traces, NEW batch,
             Verify(r, t, batch)
      PROVE  Placed'
      BY <1>0, <1>3 DEF Placed, Verify, Move, InFlight, Building
<1>4. ASSUME NEW r \in Requests, Handle(r)
      PROVE  Placed'
  <2>1. /\ pc[r] \in InFlight /\ pc' = [pc EXCEPT ![r] = pc'[r]]
        /\ trace' = trace
        /\ acked' \subseteq acked \cup {r}
        /\ acked' # acked => pc'[r] = "done"
        BY <1>0, <1>4 DEF Handle, JudgeReset, ChatText, ChatError,
           JudgeCopy, Build, SetJudgeUsage, PutReport, Respond, Move,
           InFlight, Building
  <2>2. r \notin acked
        BY <1>0, <2>1 DEF Placed, InFlight, Building
  <2>3. ASSUME NEW q \in Requests, pc'[q] \in InFlight'
        PROVE  trace'[q] \in Traces
        BY <1>0, <2>1, <2>3 DEF Placed, InFlight, Building
  <2>4. ASSUME NEW q \in acked' PROVE pc'[q] = "done"
        BY <1>0, <2>1, <2>2, <2>4 DEF Placed
  <2> QED
      BY <2>3, <2>4 DEF Placed
<1>5. ASSUME NEW t, GetReport(t)
      PROVE  Placed'
      BY <1>0, <1>5 DEF Placed, GetReport, handlerVars, InFlight, Building
<1>6. CASE Tick
      BY <1>0, <1>6 DEF Placed, Tick, handlerVars, InFlight, Building
<1>7. CASE Restart
      BY <1>0, <1>7 DEF Placed, Restart, InFlight, Building
<1> QED
    BY <1>1, <1>2, <1>3, <1>4, <1>5, <1>6, <1>7 DEF Next

\* The part of the invariant that holds for any clients.
THEOREM StoreUse == Spec => []StoreUseInv
<1>1. Init => InTime /\ Placed
      BY DEF Init, InTime, Placed, InFlight, Building
<1>2. Init => StoreUseInv
      BY <1>1, VerdictInvInit DEF StoreUseInv
<1>3. StoreUseInv /\ [Next]_vars => StoreUseInv'
      BY InTimeNext, PlacedNext, VerdictInvNext DEF StoreUseInv
<1> QED
    BY <1>2, <1>3, PTL DEF Spec

-----------------------------------------------------------------------------
\* A handler's Put is a Put of the store, of a report built just before.
LEMMA PutRefines ==
    ASSUME StoreUseInv, NEW r \in Requests, PutReport(r)
    PROVE  trace[r] \in Traces /\ Store!PutBuilt(trace[r])
<1> DEFINE age == clock - report[r].generatedAt
<1>1. /\ VerdictInv /\ InTime /\ Placed /\ clock \in Nat
      /\ pc[r] = "put" /\ Store!Put(trace[r], report[r])
      BY DEF StoreUseInv, VerdictInv, TypeOK, Store!TypeOK, PutReport, Move
<1>2. trace[r] \in Traces
      BY <1>1 DEF Placed, InFlight, Building
<1>3. /\ report[r] \in Store!Report
      /\ report[r].generatedAt \in Int
      /\ report[r].body \in ReportBody
      BY <1>1, BuiltTypes DEF Building
<1>4. report[r].generatedAt \in 0..clock /\ age <= MaxLag
      BY <1>1 DEF InTime, Building
<1>5. /\ age \in 0..MaxLag /\ age <= clock
      /\ clock - age = report[r].generatedAt
      BY <1>1, <1>4, ServeAssumption
<1>6. report[r] = [generatedAt |-> report[r].generatedAt,
                   body |-> report[r].body]
      BY <1>3 DEF Store!Report
<1>7. Store!Put(trace[r], [generatedAt |-> clock - age,
                           body |-> report[r].body])
      BY <1>1, <1>5, <1>6, Zenon
<1> QED
    BY <1>2, <1>3, <1>5, <1>7 DEF Store!PutBuilt

\* Every step of the server is a step of the store or leaves it alone.
LEMMA StoreStep ==
    ASSUME StoreUseInv, [Next]_vars
    PROVE  [Store!Next]_storeVars
<1>1. CASE UNCHANGED vars
      BY <1>1 DEF vars
<1>2. ASSUME NEW r \in Requests, NEW answered, Refuse(r, answered)
      PROVE  UNCHANGED storeVars
      BY <1>2 DEF Refuse
<1>3. ASSUME NEW r \in Requests, NEW t, NEW batch, Verify(r, t, batch)
      PROVE  UNCHANGED storeVars
      BY <1>3 DEF Verify
<1>4. ASSUME NEW r \in Requests, Handle(r)
      PROVE  UNCHANGED storeVars \/ \E t \in Traces : Store!PutBuilt(t)
  <2>1. CASE PutReport(r)
        BY <2>1, PutRefines
  <2>2. CASE ~PutReport(r)
    <3>1. ASSUME NEW text, ChatText(r, text) PROVE UNCHANGED storeVars
          BY <3>1 DEF ChatText
    <3>2. JudgeCopy(r) => UNCHANGED storeVars
          BY DEF JudgeCopy
    <3> QED
        BY <1>4, <2>2, <3>1, <3>2 DEF Handle, JudgeReset, ChatError, Build,
           SetJudgeUsage, Respond
  <2> QED
      BY <2>1, <2>2
<1>5. ASSUME NEW t \in Traces, GetReport(t)
      PROVE  Store!Get(t)
      BY <1>5 DEF GetReport
<1>6. Tick => Store!Tick
      BY DEF Tick
<1>7. Restart => Store!Restart
      BY DEF Restart
<1> QED
    BY <1>1, <1>2, <1>3, <1>4, <1>5, <1>6, <1>7 DEF Next, Store!Next

\* Whatever the handlers do at once, the server uses the store as the
\* store's own specification says its clients do, so the theorems of
\* ReportStoreProofs are about the running server: Build comes at most
\* MaxLag before Put, and nothing else touches the map.
THEOREM StoreIsImplemented == Spec => ImplementsStore
<1>1. Init => Store!Init
      BY DEF Init
<1>2. StoreUseInv /\ [Next]_vars => [Store!Next]_storeVars
      BY StoreStep
<1>3. StoreUseInv /\ [Next]_vars => [Store!Next]_(Store!storeVars)
      BY <1>2 DEF storeVars, Store!storeVars
<1> QED
    BY <1>1, <1>3, StoreUse, PTL DEF Spec, ImplementsStore, Store!Spec

-----------------------------------------------------------------------------
\* The types that the steps below need.
LEMMA HandlerTypes ==
    ASSUME SerialInv
    PROVE  /\ TypeOK /\ VerdictInv /\ InTime /\ Placed
           /\ OneAtATime /\ InOrder /\ Kept /\ OwnTokens
           /\ pc \in [Requests -> {"idle", "done"} \cup InFlight]
           /\ trace \in [Requests -> Traces \cup {NoReport}]
           /\ reply \in [Requests -> Replies \cup {"none"}]
           /\ report \in [Requests -> Store!Report \cup {NoReport}]
           /\ reports \in [Traces -> Store!Report \cup {NoReport}]
           /\ acked \in SUBSET Requests
           /\ clock \in Nat
           /\ \A t \in Traces :
                 reports[t] # NoReport => reports[t].generatedAt \in Int
BY DEF SerialInv, StoreUseInv, VerdictInv, TypeOK, Store!TypeOK, Store!Report

\* A handler's step moves that handler only, and keeps it apart from idle.
LEMMA HandleMoves ==
    ASSUME TypeOK, NEW r \in Requests, Handle(r)
    PROVE  /\ pc[r] \in InFlight /\ pc' = [pc EXCEPT ![r] = pc'[r]]
           /\ trace' = trace
           /\ \A q \in Requests \ {r} :
                 reply'[q] = reply[q] /\ report'[q] = report[q]
           /\ clock' = clock
<1>1. JudgeReset(r) \/ (\E text \in Replies \ {"error"} : ChatText(r, text))
         \/ ChatError(r) \/ JudgeCopy(r) \/ Build(r) \/ SetJudgeUsage(r)
         \/ PutReport(r) \/ Respond(r)
      BY DEF Handle
<1>2. pc[r] \in InFlight /\ pc' = [pc EXCEPT ![r] = pc'[r]]
      BY <1>1 DEF TypeOK, JudgeReset, ChatText, ChatError, JudgeCopy, Build,
         SetJudgeUsage, PutReport, Respond, Move, InFlight, Building
<1>3. trace' = trace /\ clock' = clock
      BY <1>1 DEF JudgeReset, ChatText, ChatError, JudgeCopy, Build,
         SetJudgeUsage, PutReport, Respond, Store!Put, storeVars
<1>4. ASSUME NEW q \in Requests \ {r}
      PROVE  reply'[q] = reply[q] /\ report'[q] = report[q]
      BY <1>1 DEF TypeOK, JudgeReset, ChatText, ChatError, JudgeCopy, Build,
         SetJudgeUsage, PutReport, Respond
<1> QED
    BY <1>2, <1>3, <1>4

\* A client that waits starts no second handler.
LEMMA OneAtATimeNext ==
    ASSUME Serial, SerialInv, [Next]_vars
    PROVE  OneAtATime'
<1>0. /\ TypeOK /\ OneAtATime
      /\ pc \in [Requests -> {"idle", "done"} \cup InFlight]
      BY HandlerTypes
<1>1. CASE pc' = pc
      BY <1>0, <1>1 DEF OneAtATime, InFlight, Building
<1>2. ASSUME NEW r \in Requests, NEW answered, Refuse(r, answered)
      PROVE  OneAtATime'
      BY <1>0, <1>2 DEF OneAtATime, Refuse, Move, InFlight, Building
<1>3. ASSUME NEW r \in Requests, NEW t, NEW batch, Verify(r, t, batch)
      PROVE  OneAtATime'
      BY <1>0, <1>3 DEF OneAtATime, Verify, Move, Arrive, InFlight, Building
<1>4. ASSUME NEW r \in Requests, Handle(r)
      PROVE  OneAtATime'
      BY <1>0, <1>4, HandleMoves DEF OneAtATime, InFlight, Building
<1>5. CASE Restart
      BY <1>0, <1>5 DEF OneAtATime, Restart, InFlight, Building
<1>6. \/ pc' = pc
      \/ \E r \in Requests :
            \/ \E answered \in {"refused", "failed"} : Refuse(r, answered)
            \/ \E t \in Traces, batch \in Batches : Verify(r, t, batch)
            \/ Handle(r)
      \/ Restart
      BY DEF Next, vars, handlerVars, GetReport, Tick
<1> QED
    BY <1>1, <1>2, <1>3, <1>4, <1>5, <1>6

-----------------------------------------------------------------------------
\* A sweep takes a report only when its time to live is over, so whatever was
\* held before it is held after it.
LEMMA SweepHolds ==
    ASSUME SerialInv, NEW q \in Requests, Held(q),
           reports' = Store!Swept,
           UNCHANGED <<trace[q], report[q], clock>>
    PROVE  Held(q)'
<1> DEFINE t == trace[q]
<1>1. /\ t \in Traces /\ report[q] \in Store!Report
      /\ report[q].generatedAt \in Int /\ clock \in Nat /\ Ttl \in Nat
      BY HandlerTypes, ServeAssumption DEF Held, Store!Report
<1>2. CASE Store!Expired(report[q])
      BY <1>1, <1>2 DEF Held, Store!Expired
<1>3. CASE ~Store!Expired(report[q])
  <2>1. /\ reports[t] # NoReport /\ reports[t].generatedAt \in Int
        /\ reports[t].generatedAt >= report[q].generatedAt
        BY <1>1, <1>3, HandlerTypes DEF Held
  <2>2. ~Store!Expired(reports[t])
        BY <1>1, <1>3, <2>1 DEF Store!Expired
  <2>3. reports'[t] = reports[t]
        BY <1>1, <2>2 DEF Store!Swept
  <2> QED
      BY <1>1, <2>1, <2>3 DEF Held
<1> QED
    BY <1>2, <1>3

\* Put records a report that is no older than what the map holds.
LEMMA PutHolds ==
    ASSUME SerialInv, NEW r \in Requests, PutReport(r),
           NEW q \in Requests, q = r \/ q \in acked
    PROVE  Held(q)'
<1> USE HandlerTypes
<1>1. /\ pc[r] = "put" /\ report[r] \in Store!Report
      /\ report[r] # NoReport /\ report[r].generatedAt \in Int
      /\ trace[r] \in Traces
      BY BuiltTypes DEF PutReport, Move, Building, Placed, InFlight
<1>2. /\ UNCHANGED <<trace, report, clock>>
      /\ reports' = [Store!Swept EXCEPT ![trace[r]] = report[r]]
      BY DEF PutReport, Store!Put
<1>3. Store!Swept \in [Traces -> Store!Report \cup {NoReport}]
      BY SweptTypes
<1>4. reports'[trace[r]] = report[r]
      BY <1>1, <1>2, <1>3
<1>5. CASE q = r
      BY <1>1, <1>2, <1>4, <1>5 DEF Held
<1>6. CASE q \in acked /\ Store!Expired(report[q])
      BY <1>2, <1>6 DEF Held, Kept, Store!Expired
<1>7. CASE q \in acked /\ ~Store!Expired(report[q])
  <2>1. /\ trace[q] \in Traces /\ report[q] \in Store!Report
        /\ report[q].generatedAt \in Int /\ clock \in Nat /\ Ttl \in Nat
        BY <1>7, ServeAssumption DEF Kept, Held, Store!Report
  <2>2. /\ reports[trace[q]] # NoReport
        /\ reports[trace[q]].generatedAt \in Int
        /\ reports[trace[q]].generatedAt >= report[q].generatedAt
        BY <1>7, <2>1 DEF Kept, Held
  <2>3. CASE trace[q] = trace[r]
    <3>1. reports[trace[q]].generatedAt <= report[r].generatedAt
          BY <1>1, <2>1, <2>2 DEF InOrder, Building
    <3> QED
        BY <1>1, <1>2, <1>4, <2>1, <2>2, <2>3, <3>1 DEF Held
  <2>4. CASE trace[q] # trace[r]
    <3>1. ~Store!Expired(reports[trace[q]])
          BY <1>7, <2>1, <2>2 DEF Store!Expired
    <3>2. reports'[trace[q]] = reports[trace[q]]
          BY <1>2, <1>3, <2>1, <2>4, <3>1 DEF Store!Swept
    <3> QED
        BY <1>2, <2>1, <2>2, <3>2 DEF Held
  <2> QED
      BY <2>3, <2>4
<1> QED
    BY <1>5, <1>6, <1>7

\* Nothing that a client was promised is dropped from the map.
LEMMA KeptNext ==
    ASSUME SerialInv, [Next]_vars
    PROVE  Kept'
<1> USE HandlerTypes
<1> SUFFICES ASSUME NEW q \in Requests, pc'[q] = "respond" \/ q \in acked'
             PROVE  Held(q)'
    BY DEF Kept
<1> DEFINE Was == pc[q] = "respond" \/ q \in acked
<1>1. ASSUME Was, UNCHANGED <<trace[q], report[q], clock, reports>>
      PROVE  Held(q)'
      BY <1>1 DEF Kept, Held, Store!Expired
<1>2. CASE UNCHANGED vars
      BY <1>1, <1>2 DEF vars, handlerVars, storeVars
<1>3. ASSUME NEW r \in Requests, NEW answered, Refuse(r, answered)
      PROVE  Held(q)'
      BY <1>1, <1>3 DEF Refuse, Move, storeVars
<1>4. ASSUME NEW r \in Requests, NEW t, NEW batch, Verify(r, t, batch)
      PROVE  Held(q)'
  <2>1. pc[r] = "idle" /\ r \notin acked /\ pc'[r] # "respond"
        BY <1>4 DEF Verify, Move, Placed
  <2> QED
      BY <1>1, <1>4, <2>1 DEF Verify, Move, storeVars
<1>5. ASSUME NEW r \in Requests, Handle(r)
      PROVE  Held(q)'
  <2>1. CASE PutReport(r)
    <3>1. CASE q = r \/ q \in acked
          BY <2>1, <3>1, PutHolds
    <3>2. CASE q # r /\ q \notin acked
      <4>1. pc[q] = "respond" /\ pc[r] = "put"
            BY <2>1, <3>2 DEF PutReport, Move
      <4> QED
          BY <3>2, <4>1 DEF OneAtATime, InFlight, Building
    <3> QED
        BY <3>1, <3>2
  <2>2. CASE Respond(r)
        BY <1>1, <2>2 DEF Respond, Move, storeVars
  <2>3. CASE ~PutReport(r) /\ ~Respond(r)
    <3>1. /\ pc'[r] # "respond" /\ UNCHANGED <<acked, reports>>
          BY <1>5, <2>3 DEF Handle, JudgeReset, ChatText, ChatError,
             JudgeCopy, Build, SetJudgeUsage, Move, storeVars
    <3>2. r \notin acked
          BY <1>5, HandleMoves DEF Placed, InFlight, Building
    <3>3. q # r /\ Was
          BY <1>5, <3>1, <3>2, HandleMoves
    <3> QED
        BY <1>1, <1>5, <3>1, <3>3, HandleMoves
  <2> QED
      BY <2>1, <2>2, <2>3
<1>6. ASSUME NEW t, GetReport(t)
      PROVE  Held(q)'
      BY <1>6, SweepHolds DEF GetReport, Store!Get, handlerVars, Kept
<1>7. CASE Tick
  <2>1. Was /\ UNCHANGED <<trace, report, reports>> /\ clock' = clock + 1
        BY <1>7 DEF Tick, Store!Tick, handlerVars
  <2>2. Held(q) /\ report[q].generatedAt \in Int /\ Ttl \in Nat
        BY <2>1, ServeAssumption DEF Kept, Held, Store!Report
  <2> QED
      BY <2>1, <2>2 DEF Held, Store!Expired
<1>8. CASE Restart
      BY <1>8 DEF Restart, InFlight, Building
<1> QED
    BY <1>2, <1>3, <1>4, <1>5, <1>6, <1>7, <1>8 DEF Next

-----------------------------------------------------------------------------
\* A report is built after everything that the map holds by then.
LEMMA InOrderNext ==
    ASSUME SerialInv, [Next]_vars
    PROVE  InOrder'
<1> USE HandlerTypes
<1> DEFINE InOrderAt(t) ==
        reports[t] # NoReport =>
            /\ reports[t].generatedAt <= clock
            /\ \A q \in Requests : pc[q] \in Building =>
                  reports[t].generatedAt <= report[q].generatedAt
<1> SUFFICES ASSUME NEW t \in Traces PROVE InOrderAt(t)'
    BY DEF InOrder
<1>1. ASSUME reports'[t] = reports[t], clock' = clock,
             \A q \in Requests : pc'[q] \in Building =>
                 /\ pc[q] \in Building
                 /\ report'[q].generatedAt = report[q].generatedAt
      PROVE  InOrderAt(t)'
      BY <1>1 DEF InOrder, Building
<1>2. CASE reports'[t] = NoReport
      BY <1>2
<1>3. CASE UNCHANGED vars
      BY <1>1, <1>3 DEF vars, handlerVars, storeVars
<1>4. ASSUME NEW r \in Requests, NEW answered, Refuse(r, answered)
      PROVE  InOrderAt(t)'
      BY <1>1, <1>4 DEF Refuse, Move, storeVars, Building
<1>5. ASSUME NEW r \in Requests, NEW u, NEW batch, Verify(r, u, batch)
      PROVE  InOrderAt(t)'
      BY <1>1, <1>5 DEF Verify, Move, storeVars, Building
<1>6. ASSUME NEW r \in Requests, Handle(r)
      PROVE  InOrderAt(t)'
  <2>1. CASE Build(r)
    <3>1. /\ report'[r].generatedAt = clock /\ UNCHANGED <<reports, clock>>
          /\ pc' = [pc EXCEPT ![r] = pc'[r]]
          /\ \A q \in Requests \ {r} : report'[q] = report[q]
          BY <2>1, <1>6, HandleMoves DEF Build, storeVars
    <3> QED
        BY <3>1 DEF InOrder, Building
  <2>2. CASE SetJudgeUsage(r)
    <3>1. /\ report'[r].generatedAt = report[r].generatedAt
          /\ pc[r] \in Building /\ UNCHANGED <<reports, clock>>
          BY <2>2, UsageKeepsTime DEF SetJudgeUsage, Move, storeVars, Building
    <3> QED
        BY <1>1, <1>6, <3>1, HandleMoves
  <2>3. CASE PutReport(r)
    <3>1. pc[r] = "put" /\ pc'[r] = "respond"
          BY <2>3 DEF PutReport, Move
    <3>2. \A q \in Requests : pc'[q] \notin Building
          BY <1>6, <3>1, HandleMoves DEF OneAtATime, InFlight, Building
    <3>3. /\ report[r].generatedAt \in 0..clock
          BY <3>1 DEF InTime, Building
    <3>4. /\ reports' = [Store!Swept EXCEPT ![trace[r]] = report[r]]
          /\ clock' = clock
          BY <2>3 DEF PutReport, Store!Put
    <3>5. reports'[t] \in {reports[t], NoReport, report[r]}
          BY <3>4, SweptTypes, SweptIsPart
    <3> QED
        BY <3>2, <3>3, <3>4, <3>5 DEF InOrder, Building
  <2>4. CASE ~Build(r) /\ ~SetJudgeUsage(r) /\ ~PutReport(r)
    <3>1. pc'[r] \notin Building /\ UNCHANGED <<reports, clock>>
          BY <1>6, <2>4 DEF Handle, JudgeReset, ChatText, ChatError,
             JudgeCopy, Respond, Move, storeVars, Building
    <3> QED
        BY <1>1, <1>6, <3>1, HandleMoves
  <2> QED
      BY <2>1, <2>2, <2>3, <2>4
<1>7. ASSUME NEW u, GetReport(u)
      PROVE  InOrderAt(t)'
      BY <1>1, <1>2, <1>7, SweptIsPart DEF GetReport, Store!Get, handlerVars
<1>8. CASE Tick
  <2>1. UNCHANGED <<pc, report, reports>> /\ clock' = clock + 1
        BY <1>8 DEF Tick, Store!Tick, handlerVars
  <2> QED
      BY <2>1 DEF InOrder, Building
<1>9. CASE Restart
      BY <1>2, <1>9 DEF Restart, Store!Restart, Store!Nobody
<1> QED
    BY <1>3, <1>4, <1>5, <1>6, <1>7, <1>8, <1>9 DEF Next

\* The counts that a handler left in the shared judge wait for it.
LEMMA OwnTokensNext ==
    ASSUME Serial, SerialInv, [Next]_vars
    PROVE  OwnTokens'
<1> USE HandlerTypes
<1> DEFINE Own(q) ==
        /\ pc[q] = "chat" => judgeLast = NoTokens
        /\ pc[q] = "judge_copy" => clientLast = q
        /\ JudgeOn /\ pc[q] \in {"build", "usage"} => judgeLast = OwnUsage(q)
        /\ JudgeOn /\ pc[q] \in {"put", "respond"} =>
              report[q].body.usage = OwnUsage(q)
<1> SUFFICES ASSUME NEW q \in Requests PROVE Own(q)'
    BY DEF OwnTokens
<1>0. Own(q) /\ Gathered(q) /\ JudgeOn \in BOOLEAN
      BY ServeAssumption DEF OwnTokens, VerdictInv
<1>1. ASSUME UNCHANGED <<pc[q], reply[q], report[q], judgeLast, clientLast>>
      PROVE  Own(q)'
      BY <1>0, <1>1 DEF OwnUsage
<1>2. CASE pc'[q] \notin InFlight
      BY <1>2 DEF InFlight, Building
<1>3. CASE UNCHANGED vars
      BY <1>1, <1>3 DEF vars, handlerVars
<1>4. ASSUME NEW r \in Requests, NEW answered, Refuse(r, answered)
      PROVE  Own(q)'
      BY <1>1, <1>2, <1>4 DEF Refuse, Move, InFlight, Building
<1>5. ASSUME NEW r \in Requests, NEW t, NEW batch, Verify(r, t, batch)
      PROVE  Own(q)'
      BY <1>0, <1>1, <1>5 DEF Verify, Move
<1>6. ASSUME NEW r \in Requests, Handle(r)
      PROVE  Own(q)'
  <2>1. CASE q # r
    <3>1. pc'[q] \notin InFlight
          BY <1>6, <2>1, HandleMoves DEF OneAtATime
    <3> QED
        BY <1>2, <3>1
  <2> SUFFICES ASSUME q = r PROVE Own(r)'
      BY <2>1
  <2>2. JudgeReset(r) => Own(r)'
        BY DEF JudgeReset, Move
  <2>3. ASSUME NEW text \in Replies \ {"error"}, ChatText(r, text)
        PROVE  Own(r)'
        BY <2>3 DEF ChatText, Move
  <2>4. ChatError(r) => Own(r)'
        BY <1>0 DEF ChatError, Move, OwnUsage
  <2>5. JudgeCopy(r) => Own(r)'
    <3>1. JudgeCopy(r) => /\ pc[r] = "judge_copy" /\ pc'[r] = "build"
                          /\ judgeLast' = clientLast /\ reply' = reply
          BY DEF JudgeCopy, Move
    <3> QED
        BY <1>0, <3>1 DEF Gathered, OwnUsage
  <2>6. Build(r) => Own(r)'
        BY <1>0 DEF Build, Move, OwnUsage
  <2>7. SetJudgeUsage(r) => Own(r)'
    <3>1. SetJudgeUsage(r) =>
              /\ pc[r] = "usage" /\ pc'[r] = "put" /\ reply' = reply
              /\ report'[r].body.usage = judgeLast
          BY UsageKeepsTime DEF SetJudgeUsage, Move
    <3> QED
        BY <1>0, <3>1 DEF OwnUsage
  <2>8. PutReport(r) => Own(r)'
        BY <1>0 DEF PutReport, Move, OwnUsage
  <2>9. Respond(r) => Own(r)'
        BY DEF Respond, Move
  <2> QED
      BY <1>6, <2>2, <2>3, <2>4, <2>5, <2>6, <2>7, <2>8, <2>9 DEF Handle
<1>7. ASSUME NEW t, GetReport(t)
      PROVE  Own(q)'
      BY <1>1, <1>7 DEF GetReport, handlerVars
<1>8. CASE Tick
      BY <1>1, <1>8 DEF Tick, handlerVars
<1>9. CASE Restart
      BY <1>2, <1>9 DEF Restart, InFlight, Building
<1> QED
    BY <1>3, <1>4, <1>5, <1>6, <1>7, <1>8, <1>9 DEF Next

-----------------------------------------------------------------------------
\* With clients that post one batch at a time, the whole invariant holds.
THEOREM SerialUse == Serial => (Spec => []SerialInv)
<1> SUFFICES ASSUME Serial PROVE Spec => []SerialInv
    OBVIOUS
<1>1. Init => OneAtATime /\ InOrder /\ Kept /\ OwnTokens
      BY DEF Init, Store!Init, Store!NewStore, Store!Nobody, OneAtATime,
         InOrder, Kept, OwnTokens, InFlight, Building
<1>2. Init /\ StoreUseInv => SerialInv
      BY <1>1 DEF SerialInv
<1>3. SerialInv /\ [Next]_vars /\ StoreUseInv' => SerialInv'
      BY OneAtATimeNext, InOrderNext, KeptNext, OwnTokensNext DEF SerialInv
<1> QED
    BY <1>2, <1>3, StoreUse, PTL DEF Spec

\* A client that posts one batch at a time and was answered 2xx can fetch a
\* verdict for its trace for a whole time to live, whatever later posts and
\* sweeps do to the map.
THEOREM AckedStaysRetrievable == Serial => (Spec => []AckedIsRetrievable)
<1>1. SerialInv => AckedIsRetrievable
  <2> SUFFICES ASSUME SerialInv, NEW r \in acked,
                      clock - report[r].generatedAt <= Ttl
               PROVE  reports[trace[r]] # NoReport
      BY DEF AckedIsRetrievable
  <2>1. Held(r)
        BY HandlerTypes DEF Kept
  <2>2. report[r].generatedAt \in Int /\ clock \in Nat /\ Ttl \in Nat
        BY <2>1, HandlerTypes, ServeAssumption DEF Held, Store!Report
  <2> QED
      BY <2>1, <2>2 DEF Held, Store!Expired
<1> QED
    BY <1>1, SerialUse, PTL

\* Of such clients, a finished report carries the tokens of its own judge
\* call, and none when that call failed.
THEOREM UsageIsOnesOwn == Serial => (Spec => []UsageIsOwn)
<1>1. SerialInv => UsageIsOwn
      BY DEF SerialInv, OwnTokens, OwnUsage, UsageIsOwn
<1> QED
    BY <1>1, SerialUse, PTL

\* And a stored report is never replaced by one that was generated earlier.
THEOREM LatestStays == Serial => (Spec => LatestGenerated)
<1> DEFINE Newer ==
        \A t \in Traces : reports[t] # NoReport /\ reports'[t] # NoReport =>
            reports'[t].generatedAt >= reports[t].generatedAt
<1>1. ASSUME SerialInv, [Next]_vars PROVE [Newer]_reports
  <2> SUFFICES ASSUME reports' # reports, NEW t \in Traces,
                      reports[t] # NoReport, reports'[t] # NoReport
               PROVE  reports'[t].generatedAt >= reports[t].generatedAt
      OBVIOUS
  <2> USE <1>1, HandlerTypes
  <2>1. CASE reports'[t] = reports[t]
        BY <2>1
  <2>2. CASE \E r \in Requests : PutReport(r)
    <3>1. PICK r \in Requests : PutReport(r)
          BY <2>2
    <3>2. reports' = [Store!Swept EXCEPT ![trace[r]] = report[r]]
          BY <3>1 DEF PutReport, Store!Put
    <3>3. reports'[t] \in {reports[t], NoReport, report[r]}
          BY <3>2, SweptTypes, SweptIsPart
    <3>4. pc[r] = "put" /\ report[r].generatedAt \in Int
          BY <3>1, BuiltTypes DEF PutReport, Move, Building
    <3>5. reports[t].generatedAt <= report[r].generatedAt
          BY <3>4 DEF InOrder, Building
    <3> QED
        BY <2>1, <3>3, <3>4, <3>5
  <2>3. CASE \E u \in Traces : GetReport(u)
        BY <2>1, <2>3, SweptIsPart DEF GetReport, Store!Get
  <2>4. CASE Restart
        BY <2>4 DEF Restart, Store!Restart, Store!Nobody
  <2>5. \/ \E r \in Requests : PutReport(r)
        \/ \E u \in Traces : GetReport(u)
        \/ Restart
    <3>1. ASSUME NEW r \in Requests, Handle(r), ~PutReport(r)
          PROVE  UNCHANGED reports
      <4>1. JudgeCopy(r) => UNCHANGED reports
            BY DEF JudgeCopy, storeVars
      <4> QED
          BY <3>1, <4>1 DEF Handle, JudgeReset, ChatText, ChatError, Build,
             SetJudgeUsage, Respond, storeVars
    <3> QED
        BY <3>1 DEF Next, Refuse, Verify, Tick, Store!Tick, vars, storeVars
  <2> QED
      BY <2>2, <2>3, <2>4, <2>5
<1> QED
    BY <1>1, SerialUse, PTL DEF Spec, LatestGenerated

=============================================================================
