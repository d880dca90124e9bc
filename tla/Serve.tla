------------------------------- MODULE Serve -------------------------------
(***************************************************************************)
(* watchtower serve: every POST /v1/traces runs in a goroutine of its own   *)
(* through ingest.Handler, the verifiers, the judge, report.Build and       *)
(* Store.Put.  The goroutines share two things without a lock: the one      *)
(* judge.LLM that newServeMux closes over, with the token counts of its     *)
(* most recent Run, and the chat client inside it, with the counts of its   *)
(* most recent call.  The store has its own mutex (module ReportStore).     *)
(*                                                                         *)
(* A request's batch is reduced to its trace id and to the findings the     *)
(* deterministic verifiers have on it; they are pure, so they are read when *)
(* the request is taken in.  A pair of token counts is represented by the   *)
(* request whose call consumed those tokens, or by NoTokens for (0, 0); a   *)
(* torn read of a pair under the data race is one more wrong value and is   *)
(* not told apart from reading another request's pair.                      *)
(***************************************************************************)
EXTENDS Integers, Verdict

CONSTANTS
    Requests,  \* POST requests, one handler goroutine each
    Traces,    \* trace ids
    Batches,   \* deterministic findings that a posted batch may have
    JudgeOn,   \* is a judge configured?
    Serial,    \* do clients post one batch at a time, as experiments do?
    Ttl,       \* time to live of a report
    MaxLag,    \* bound on the time a handler needs between Build and Put
    MaxTime,   \* bound on the clock
    MaxStarts, \* bound on the number of restarts
    NoReport,  \* the absence of a report
    NoTokens   \* the token counts (0, 0)

ASSUME ServeAssumption ==
    /\ Batches \subseteq SUBSET DeterministicFinding
    /\ JudgeOn \in BOOLEAN
    /\ Serial \in BOOLEAN
    /\ Ttl \in Nat \ {0}
    /\ MaxLag \in 0..Ttl
    /\ MaxTime \in Nat
    /\ MaxStarts \in Nat
    /\ NoTokens \notin Requests

VARIABLES
    pc,         \* where each handler is
    trace,      \* the trace id of each request's batch
    findings,   \* what Verify has found so far
    reply,      \* how the judge's model answered, "none" before it did
    report,     \* the report a handler built
    status,     \* the answer to each request
    judgeLast,  \* LLM.lastIn, LLM.lastOut
    clientLast, \* the chat client's own counts, read by LastUsage
    starts,     \* number of restarts so far
    det,        \* history: the deterministic findings alone
    acked,      \* history: requests this process has answered with 2xx
    \* the store's variables
    clock, reports, lastSweep, latest, answer

ReportBody ==
    [verdict : Verdicts, usage : Requests \cup {NoTokens}, by : Requests]

\* The nil that Get returns is no report.
ASSUME NoReportAssumption ==
    NoReport \notin [generatedAt : Int, body : ReportBody]

Store == INSTANCE ReportStore WITH Body <- ReportBody

handlerVars == <<pc, trace, findings, reply, report, status, det, acked>>

storeVars == <<clock, reports, lastSweep, latest, answer>>

vars == <<handlerVars, judgeLast, clientLast, starts, storeVars>>

\* ChatText fails (transport, HTTP status, no choice), returns text that is
\* not JSON, or returns issues, of which only the severities matter.
Failures == {"error", "garbled"}

Replies == Failures \cup {"clean", "warning", "critical"}

\* Between Build and Put a handler only reads the judge's counts.
Building == {"usage", "put"}

InFlight == {"judge_reset", "chat", "judge_copy", "build", "respond"}
                \cup Building

-----------------------------------------------------------------------------
Init ==
    /\ pc = [r \in Requests |-> "idle"]
    /\ trace = [r \in Requests |-> NoReport]
    /\ findings = [r \in Requests |-> {}]
    /\ reply = [r \in Requests |-> "none"]
    /\ report = [r \in Requests |-> NoReport]
    /\ status = [r \in Requests |-> "none"]
    /\ det = [r \in Requests |-> {}]
    /\ acked = {}
    /\ judgeLast = NoTokens
    /\ clientLast = NoTokens
    /\ starts = 0
    /\ Store!Init

Move(r, from, to) ==
    /\ pc[r] = from
    /\ pc' = [pc EXCEPT ![r] = to]

\* A POST arrives; under Serial its client has no other one outstanding.
Arrive(r) == Serial => \A q \in Requests : pc[q] \notin InFlight

\* ServeHTTP answers 4xx (path, method, media type, undecodable or invalid
\* envelope) or, when Reconstruct fails on mixed traces, 500.
Refuse(r, answered) ==
    /\ Arrive(r)
    /\ Move(r, "idle", "done")
    /\ status' = [status EXCEPT ![r] = answered]
    /\ UNCHANGED <<trace, findings, reply, report, det, acked, judgeLast,
                   clientLast, starts, storeVars>>

\* Reconstruct succeeds and the deterministic verifiers run.
Verify(r, t, batch) ==
    /\ Arrive(r)
    /\ Move(r, "idle", IF JudgeOn THEN "judge_reset" ELSE "build")
    /\ trace' = [trace EXCEPT ![r] = t]
    /\ det' = [det EXCEPT ![r] = batch]
    /\ findings' = [findings EXCEPT ![r] = batch]
    /\ UNCHANGED <<reply, report, status, acked, judgeLast, clientLast,
                   starts, storeVars>>

\* Mutant of JudgeReset: the counts of the previous run are kept.
JudgeKeep(r) ==
    /\ Move(r, "judge_reset", "chat")
    /\ UNCHANGED <<trace, findings, reply, report, status, det, acked,
                   judgeLast, clientLast, starts, storeVars>>

\* LLM.Run, first statement: the previous run's counts are cleared.
JudgeReset(r) ==
    /\ Move(r, "judge_reset", "chat")
    /\ judgeLast' = NoTokens
    /\ UNCHANGED <<trace, findings, reply, report, status, det, acked,
                   clientLast, starts, storeVars>>

\* ChatText returns text, after leaving the call's counts in the client.
ChatText(r, text) ==
    /\ Move(r, "chat", "judge_copy")
    /\ reply' = [reply EXCEPT ![r] = text]
    /\ clientLast' = r
    /\ UNCHANGED <<trace, findings, report, status, det, acked, judgeLast,
                   starts, storeVars>>

\* ChatText returns an error: Run returns it and Verify turns it into a
\* finding; neither pair of counts is written.
ChatError(r) ==
    /\ Move(r, "chat", "build")
    /\ reply' = [reply EXCEPT ![r] = "error"]
    /\ findings' = [findings EXCEPT ![r] = @ \cup {JudgeError}]
    /\ UNCHANGED <<trace, report, status, det, acked, judgeLast, clientLast,
                   starts, storeVars>>

\* Mutants of JudgeCopy: text that is not JSON counts as no issue, or is
\* asked for again.
JudgeCopyLenient(r) ==
    /\ Move(r, "judge_copy", "build")
    /\ judgeLast' = clientLast
    /\ findings' = [findings EXCEPT ![r] = @ \cup
                       (IF reply[r] \in Failures \cup {"clean"} THEN {}
                        ELSE {JudgeIssue(reply[r])})]
    /\ UNCHANGED <<trace, reply, report, status, det, acked, clientLast,
                   starts, storeVars>>

JudgeCopyAgain(r) ==
    /\ Move(r, "judge_copy",
            IF reply[r] = "garbled" THEN "chat" ELSE "build")
    /\ judgeLast' = clientLast
    /\ findings' = [findings EXCEPT ![r] = @ \cup
                       (IF reply[r] \in Failures \cup {"clean"} THEN {}
                        ELSE {JudgeIssue(reply[r])})]
    /\ UNCHANGED <<trace, reply, report, status, det, acked, clientLast,
                   starts, storeVars>>

\* Run copies the client's counts, parses the text and returns the issues,
\* or an error when the text is not JSON.
JudgeCopy(r) ==
    /\ Move(r, "judge_copy", "build")
    /\ judgeLast' = clientLast
    /\ findings' = [findings EXCEPT ![r] = @ \cup
                       (CASE reply[r] \in Failures -> {JudgeError}
                          [] reply[r] = "clean" -> {}
                          [] OTHER -> {JudgeIssue(reply[r])})]
    /\ UNCHANGED <<trace, reply, report, status, det, acked, clientLast,
                   starts, storeVars>>

Build(r) ==
    /\ Move(r, "build", IF JudgeOn THEN "usage" ELSE "put")
    /\ report' = [report EXCEPT ![r] =
                     [generatedAt |-> clock,
                      body |-> [verdict |-> verdictFor(findings[r]),
                                usage |-> NoTokens, by |-> r]]]
    /\ UNCHANGED <<trace, findings, reply, status, det, acked, judgeLast,
                   clientLast, starts, storeVars>>

\* cfg.Judge.Usage() and SetJudgeUsage.
SetJudgeUsage(r) ==
    /\ Move(r, "usage", "put")
    /\ report' = [report EXCEPT ![r].body.usage = judgeLast]
    /\ UNCHANGED <<trace, findings, reply, status, det, acked, judgeLast,
                   clientLast, starts, storeVars>>

\* Mutants of PutReport: a handler may put its report again, or write to
\* the map without the sweep.
PutAgain(r) ==
    /\ pc[r] \in {"put", "respond", "done"}
    /\ report[r] # NoReport
    /\ pc' = [pc EXCEPT ![r] = "respond"]
    /\ Store!Put(trace[r], report[r])
    /\ UNCHANGED <<trace, findings, reply, report, status, det, acked,
                   judgeLast, clientLast, starts>>

PutUnswept(r) ==
    /\ Move(r, "put", "respond")
    /\ reports' = [reports EXCEPT ![trace[r]] = report[r]]
    /\ latest' = [latest EXCEPT ![trace[r]] = report[r]]
    /\ UNCHANGED <<trace, findings, reply, report, status, det, acked,
                   judgeLast, clientLast, starts, clock, lastSweep, answer>>

PutReport(r) ==
    /\ Move(r, "put", "respond")
    /\ Store!Put(trace[r], report[r])
    /\ UNCHANGED <<trace, findings, reply, report, status, det, acked,
                   judgeLast, clientLast, starts>>

\* Mutant of Respond: the client is answered and nothing is put.
RespondFirst(r) ==
    /\ Move(r, "put", "done")
    /\ status' = [status EXCEPT ![r] = "accepted"]
    /\ acked' = acked \cup {r}
    /\ UNCHANGED <<trace, findings, reply, report, det, judgeLast,
                   clientLast, starts, storeVars>>

Respond(r) ==
    /\ Move(r, "respond", "done")
    /\ status' = [status EXCEPT ![r] = "accepted"]
    /\ acked' = acked \cup {r}
    /\ UNCHANGED <<trace, findings, reply, report, det, judgeLast,
                   clientLast, starts, storeVars>>

\* GET /v1/reports/<trace id>
GetReport(t) ==
    /\ Store!Get(t)
    /\ UNCHANGED <<handlerVars, judgeLast, clientLast, starts>>

\* Time passes, but not past a handler that is between Build and Put.
Tick ==
    /\ \A r \in Requests :
          pc[r] \in Building => clock - report[r].generatedAt < MaxLag
    /\ Store!Tick
    /\ UNCHANGED <<handlerVars, judgeLast, clientLast, starts>>

\* The process is stopped and started again.  Nothing is persisted: the
\* store and the judge are new, and clients of open requests get no answer.
Restart ==
    /\ starts < MaxStarts
    /\ starts' = starts + 1
    /\ pc' = [r \in Requests |-> IF pc[r] \in InFlight THEN "done" ELSE pc[r]]
    /\ status' = [r \in Requests |->
                     IF pc[r] \in InFlight THEN "lost" ELSE status[r]]
    /\ acked' = {}
    /\ judgeLast' = NoTokens
    /\ clientLast' = NoTokens
    /\ Store!Restart
    /\ UNCHANGED <<trace, findings, reply, report, det>>

Handle(r) ==
    \/ JudgeReset(r)
    \/ \E text \in Replies \ {"error"} : ChatText(r, text)
    \/ ChatError(r)
    \/ JudgeCopy(r)
    \/ Build(r)
    \/ SetJudgeUsage(r)
    \/ PutReport(r)
    \/ Respond(r)

Next ==
    \/ \E r \in Requests :
          \/ \E answered \in {"refused", "failed"} : Refuse(r, answered)
          \/ \E t \in Traces, batch \in Batches : Verify(r, t, batch)
          \/ Handle(r)
    \/ \E t \in Traces : GetReport(t)
    \/ Tick
    \/ Restart

\* Every handler keeps running until it has answered: the scheduler is fair
\* to goroutines, and the chat client's timeout ends a call that hangs.
Fairness == \A r \in Requests : WF_vars(Handle(r))

Spec == Init /\ [][Next]_vars

FairSpec == Spec /\ Fairness

-----------------------------------------------------------------------------
\* Type invariant.
TypeOK ==
    /\ pc \in [Requests -> {"idle", "done"} \cup InFlight]
    /\ trace \in [Requests -> Traces \cup {NoReport}]
    /\ findings \in [Requests -> SUBSET Finding]
    /\ reply \in [Requests -> Replies \cup {"none"}]
    /\ report \in [Requests -> Store!Report \cup {NoReport}]
    /\ status \in [Requests -> {"none", "refused", "failed", "accepted", "lost"}]
    /\ det \in [Requests -> SUBSET DeterministicFinding]
    /\ acked \in SUBSET Requests
    /\ judgeLast \in Requests \cup {NoTokens}
    /\ clientLast \in Requests \cup {NoTokens}
    /\ starts \in 0..MaxStarts
    /\ Store!TypeOK

\* A judge is a supplement (verify.go:116-117): whatever it replies, and
\* whichever handlers it serves at once, a run that the deterministic
\* verifiers fail or abstain on gets exactly that verdict.
DeterministicVerdictStands ==
    \A r \in Requests :
        report[r] # NoReport
            /\ verdictFor(det[r]) \in {"FAIL", "INCONCLUSIVE"}
        => report[r].body.verdict = verdictFor(det[r])

\* A judge outage is shown but is nobody's opinion (verify.go:41-43): it
\* turns a clean run's PASS into FLAGGED and changes no other verdict.
OutageIsNotAnOpinion ==
    \A r \in Requests :
        report[r] # NoReport /\ reply[r] \in Failures =>
            report[r].body.verdict =
                IF verdictFor(det[r]) = "PASS" THEN "FLAGGED"
                ELSE verdictFor(det[r])

\* No all-clear without evidence: a stored PASS was built by a handler of
\* that very trace, whose own batch is clean and whose own judge call, when
\* a judge is configured, came back without an issue.
StoredPassIsEarned ==
    \A t \in Traces :
        reports[t] # NoReport /\ reports[t].body.verdict = "PASS" =>
            LET r == reports[t].body.by IN
                /\ trace[r] = t
                /\ det[r] = {}
                /\ JudgeOn => reply[r] = "clean"

\* "A failed call must not report the previous run's tokens" (judge.go:65):
\* a finished report carries the tokens of its own judge call, and none when
\* that call failed.
UsageIsOwn ==
    \A r \in Requests :
        JudgeOn /\ pc[r] \in {"put", "respond"} =>
            report[r].body.usage = IF reply[r] = "error" THEN NoTokens ELSE r

\* A client that was answered 2xx can fetch a verdict for its trace for a
\* whole time to live, unless the process restarted.
AckedIsRetrievable ==
    \A r \in acked :
        clock - report[r].generatedAt <= Ttl => reports[trace[r]] # NoReport

\* "the latest report per trace id" (store.go:8): a report is never replaced
\* by one that was generated earlier.
LatestGenerated ==
    [][\A t \in Traces :
          reports[t] # NoReport /\ reports'[t] # NoReport =>
              reports'[t].generatedAt >= reports[t].generatedAt]_reports

\* Every request that is taken in is answered, or lost to a restart.
Answered == \A r \in Requests : pc[r] \in InFlight ~> pc[r] = "done"

\* The handlers use the store as its specification says clients do, so what
\* is proved of the store holds of the server.
ImplementsStore == Store!Spec

=============================================================================
