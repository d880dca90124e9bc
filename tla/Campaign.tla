------------------------------ MODULE Campaign ------------------------------
(***************************************************************************)
(* experiments/run.py as a process: it kills old servers, spawns its own    *)
(* and waits for the port (harness/server.py), runs the cells one by one    *)
(* with a recorder and an exporter each (harness/telemetry.py), fetches     *)
(* each verdict, and writes the results after the last cell.  Around it:    *)
(* the child process that is the server, the port, other processes that may *)
(* take the port, and replays of recorded traces (experiments/replay.py).   *)
(* What a server answers is what it was asked: a report names the server    *)
(* and the envelope, since the verdict is a function of the envelope.       *)
(***************************************************************************)
EXTENDS Recorder, SequencesExt

CONSTANTS
    Plan,          \* the cells: a sequence of evidence faults
    MaxRuns,       \* bound: campaigns on one trace directory
    MaxCrashes,    \* bound: processes killed from outside
    MaxDiskErrors, \* bound: exceptions inside the recorder
    MaxStrangers,  \* bound: times another process takes the port
    Moments,       \* bound: where main() is when one comes or goes
    MaxReplays     \* bound: replays

\* Fault names are strings; a plan has at least one cell.
ASSUME CampaignAssumption ==
    /\ Plan \in Seq(STRING) /\ Len(Plan) > 0
    /\ MaxRuns \in Nat /\ MaxCrashes \in Nat /\ MaxDiskErrors \in Nat
    /\ MaxStrangers \in Nat /\ MaxReplays \in Nat

VARIABLES
    pc,        \* where main() is
    gen,       \* how many campaigns were started
    taken,     \* another program took the port since the campaign began
    child,     \* the spawned server process
    port,      \* who listens: "none", "own", "orphan", "stranger"
    store,     \* the listener's reports, by trace
    cell,      \* the cell at work
    spans,     \* spans of the cell's trace that ended and were not exported
    sending,   \* the batch inside the exporter
    answer,    \* what fetch_report returned
    results,   \* the results gathered in memory
    out,       \* the results file
    rp,        \* the replay at work: step and derived artifact
    budget     \* what is left of the bounds

processVars == <<child, port, store>>
cellVars == <<cell, spans, sending, answer, results>>
vars == <<pc, gen, taken, processVars, cellVars, out, rp, budget, recorderVars>>

Trace == <<gen, cell>>           \* fresh for every run
AllSpans == {1, 2}               \* those before the schedule fires, and the rest
Server == IF port = "own" THEN <<"own", gen>> ELSE <<port, 0>>
Idle == [step |-> "idle"]

Report(envelope) == [by |-> Server, envelope |-> envelope]
Spend(b) == budget[b] > 0 /\ budget' = [budget EXCEPT ![b] = @ - 1]
Goto(p) == pc' = p

\* main() returns, raises or is killed, and its memory is gone.
Exit ==
    /\ Goto("over") /\ taken' = FALSE
    /\ cell' = 0 /\ spans' = {} /\ sending' = {} /\ answer' = NoReport
    /\ results' = <<>> /\ record' = NoRow

Init ==
    /\ pc = "over" /\ gen = 0 /\ taken = FALSE /\ child = "none" /\ port = "none"
    /\ store = <<>> /\ cell = 0 /\ spans = {} /\ sending = {}
    /\ answer = NoReport /\ results = <<>> /\ out = <<>> /\ rp = Idle
    /\ budget = [crash |-> MaxCrashes, disk |-> MaxDiskErrors,
                 stranger |-> MaxStrangers, replay |-> MaxReplays]
    /\ RecorderInit

-----------------------------------------------------------------------------
\* spawn_server: pkill, and the polls until nobody answers.
Start ==
    /\ pc = "over" /\ gen < MaxRuns /\ rp = Idle
    /\ Goto("probe") /\ gen' = gen + 1
    /\ IF port \in {"orphan", "own"}
       THEN port' = "none" /\ store' = <<>>
       ELSE UNCHANGED <<port, store>>
    /\ child' = "none"
    /\ UNCHANGED <<taken, cellVars, out, rp, budget, recorderVars>>

\* Mutant of ProbeBusy: whoever answers on the port will do.
ProbeBusyReuse ==
    /\ pc = "probe" /\ port # "none"
    /\ Goto("run") /\ cell' = 1 /\ spans' = AllSpans /\ record' = NoRow
    /\ UNCHANGED <<gen, taken, processVars, sending, answer, results, out, rp,
                   budget, files, manifest>>

\* StaleServerError after twenty answers; a listener that leaves in time is
\* not seen.
ProbeBusy ==
    /\ pc = "probe" /\ port # "none" /\ Exit
    /\ UNCHANGED <<gen, processVars, out, rp, budget, files, manifest>>

ProbeFree ==
    /\ pc = "probe" /\ port = "none"
    /\ Goto("wait") /\ child' = "starting"
    /\ UNCHANGED <<gen, taken, port, store, cellVars, out, rp, budget, recorderVars>>

\* The child: it listens if it can and exits if it cannot.
ChildListens ==
    /\ child = "starting" /\ port = "none"
    /\ child' = "up" /\ port' = "own" /\ store' = <<>>
    /\ UNCHANGED <<pc, gen, taken, cellVars, out, rp, budget, recorderVars>>

ChildCannotListen ==
    /\ child = "starting" /\ port # "none"
    /\ child' = "dead"
    /\ UNCHANGED <<pc, gen, taken, port, store, cellVars, out, rp, budget, recorderVars>>

ChildDies ==
    /\ child \in {"starting", "up"} /\ Spend("crash")
    /\ child' = "dead"
    /\ port' = IF child = "up" THEN "none" ELSE port
    /\ store' = IF child = "up" THEN <<>> ELSE store
    /\ UNCHANGED <<pc, gen, taken, cellVars, out, rp, recorderVars>>

\* One poll: a child that has exited is an error, an answer is readiness.
PollExited ==
    /\ pc = "wait" /\ child = "dead" /\ Exit
    /\ UNCHANGED <<gen, processVars, out, rp, budget, files, manifest>>

StartCell(n) ==
    /\ cell' = n /\ spans' = AllSpans /\ record' = NoRow /\ Goto("run")

PollUp ==
    /\ pc = "wait" /\ child # "dead" /\ port # "none"
    /\ StartCell(1)
    /\ UNCHANGED <<gen, taken, processVars, sending, answer, results, out, rp,
                   budget, files, manifest>>

\* Three hundred polls without an answer: the child is killed.
GiveUp ==
    /\ pc = "wait" /\ child = "starting" /\ port = "none"
    /\ Exit /\ child' = "dead"
    /\ UNCHANGED <<gen, port, store, out, rp, budget, files, manifest>>

-----------------------------------------------------------------------------
\* run_cell: the scheduled export takes what has ended so far, the flush the
\* rest; in both cases the batch passes the recorder before the wire.
Export ==
    /\ pc = "run" /\ spans # {}
    /\ \E batch \in {spans, spans \cap {1}} \ {{}} :
          sending' = batch /\ spans' = spans \ batch
    /\ Goto("record")
    /\ UNCHANGED <<gen, taken, processVars, cell, answer, results, out, rp, budget,
                   recorderVars>>

RecordTrace ==
    /\ pc = "record" /\ WriteTrace(Trace, sending) /\ Goto("row")
    /\ UNCHANGED <<gen, taken, processVars, cellVars, out, rp, budget>>

RecordRow ==
    /\ pc = "row" /\ WriteRow(Trace, sending) /\ Goto("post")
    /\ UNCHANGED <<gen, taken, processVars, cellVars, out, rp, budget>>

AfterExport == IF spans = {} THEN "fetch" ELSE "run"

\* An exception in the recorder is a FAILURE the flush does not pass on; the
\* batch is not sent.  The row is in memory before it is in the manifest.
RecorderFails ==
    /\ pc \in {"record", "row"} /\ Spend("disk")
    /\ record' = IF pc = "record" THEN record
                 ELSE Row(files[TraceFile(Trace)], "clean")
    /\ sending' = {} /\ Goto(AfterExport)
    /\ UNCHANGED <<gen, taken, processVars, cell, spans, answer, results, out, rp,
                   files, manifest>>

\* The fault exporter and the POST; a server that is gone is a FAILURE too.
Post ==
    /\ pc = "post"
    /\ store' = IF port = "none" THEN store
                ELSE Put(store, Trace, Report(Envelope(sending, Plan[cell])))
    /\ sending' = {} /\ Goto(AfterExport)
    /\ UNCHANGED <<gen, taken, child, port, cell, spans, answer, results, out, rp,
                   budget, recorderVars>>

\* fetch_report: 200, or five times 404; a refused connection is an exception.
Fetch ==
    /\ pc = "fetch" /\ port # "none"
    /\ answer' = IF Trace \in DOMAIN store THEN store[Trace] ELSE NoReport
    /\ Goto(IF record = NoRow THEN "append" ELSE "report")
    /\ UNCHANGED <<gen, taken, processVars, cell, spans, sending, results, out, rp,
                   budget, recorderVars>>

\* Mutant of FetchRefused: the refused connection is tried again for ever.
FetchRefusedAgain ==
    /\ pc = "fetch" /\ port = "none" /\ Goto("fetch")
    /\ UNCHANGED <<gen, taken, processVars, cellVars, out, rp, budget, recorderVars>>

FetchRefused ==
    /\ pc = "fetch" /\ port = "none" /\ Goto("finally")
    /\ UNCHANGED <<gen, taken, processVars, cellVars, out, rp, budget, recorderVars>>

FinalizeReport ==
    /\ pc = "report" /\ WriteReport(Trace, answer) /\ Goto("outcome")
    /\ UNCHANGED <<gen, taken, processVars, cellVars, out, rp, budget>>

FinalizeRow ==
    /\ pc = "outcome" /\ Finalize(Trace) /\ Goto("append")
    /\ UNCHANGED <<gen, taken, processVars, cellVars, out, rp, budget>>

Result == [trace |-> Trace, fault |-> Plan[cell], report |-> answer,
           recorded |-> record # NoRow]

\* The result joins the list; the next cell has a telemetry of its own.
NextCell ==
    /\ pc = "append" /\ results' = Append(results, Result)
    /\ IF cell < Len(Plan)
       THEN StartCell(cell + 1)
       ELSE Goto("write") /\ UNCHANGED <<cell, spans, record>>
    /\ answer' = NoReport
    /\ UNCHANGED <<gen, taken, processVars, sending, out, rp, budget, files, manifest>>

\* Mutant of WriteResults: whatever cells there are is written at any time.
WriteResultsEarly ==
    /\ pc \in {"run", "write"} /\ out' = results
    /\ Goto(IF pc = "write" THEN "finally" ELSE pc)
    /\ UNCHANGED <<gen, taken, processVars, cellVars, rp, budget, recorderVars>>

WriteResults ==
    /\ pc = "write" /\ out' = results /\ Goto("finally")
    /\ UNCHANGED <<gen, taken, processVars, cellVars, rp, budget, recorderVars>>

\* Mutant of Finally: the child is given up before it has let go of the port.
FinallyUnwaited ==
    /\ pc = "finally" /\ Exit /\ child' = "dead"
    /\ UNCHANGED <<gen, port, store, out, rp, budget, files, manifest>>

\* proc.terminate() and wait(), on every way out but a kill.
Finally ==
    /\ pc = "finally" /\ Exit /\ child' = "dead"
    /\ port' = IF child = "up" THEN "none" ELSE port
    /\ store' = IF child = "up" THEN <<>> ELSE store
    /\ UNCHANGED <<gen, out, rp, budget, files, manifest>>

\* The campaign is killed: its server, if it came up, is left behind.
Killed ==
    /\ pc # "over" /\ Spend("crash")
    /\ Exit /\ child' = "none"
    /\ IF child = "up" \/ (child = "starting" /\ port = "none")
       THEN port' = "orphan" ELSE UNCHANGED port
    /\ UNCHANGED <<gen, store, out, rp, files, manifest>>

-----------------------------------------------------------------------------
\* Another program serves the port, from before the campaign or in the middle
\* of it.  One that is a script of this repository first kills the server it
\* finds.
StrangerArrives ==
    /\ pc \in Moments
    /\ port # "stranger" /\ Spend("stranger")
    /\ port' = "stranger" /\ store' = <<>>
    /\ child' = IF child = "up" THEN "dead" ELSE child
    /\ taken' = (pc # "over")
    /\ UNCHANGED <<pc, gen, cellVars, out, rp, recorderVars>>

StrangerLeaves ==
    /\ pc \in Moments
    /\ port = "stranger" /\ port' = "none" /\ store' = <<>>
    /\ UNCHANGED <<pc, gen, taken, child, cellVars, out, rp, budget, recorderVars>>

\* replay(): derive, post to a server of its own, and add a row.
Replay(t, fault) ==
    /\ pc = "over" /\ rp = Idle /\ Spend("replay")
    /\ ReplayDerive(t, fault)
    /\ rp' = [step |-> "derived", trace |-> t, fault |-> fault]
    /\ UNCHANGED <<pc, gen, taken, processVars, cellVars, out>>

\* raise_for_status, a timeout, or a kill: the copy has no row.
ReplayFails ==
    /\ rp.step = "derived" /\ rp' = Idle
    /\ UNCHANGED <<pc, gen, taken, processVars, cellVars, out, budget, recorderVars>>

ReplayAnswered ==
    /\ rp.step = "derived" /\ rp' = Idle
    /\ ReplayRow(rp.trace, rp.fault,
           [by |-> <<"replay", 0>>,
            envelope |-> files[DerivedFile(rp.trace, rp.fault)]])
    /\ UNCHANGED <<pc, gen, taken, processVars, cellVars, out, budget>>

Traces == {<<g, c>> : g \in 1..MaxRuns, c \in DOMAIN Plan}
ReplayFaults == {Plan[c] : c \in DOMAIN Plan} \ {"none"}

Spawning ==
    \/ Start \/ ProbeBusy \/ ProbeFree \/ PollExited \/ PollUp \/ GiveUp

RunningCells ==
    \/ Export \/ RecordTrace \/ RecordRow \/ Post \/ Fetch \/ FetchRefused
    \/ FinalizeReport \/ FinalizeRow \/ NextCell \/ WriteResults \/ Finally

Environment ==
    \/ ChildListens \/ ChildCannotListen \/ ChildDies
    \/ RecorderFails \/ Killed \/ StrangerArrives \/ StrangerLeaves

Replaying ==
    \/ \E t \in Traces, fault \in ReplayFaults : Replay(t, fault)
    \/ ReplayFails \/ ReplayAnswered

Next == Spawning \/ RunningCells \/ Environment \/ Replaying

Spec == Init /\ [][Next]_vars

\* The process runs on, and a child that was started listens or exits.
Fairness ==
    /\ WF_vars((Spawning /\ pc # "over") \/ RunningCells)
    /\ WF_vars(ChildListens \/ ChildCannotListen)

FairSpec == Spec /\ Fairness

-----------------------------------------------------------------------------
Steps == {"over", "probe", "wait", "run", "record", "row", "post", "fetch",
          "report", "outcome", "append", "write", "finally"}

Faults == ReplayFaults \cup {"none"}
Envelopes == [spans : SUBSET AllSpans, fault : Faults]

Servers == {<<"own", g>> : g \in 1..MaxRuns}
               \cup {<<l, 0>> : l \in {"orphan", "stranger", "replay"}}

Verdicts == [by : Servers, envelope : Envelopes]
Reports == Verdicts \cup {NoReport}
Rows == [content : Envelopes, capture : {"clean", "derived"}, report : Reports,
         outcome : BOOLEAN]
Results == [trace : Traces, fault : Faults, report : Reports, recorded : BOOLEAN]

ASSUME RowAssumption == NoRow \notin Rows

MemoryTypes ==
    /\ pc \in Steps /\ gen \in 0..MaxRuns /\ taken \in BOOLEAN
    /\ child \in {"none", "starting", "up", "dead"}
    /\ port \in {"none", "own", "orphan", "stranger"}
    /\ cell \in 0..Len(Plan)
    /\ spans \in {AllSpans, {2}, {}} /\ sending \in SUBSET AllSpans
    /\ answer \in Reports /\ record \in Rows \cup {NoRow}
    /\ results \in Seq(Results) /\ out \in Seq(Results)
    /\ budget \in [crash : Nat, disk : 0..MaxDiskErrors,
                   stranger : Nat, replay : Nat]

\* Type invariant.  The child listens exactly while the port is its own.
TypeOK ==
    /\ MemoryTypes
    /\ child = "up" <=> port = "own"
    /\ \A t \in DOMAIN store : t \in Traces /\ store[t] \in Verdicts
    /\ \A n \in DOMAIN files :
          files[n] \in IF n[1] = "trace" THEN Envelopes ELSE Verdicts
    /\ \A n \in DOMAIN manifest : manifest[n] \in Rows
    /\ rp \in {Idle}
              \cup [step : {"derived"}, trace : Traces, fault : ReplayFaults]

\* "This wrapper sits outside EvidenceFaultExporter, so it sees a clean batch
\* while the inner exporter sends the mutated copy" (telemetry.py:221): no
\* fault, replay, kill or second campaign ever taints a recorded trace, what
\* a report is about was recorded first, and unless the recorder itself
\* failed, a finished cell's file has its whole trace, in however many
\* exports it came.
RecordIsClean ==
    /\ \A n \in DOMAIN files :
          n[1] = "trace" /\ n[3] = "none" => files[n].fault = "none"
    /\ \A t \in DOMAIN store :
          store[t].envelope.spans \subseteq files[TraceFile(t)].spans
    /\ budget.disk = MaxDiskErrors =>
          \A i \in DOMAIN results :
              files[TraceFile(results[i].trace)].spans = AllSpans

\* The manifest against the files, whoever was killed between two writes: a
\* row names a file that is there and never claims more spans than it has;
\* the row of a cell in the results, those in memory and those of the last
\* results file, is about exactly that file, and carries the very report the
\* results and the report file have.
ManifestAgrees ==
    /\ \A n \in DOMAIN manifest :
          /\ n \in DOMAIN files
          /\ manifest[n].content.spans \subseteq files[n].spans
          /\ manifest[n].content.fault = files[n].fault
    /\ \A r \in ToSet(results \o out) :
          LET row == manifest[TraceFile(r.trace)] IN
          r.recorded =>
              /\ TraceFile(r.trace) \in DOMAIN manifest
              /\ row.content = files[TraceFile(r.trace)]
              /\ row.report = r.report /\ row.outcome
              /\ r.report # NoReport => files[ReportFile(r.trace)] = r.report

\* StaleServerError: "reusing it would verify every cell under whatever config
\* and code it was started with" (server.py:20).  Every verdict in the results
\* was given by the server this campaign spawned, whatever served the port
\* before it, unless a program took the port in the middle of the campaign; it
\* is on a trace sent through the fault of its own cell, and not on the first
\* export alone, unless the recorder failed on the second.
VerifiedByOwn ==
    \A i \in DOMAIN results :
        LET r == results[i] IN
        r.report # NoReport =>
            /\ taken \/ r.report.by = <<"own", gen>>
            /\ r.report.envelope.fault = r.fault
            /\ budget.disk = MaxDiskErrors => 2 \in r.report.envelope.spans

\* cells_signature is over the planned cells: a results file therefore has one
\* result per planned cell, in order, all of one campaign, whatever fails.
OutIsWhole ==
    out # <<>> =>
        /\ Len(out) = Len(Plan)
        /\ \A i \in DOMAIN out :
              /\ out[i].trace = <<out[1].trace[1], i>>
              /\ out[i].fault = Plan[i]

\* "Replace one artifact entry without creating duplicate manifest rows"
\* (trace_artifacts.py:285): the row of a finished trace stays as it is
\* through later cells, campaigns, kills and replays of that very trace.
FinalRowsStay ==
    [][\A n \in DOMAIN manifest :
          manifest[n].outcome =>
              n \in DOMAIN manifest' /\ manifest'[n] = manifest[n]]_vars

\* A campaign ends, with results or with an error, and leaves no server of its
\* own behind.
CampaignEnds == pc # "over" ~> pc = "over" /\ port # "own"

=============================================================================
