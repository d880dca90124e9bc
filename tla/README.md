# agent-watchtower in TLA+

agent-watchtower watches multi-agent runs. A Python *harness* runs a supervised
queue of agents and records what they do as OpenTelemetry spans; a Go server,
`watchtower serve`, reconstructs the run from one batch of spans, verifies it
and keeps a verdict (PASS, FLAGGED, INCONCLUSIVE, FAIL) that clients fetch by
trace id. The promise of the program is about evidence: a run that misbehaved,
or whose telemetry was damaged on the way, must not read as a healthy one, and
a healthy one must not be accused.

This directory holds TLA+ modules for that program, TLC configurations, and
TLAPS proofs. `PROJECT.json` lists runs, theorems, the lines each definition
stands for, and the hazards the properties are aimed at.

    tlc -workers 2 -config ServeConcurrent.cfg MCServe.tla
    tlapm ServeProofs.tla

## 1. Inventory

| component | code | state | operations | modules |
|---|---|---|---|---|
| report verdicts | `internal/report/report.go` | none (pure) | `verdictFor`, `Build` | `Verdict` |
| report store | `internal/report/store.go` | map trace id → report, time of last sweep, one mutex | `Put`, `Get`, `sweepLocked` | `ReportStore`, `RecentVerdicts` |
| serve | `cmd/watchtower/serve.go`, `internal/ingest/handler.go` | one goroutine per request; shares store and judge | POST `/v1/traces`, GET `/v1/reports/{id}` | `Serve` |
| judge and chat client | `internal/judge`, `internal/llm`, `internal/bedrock` | token counts of the latest run, of the latest call | `Run`, `Usage`, `ChatText` | inside `Serve` |
| supervisor and workers | `harness/supervisor.py`, `harness/workers.py` | per-worker counters, answers, halted and rerouted workers, pending tool contexts, open spans | `Supervisor.run`, `_decide`, `Worker.run`, `_turn`, `_exec_tool` | `Harness` |
| providers and behaviour faults | `harness/providers.py`, `harness/faults.py` | a cursor into a script | `chat` | replies of `Harness` |
| telemetry, transport faults | `harness/telemetry.py` | the batch that waits for the flush | `flush`, `export`, `fetch_report` | `Telemetry` |
| span wire contract | `internal/model`, `internal/otlp`, `harness/semconv.py` | none | decode, validate | `Spans` |
| run reconstruction | `internal/graph/graph.go` | none (pure) | `Reconstruct` | `RunGraph` |
| deterministic verifiers | `internal/verify/*.go` | none (pure) | six verifiers, ten evidence claims | `Checks` |
| experiment campaign | `experiments/run.py`, `experiments/suite.py` | results in memory, one results file at the end | `main`, `run_cell`, the grids | `Pipeline`, `Campaign`, `Analysis` |
| server lifecycle | `harness/server.py` | a child process, a port | `spawn_server` | `Campaign` |
| trace artifacts, recorder, replay | `harness/trace_artifacts.py`, `experiments/replay.py` | trace, derived and report files, a manifest, the recorder's row of its trace | `export`, `finalize`, `upsert_manifest`, `apply_evidence_fault`, `replay` | `Artifacts`, `Recorder`, `Campaign` |
| causal experiments | `experiments/causal.py`, `causal_run.py`, `causal_judge.py` | rows of cells and of judges | `build_dag`, `topo_orders`, `sweep`, `build_cells`, `run_judge` | `Causal`, `Experiments` |
| analysis | `experiments/analyze.py` | none (pure, on results files) | every rate, table, kappa, delta, signature | `Analysis`, `CausalMetrics`, `Experiments` |
| canonical graph | `internal/canonical` | nodes, edges, lazily built adjacency | `AddNode`, `AddEdge`, `Render`, `TopoOrders` | its Python mirror, in `Causal` |
| command line, demo, tau-bench world, Go producer, figures | `cmd/watchtower/{main,verify}.go`, `harness/demo.py`, `experiments/taubench.py`, `benchmarks`, `producers`, `scripts` | files | | not modelled |

How they interact: the supervisor calls each worker in turn; the worker calls
its provider and its tools and, after every step, a callback of the supervisor,
which raises to stop it. Spans end into a batch processor that exports once per
run, through a fault-injecting exporter in experiments. The export is one POST;
the server answers it after verification, judge included, and the client then
polls GET. Handlers run concurrently and meet in the store (locked) and in the
one judge that `newServeMux` closes over (not locked). In a campaign a recorder
sits outside the fault exporter and writes the clean batch to the trace
directory before the damaged one goes out; `replay` later damages the recorded
file and posts that. `analyze.py` turns the results files into the numbers that
are published.

What is hard here, and what makes each part correct:

* **Concurrent handlers.** Verify, the judge's call, Usage, Build and Put are
  separate steps. Verdicts must be those of the handler's own batch; token
  counts must be of its own call; an answered client must find a report.
* **Lazy expiry.** The store sweeps at most once per time to live, on whatever
  call comes next. No verdict may vanish early or be served long after.
* **A judge that fails.** It may time out, answer nonsense, or disagree. A
  judge is a supplement: it can never move a deterministic FAIL or an
  abstention, and its outage is nobody's opinion.
* **Interrupted agents.** The supervisor interrupts a worker inside a turn, with
  tool calls still to do. Its books, the decisions recorded as span events and
  the spans themselves must agree afterwards, at every point of interruption.
* **Damaged telemetry.** Dropped, duplicated, reordered, rewritten, late or
  sampled spans must lead to an abstention that names what is missing.
* **Restarts.** The server persists nothing: a restart forgets verdicts.
* **Files and kills.** A trace leaves up to four writes behind. A kill between
  any two, an exception in the recorder, or a later campaign or replay on the
  same directory must not make a row that lies about its file.
* **Whose server is it.** A server from an earlier campaign, or one of another
  program, answers on the same port. Verdicts must be those of the server this
  campaign spawned, and a campaign must end when that server dies.
* **Arrival order.** Causal graphs, checksums and sweeps must not depend on the
  order in which spans arrive, and a trace of which only some spans have come
  must not read as finished.
* **Published numbers.** Rates, tables and kappas classify the same cells in
  several ways, over runs without reports and judges without answers. They must
  agree with the cells and with each other.

## 2. The modules

```
 Verdict ──┬─ Serve ──┬─ MCServe                 (store := INSTANCE ReportStore)
           │          └─ ServeProofs
           ├─ Checks
           └─ Analysis
                          RecentVerdicts ◁─ ReportStore ── ReportStoreProofs

 Spans ─┬─ Harness ────────────────────────────┐
        └─ SpanLists ─┬─ Telemetry ─ Artifacts ┼─ Pipeline ── MCPipeline
                      ├─ RunGraph ── Checks ───┘
                      └─ Analysis ── Causal ── CausalMetrics ── Experiments
                                                                └─ MCExperiments

 SpanLists ── ListProofs ──┬─ SpanListProofs (RunGraph, Artifacts) ─┐
                           ├─ HarnessProofs (Harness) ──────────────┴─ PipelineProofs
                           └─ ExperimentsProofs (Experiments)

 Recorder ── Campaign ── MCCampaign        (Campaign ── CampaignProofs)
```

**Verdict** has the findings the verifiers can emit, reduced to the four fields
that `verdictFor` reads (verifier, kind, severity, whether a source is named),
and `verdictFor` itself. The Go function only raises flags while it ranges over
the slice, so a run's findings are a set.

**ReportStore** is the registry with time as a counter. `Put` and `Get` hold the
mutex throughout, so each is one action, the sweep included. Two history
variables, the latest report put per trace and the last answer, are what the
retention properties talk about. **RecentVerdicts** is what the store promises
without saying how expiry is done: a report may disappear only once it is older
than the time to live, and a lookup never answers with one twice that old. It
is the abstract specification the store implements.

**Serve** has one process per POST request, whose program counter runs through
the handler: reconstruct and verify, `LLM.Run` in three steps (reset the counts,
call the model, copy the client's counts and parse), `Build`, `Usage`, `Put`,
respond. The steps are split exactly where another goroutine can see or change
something shared. The store is an instance of `ReportStore` and its `Put`,
`Get`, `Tick`, `Restart` are used as they are. A pair of token counts stands for
the request that consumed those tokens. `Serial` restricts arrivals to one
outstanding request, as the experiments post them.

**Harness** is one supervised run. It is sequential, and all it does depends on
replies: each turn the provider may ask for a sequence of tool calls, answer,
answer nothing, answer against the contract, or raise; each tool may fail. Every
turn and every tool call is an action together with the monitor callback that
follows it, since nothing can come between them. The spans are appended to
`batch` when they end, as the span processor sees them: children before parents.

**Spans** is the span record that both sides share; **Telemetry** is the fault
exporter, one operator per fault; **RunGraph** is `Reconstruct` (duplicates,
missing parents, roots, tree order, causal edges, closure); **Checks** has the
six verifiers and one operator per evidence claim. **SpanLists** has what these
do to lists: filter, sort stably, set repeated ids aside. They are pure
operators, written without `RECURSIVE` and without `SelectSeq` and `SortSeq`, of
which the prover has no definition: a filter and an insertion sort are recursive
functions over the length of the list, and the depth-first walk is one over a
fuel that bounds the depth by the number of spans.

**Artifacts** has the content of the recorder's files: `envelope_from_spans`
(the batch sorted by start), `_merge_envelopes` (a second export joins the
first) and `apply_evidence_fault`, the offline twin of the live faults.

**Pipeline** composes them as `run_cell` does: a run, its export through any of
the thirteen faults or none, one verdict, and the recording. `ExportScheduled`
is the export in two pieces that the processor's schedule makes of a long run.
It is the end-to-end statement of what the program is for.

**Recorder** has the files themselves: names, contents, manifest rows and the
recorder's row in memory. Each atomic replacement is one operator, and what the
code writes in two steps is two operators: `WriteTrace`/`WriteRow` for an
export, `WriteReport`/`Finalize` for the end of a trace,
`ReplayDerive`/`ReplayRow` for a replay. Contents are sets of spans with the
fault they went through, and a row holds the content where the code holds its
checksum.

**Campaign** is `run.py`'s process with what surrounds it: `spawn_server` with
its probe and polls, the child process, the port and who listens on it, the
listener's reports; then each cell with its exports, the recorder's two writes,
the POST, `fetch_report` and the two writes of `finalize`; then the results
file. The environment may kill the campaign or the server between any two
steps, make the recorder raise, put another program on the port, and replay any
recorded trace while no campaign runs. A killed campaign leaves its server on
the port, so that the next one meets it.

**Analysis** is the grids of `suite.py` and the metrics of `analyze.py` on
verdicts, findings and judge opinions; a rate is a pair of counts, and a kappa
an exact fraction. **Causal** is `causal.py` and `causal_run.py`: the graph, its
canonical form, Kahn's algorithm with its limit, the renderings, the sweep, the
generated traces and their faults. **CausalMetrics** is the part of
`analyze.py` and `causal_judge.py` on swept cells and on the rows of a judge.
The two loops of `causal.py`, the search for orders and Kahn's test, are one
operator per iteration (`topo_step`, `kahn_step`) and a recursive function over
the number of iterations that can be needed.
**Experiments** puts them in motion: `RunCell` runs the next cell of a grid into
two results files whose judges differ, `Arrive` delivers a span of a causal
trace, `JudgeCell` shows a swept cell to two judge families whose calls may fail.

Operators whose name extends that of another (`SweptAll`, `JudgeKeep`,
`WriteTraceOver`, ...) and that a comment calls a *mutant* are plausible bugs of
that definition. No specification uses them; each is there to show that a
property notices it.

## 3. The runs

| run | question | result |
|---|---|---|
| `ReportStore` | does the lazy sweep keep and forget the right reports? | 158 067 states, holds |
| `ServeConcurrent` | are verdicts right whatever the interleaving and the judge's replies? | 130 784 states, holds |
| `ServeSerial` | with one request at a time, are token counts, acknowledgements and the order of reports right, across a restart? | 212 942 states, holds |
| `ServeLiveness` | is every request answered, and is the store used as its specification allows? | 155 548 states, holds |
| `ServeSharedJudge` | do concurrent requests get their own token counts? | violated |
| `ServePutOrder` | is the report kept the one generated last? | violated |
| `Harness` | do books, decisions, limits, links and the span tree agree? does a run end? | 271 322 states, holds |
| `HarnessTokens` | is a worker stopped for tokens it really spent? | violated |
| `Pipeline` | do clean runs pass, and damaged or bad ones never? is the recording the run, and a replay the live fault? | 132 097 states, holds |
| `PipelineSharedIds` | the same when workers' call ids coincide | violated |
| `Campaign` | do files, manifest, verdicts and results stay true through kills, dying servers, disk errors and replays? | 813 462 states, holds |
| `Experiments` | is the sweep exact, the arrival order forgotten, and do the published numbers agree? | 54 807 states, holds |

**ReportStore.** `NotForgottenEarly`: until a trace's latest report is older than
the time to live the store has it, whatever was swept for other traces.
`RetrievedIsRecent`: no answer is twice the time to live old. `SweepHorizon` is
the inductive strengthening behind it: a report in the map is at most one time
to live older than the last sweep. `ImplementsRecentVerdicts` is the refinement.
Two traces (a sweep on behalf of another trace is the interesting case), a time
to live of 3 and a clock to 7, so that at least two sweep intervals pass and a
report can be put on each side of a sweep; a delay between Build and Put of up
to 2.

**Serve.** `DeterministicVerdictStands`, `OutageIsNotAnOpinion` and
`StoredPassIsEarned` are checked for two handlers at once, two traces, four
classes of batches (clean, a loop warning, an evidence gap, a forbidden call
together with a gap) and all five outcomes of a judge call; time is frozen
because they do not mention it. `UsageIsOwn`, `AckedIsRetrievable` and
`LatestGenerated` are checked with serial clients, a moving clock and one
restart; two requests suffice because each property relates a request to one
that came before it. `Answered` and `ImplementsStore` are checked with two
concurrent handlers and a clock to 2, twice the time to live, so that a sweep
happens between them. Symmetry of requests and traces is used where only
invariants are checked.

**Harness.** Two workers (a reroute needs a successor, and its absence needs a
last worker), three turns, four steps, three tokens, one tolerated failure: every
limit can be met exactly and be exceeded, a turn can be cut between two calls,
and consecutive failures can straddle turns. `StoppedInTime` measures the limits
on spans, not on the counters that enforce them. `LinksAreExact` says that a
turn links the tools it consumed and nothing else. `ExportIsATree` is what
`Reconstruct` relies on.

**Pipeline.** One worker, three turns, calls that are allowed, repeated, failing
or forbidden, and every fault. `NoFalseAssurance` is the main property: a run
that misbehaved never gets PASS, and a run whose batch was changed by a fault
gets INCONCLUSIVE or FAIL. `FaultIsNamed` asks for the right claim among the
gaps, `CleanRunPasses` rules out that the verifiers buy this with false alarms,
and `ReorderIsHarmless` compares the verdict of the reversed batch with that of
the batch. `RecordIsTheRun` says that the recorded file has the spans and the
verdict of the intact batch, in however many exports it came.
`ReplayMatchesLive` generalises `test_replay_parity.py` from one fixture to all
runs of the model: the offline fault gives the spans of the live one, except
for the faults whose victim depends on the order of the batch, for which
`ReplayNeverAssures` says what still holds.

**Campaign.** Two cells, one sent intact and one through a transport fault, and
two campaigns on one directory, so that every file and every orphaned server of
the first is there when the second runs. One kill or crash, one recorder error,
one stranger and one replay, each at any point at which it can happen and in any
combination; two kills would add no new pair of neighbouring writes. `Moments`
says where the stranger comes and goes: before a campaign, between two, or
while `spawn_server` waits for its child, which is where the code has to notice. A
trace has two spans, one before and one after the scheduled export, since only
the division of the trace matters. `RecordIsClean` and `ManifestAgrees` relate
files, rows, reports and results; `FinalRowsStay` says that no later writer
touches a finished row; `VerifiedByOwn` that every verdict in the results comes
from the spawned server and is about the cell's own trace and fault;
`OutIsWhole` that a results file has one result per planned cell of one
campaign; `CampaignEnds` that every campaign ends without leaving its own server
listening under its name.

**Experiments.** A grid of each kind with one behaviour fault, a control and a
real transport fault, two runs, and five outcomes of a cell in the two files:
only the second judge objects, both see a violation, a gap over which the second
judge also objects, a judge's outage, no report. Every sequence of outcomes is
run. Causal traces: those the generator makes up to two branches and depth two,
one longer one, the fixed trace of `causal_run.py`, the cycle of
`test_causal.py`, and one with a doubled edge; intact and through every causal
fault; arriving in every order. `SweepIsExact` compares `topo_orders` with the
set of all permutations that respect the edges, at a limit that cuts (2) and at
the program's own (20). `OrderIsForgotten` compares graph, checksum, sweep and
renderings with those of the spans as made. `NoPrematurePass` says of every
prefix of every arrival that a PASS has all its causes. `TablesAgree` ties the
four-condition table, the matrix, the headline rates and the coverage to one
another and to the cells; `ComparisonIsFair` is about the swap of two files and
of two raters.

Bounds, by constant: `MaxTime` bounds clocks, `MaxStarts` restarts, `MaxLag` the
time between Build and Put; `MaxTurns`, `MaxSteps`, `MaxTokens`, `MaxFailures`,
`MaxSpans`, `MaxRunTokens` and `MaxRepetitions` are parameters of the program
itself. `MaxRuns`, `MaxCrashes`, `MaxDiskErrors`, `MaxStrangers` and
`MaxReplays` bound what may happen to a campaign, `Moments` when a stranger may, `MaxJudged` the cells that
judges see (the program's `--limit`). `CHECK_DEADLOCK FALSE` is set where the system stops by itself: when
all requests are answered and the clock has reached its bound, when a run is
closed, when the last campaign is over, and when a grid is run or a trace
judged.

Fairness. `Serve!Fairness` is weak fairness of each handler's next step: Go
schedules runnable goroutines, and the chat client has a timeout (three minutes),
so a call to a model that hangs ends in `ChatError`. Nothing is assumed of
clients, of GETs, of time or of restarts. `Harness!FairSpec` is weak fairness of
the single thread; a tool or provider call that never returns is excluded by it
(providers have a 60 s timeout, tools are local functions). Neither assumes that
a reply is ever good. `Campaign!Fairness` is weak fairness of the campaign's one
thread, whose every wait is a bounded number of polls, retries or a request with
a timeout, and of a spawned server, which either listens or exits. Nothing is
assumed of kills, of other programs or of replays.

## 4. Where the code and its words disagree

* `ServeSharedJudge`: `judge.go:65` says a failed call must not report the
  previous run's tokens. `Run` does clear them, but all handlers share the one
  judge (`serve.go:57`): between a failed `Run` and `Usage` another handler's
  `Run` may set them. Serial clients never see it (`ServeSerial`).
* `ServePutOrder`: `store.go:8` speaks of the latest report per trace.
  `generatedAt` is stamped before the lock is taken, so of two concurrent
  batches of one trace the older report may be put last and stay.
* `HarnessTokens`: the whole reply's tokens are reported with each of its tool
  calls (`workers.py:143`) and added each time (`supervisor.py:102`): two calls
  in one turn count it twice, and the worker is halted with "token limit
  exceeded" when it has not been.
* `PipelineSharedIds`: call ids are paired per trace, but scripted providers
  number their own calls, so two workers repeat each other's ids. After
  `mismatch_tool_id` the other worker's tool span still answers for the
  rewritten one, no claim fails, and the run passes.

Three more disagreements follow from the modules but have no run of their own;
each is had by changing one line:

* `telemetry.py:229` says that the processor's schedule of one minute "is long
  enough for any run here". A run that lasts longer is exported twice and the
  report kept is the one on the second half, which can be a PASS for a run that
  misbehaved in the first. `Pipeline!HalfNeverPasses` is the invariant that says
  otherwise; added to `Pipeline.cfg` it is violated.
* `server.py:17` promises that no cell is verified by a server that was there
  before. The port is probed before the server is built and any answer after it
  is readiness, so a program that takes the port in between is accepted:
  `VerifiedByOwn` holds only up to the moment at which another program takes the
  port (`taken`), and is violated without that disjunct.
* `delta` (`analyze.py:547`) says that only paired runs are compared. Its key
  drops the transport fault of a cell that has a behaviour fault, so cells of
  the false-assurance grid overwrite one another and a file differs from
  itself: `ComparisonIsFair` is violated without its condition on the keys.

Seen while translating, and modelled as the code has it: a run without a report
counts as detected in `detection_rate` (21-39); `causal_judge_flip_rate` counts
cells with a single rendering, which its docstring excludes (892);
`verdict_distribution_by_rendering` has a count of absent answers that is always
zero, since absent answers are dropped before (960); `judge_agreement_matrix`
also compares runs that no judge saw (460); `causal_judge_agreement_matrix`
divides by zero when no row is common (927); `false_assurance_rate` counts a
reordered batch with a behaviour fault as faulted evidence (272), which the
four-condition table does not.

## 5. What is proved

Eight modules hold theorems. They are about every set of requests, traces,
batches and replies, every time to live, queue, limit and plan, and rest on the
named assumptions only:

* `StoreAssumption`, `ServeAssumption`, `HarnessAssumption`,
  `ChecksAssumption`, `CampaignAssumption`: the constants are sets and numbers of the right kind
  (limits are numbers, a queue and a plan are not empty, a reply that asks for
  tools asks for at least one, one occurrence of a call is no loop: `withDefaults`
  in `loop.go` replaces a limit of zero or less).
* `TracesAssumption`: a causal trace is a list of spans whose ids differ; it is
  either as the generator promises it or has a cycle, whatever its fault.
  `JudgesAssumption`: limits are numbers, and there is one; the renderings put
  to a judge are finitely many. `GridsAssumption`: the axes of a grid are lists,
  and the number of runs is a number.
* `NoReportAssumption`, `RowAssumption`: the values that stand for "no report"
  and "no row", `nil` and `None` in the code, are not reports or rows.

| module | theorems that state a property of a run |
|---|---|
| `ReportStoreProofs` | `TypeCorrect`, `LatestIsRetained`, `SweepIsBehind`, `StalenessIsBounded`, `StoreImplementsRecentVerdicts` |
| `ServeProofs` | `TypeCorrect`, `DeterministicStands`, `OutageIsNobodysOpinion`, `StoredPassHasEvidence`, `StoreIsImplemented`, `AckedStaysRetrievable`, `UsageIsOnesOwn`, `LatestStays` |
| `HarnessProofs` | `NoWorkerIsLost`, `EvidenceTellsTheDecisions`, `HarnessTypes`, `LinksTellConsumption`, `ExportedTree`, `LimitsBite` |
| `PipelineProofs` | `ReorderChangesNothing`, `RecordTellsTheRun`, `AbstentionNamesTheFault`, `NoFaultAssures`, `ReplayAgrees`, `ReplayDoesNotAssure`, `CleanRunsPass` |
| `CampaignProofs` | `TypeCorrect`, `CleanRecord`, `ManifestInAgreement`, `OwnVerdicts`, `WholeResults`, `FinalRowsAreKept` |
| `ExperimentsProofs` | `ArrivalIsForgotten`, `SweepEnumeratesOrders`, `PassIsNeverPremature`, `TablesDoAgree`, `ComparisonStaysFair` |

`ListProofs` has lemmas about lists and sums over finite sets, `SpanListProofs`
those about lists of spans: filters, sorts, the tree and the walk over it.

**The store.** `StoreInv` joins the type invariant, `SweepHorizon`,
`NotForgottenEarly` and `RetrievedIsRecent`. Staleness alone is not inductive: a
Get that does not sweep answers from a map swept long ago. `SweepHorizon` is
what such a Get needs: entries were within one time to live at the last sweep,
and that sweep was less than one time to live ago, hence "twice". From it:
`TypeCorrect`, `LatestIsRetained`, `SweepIsBehind`, `StalenessIsBounded` and,
step by step, `StoreImplementsRecentVerdicts`.

**The server.** `VerdictInv` says what a handler has gathered at each point of
its code: before the judge answers, its findings are the deterministic ones;
when it builds, they are those plus what the reply adds; a report carries the
verdict of exactly these; and every stored report was put by a handler that
reached its `Put`, for that handler's own trace. It is needed because the
properties speak of reports, while what makes them true happened several steps
earlier and other handlers moved in between. The proof has a lemma per action
(`VerifyKeeps`, `JudgeCopyKeeps`, ...), each with the type part, the gathering
of the acting handler, that of the others (`OtherHandlers`) and the stored
reports. `JudgeIsASupplement` is the lemma about `verdictFor` alone: adding a
judge's reply to any set of deterministic findings leaves FAIL and INCONCLUSIVE
alone, an outage only turns PASS into FLAGGED, and PASS needs a clean batch and
no issue.

**The server and its store.** `StoreUseInv` adds to `VerdictInv` that a handler
between Build and Put is at most `MaxLag` old (`InTime`) and knows its trace
(`Placed`). With it every step of a handler is a step of `ReportStore` or leaves
the store alone, for any number of concurrent clients: `StoreIsImplemented`. So
the store's theorems are about the running server.

Three promises hold only for clients that wait for an answer before they post
again, as the experiment drivers do, and are stated with that hypothesis:
`Serial => (Spec => ...)`. It is a condition on clients, not on the server, and
it is exactly what the runs `ServePutOrder` and `ServeSharedJudge` drop to
violate the second and the third. `SerialInv` says that at most one handler is
running (`OneAtATime`), so that a stored report is older than the one being
built (`InOrder`), that the report of a handler which answers or has answered is
in the map, or a later one for its trace is, or it has expired (`Kept`), and
that at each point of the judge's call the pair of counts about to be read is the
handler's own (`OwnTokens`). `Kept` has to speak of handlers that have not been
acknowledged yet, and of later reports, since the map forgets which handler put
what; `OwnTokens` follows the counts from the client to the judge to the report.
A restart empties the map and the acknowledgements together.

**The harness' books.** `LedgerInv` is a ledger. The workers behind the current
one are settled: halted exactly when a halt event names them, rerouted exactly
when a reroute event does and no halt event takes it back. The one that is
leaving has exactly the events of its outcome, and the ones at work or ahead have
none. The two properties are not inductive without the last two parts, since an
event is recorded when the monitor rules and the result is written when the
worker has left. `WorkKeepsLedger` covers everything a worker does while at work,
`LeaveWorkerKeeps` has the case of a reroute without a successor.

**The harness' spans.** `SpanInv` is about the evidence. `BatchInv`: each span
that ended has a number of its own, the time at which it started, and its parent
started before it. `OpenInv` and `TreeInv`: the parent of every span has ended
and encloses it, or is one of the two spans that are still open, whose numbers
are not taken. Only at the end are none open, which is `ExportIsATree`.
`PendingInv` ties the worker's pending links to the tool spans that no turn of
that worker follows, which makes a turn's links exact when it takes them.
`LimitInv` relates the supervisor's counters to the spans: steps are the tool
spans, failures bound every run of failing tools at the end, and the tokens
counted cover all turns but possibly the last, whose tokens the monitor may not
have been told yet, because they are reported with its tool calls. Every
step is first shown to be one of two kinds (`ChatTurns`, `ExecToolCalls`: a turn
or a call, with the span it leaves), and the parts are proved for these.

`LimitsBite` needs that one more span adds its own tokens to a sum. The sum is
`MapThenSumSet` of the community modules, a recursive function that takes the
elements in the order of a `CHOOSE`. `ListProofs` shows that such a function
exists, that its value does not depend on the order, and hence `SpentAdds`. This
is an induction over the size of a set, done by least counterexample from the
well-foundedness of the numbers (`LeastNumber`), since the library's induction
theorems take an operator as a parameter.

**From behaviour to verdict.** `PipelineInv` says that a report is the one on
what was sent of the batch of a closed run, and that `EvidenceInv` holds of that
batch. The properties are about `report`, but everything that makes them true was
put into the batch while the run was under way, so `EvidenceInv` is an invariant
of `Harness`. To `SpanInv` it adds

* `ShapeInv`: what a span holds by its kind (an agent's is completed, a turn names
  its model, only turns have links, a contract comes with an output), and that
  a turn or a tool starts when everything that ended before has ended;
* `PlaceInv`: a worker's span is right behind one of its own, the root's is the
  last one, behind a worker's, and has a decision. Without it nothing says that
  dropping every second span, or the workers', leaves a child without a parent;
* `FirstInv`: the first span to end is the first turn's, which is why the
  recorded order, by start, does not begin with a span that sampling can spare;
* `DeclaredInv`: no tool runs that no turn asked for;
* `AnsweredInv`: each call that a turn declared has its tool span, or is still
  owed by the worker at work, or its worker was stopped and left without an
  answer;
* `ConcludedInv`: a worker that has its answer has a turn that gave it;
* `FreshInv`: with unique call ids, no two tools have one, and none of the calls
  still to do has been used. It is where `UniqueIds` enters, as a hypothesis of
  `AbstentionNamesTheFault`, `NoFaultAssures` and `CleanRunsPass`; `PipelineSharedIds` is the run
  that drops it and violates the latter. The other theorems do not need it.

What the verdict is made of is proved once, for any list: an insertion sort keeps
the entries and, if their starts differ, has one result whatever the input order
(`SortsEqual`); hence two lists of the same spans give the same run (`SameRun`),
which is `ReorderChangesNothing` and most of `RecordTellsTheRun`; and the walk
visits every span of a list in which each has its ancestors (`FamilyRun`), so
that the claims, which quantify over steps, are about the spans that were sent.
The batch of a closed run is such a list (`BatchFamily`): a root, workers, and
their turns and tools. For each fault there is then a lemma that says what it
leaves of the family and which claim that cannot establish (`ParentIsNamed`,
`LateIsNamed`, `LinkIsNamed`, ...). `AbstentionNamesTheFault` joins them;
`NoFaultAssures` adds sampling (`SampleIsNamed`) and that a fault which leaves
everything the verifiers look at also leaves the misbehaviour
(`DamagedNeverPasses`): a sum of tokens, for instance, only shrinks with spans
whose absence is noticed (`PartSpendsLess`, `OccursSpendsLess`). `ReplayAgrees`
is about order: a filter or a change of every span commutes with the sort
(`DropMatches`, `ChangeMatches`), and a change of the first span that passes a
test does so because tools, turns and linked turns end in the order in which they
start (`FirstMatches`).

`CleanRunsPass` is the other direction: a verifier that always objected would
satisfy everything above. It needs that no step is counted twice. The walk from
a step meets only what descends from it, and the walks from two children of one
step have nothing in common, so a tree of spans with ids of their own is walked
to distinct steps (`TreeRun`). Hence the limits and the pairing are about each
span once (`CleanBudget`, `CleanPairing`), calls that differ are not a loop
(`CleanLoop`), every declared call has one result (`CleanClaims`), and the first
turn behind a tool result links it (`NextTurnLinks`).

**The campaign.** `CampaignInv` says, at every point between two writes:

* `Memory`: what `main` holds at each point of its code, one result per finished
  cell included.
* `FileInv`, `RowInv`: a file belongs to a trace that was begun (`Known`), a
  derived copy has at most the spans of its trace file, a row is about a file
  that is there and claims at most its spans. "At most" is what is true between
  the two writes of an export; a kill there leaves it so for good.
* `PortInv`, `StoreInv`: who listens, and that its reports are about spans that
  had been recorded before they were sent.
* `SpanInv`: while the recorder has not failed, each span of the cell at work is
  still to come, on its way, or recorded; none is lost.
* `RecordInv`, `ResultInv`, `OutInv`: the recorder's row agrees with the files as
  far as the code has come, and so does each result, in memory and in the file.
* `ReplayInv`: what a replay may derive from.

`RecordIsClean` and `ManifestAgrees` are statements about files; the reasons for
them are in memory (`RecordInv`) and in the order of writes (`SpanInv`), which
is why none of the parts is inductive alone. Each action of `Next` has its lemma
(`RecordTraceKeeps`, `PostKeeps`, ...), with one step per part that it can disturb.
`FinalRowsAreKept` is about steps: the recorder's row of the cell at work is not
final until it is done with it (`RecordInv`), and a replay writes a name that no
recorded trace has (`NamesDiffer`).

**The causal sweep.** `CausalInv` is all the state there is: the trace is a
generated one after its fault, and what has arrived are spans of it, each once.
The theorems are about the operators applied to it, at every point of every
arrival.

`ArrivalIsForgotten`: spans that ids tell apart are the nodes of the graph
whatever their order (`NodeOfSpan`, `SameGraph`), and the sort by start and id
has one result (`TimeSortsAlike`, from `SortsEqual`).

`SweepEnumeratesOrders` is the correctness of the two loops. An order under way
is `Legal` if the causes of what has come have come before; the in-degrees that
the search carries then count the edges from nodes that are still to come, and
are negative for those that have (`Tracks`), so the frontier is what may come
next (`FrontierFacts`). The invariant of the search has four parts:

* `Sound`: every order on the stack is legal and its counts track it; every order
  put out is complete;
* `Disjoint`: no order under way begins another one, or one that was put out. It
  is why none is put out twice; that the lists on the stack differ would not be
  inductive, since two that differ may grow into one;
* `Covers`: every order there is has been put out or has its beginning on the
  stack. Where a branch would die out, its orders would be lost: this needs that a
  legal beginning of a graph that has an order can always be continued
  (`SomeReady`);
* `Fuel`: the iterations so far went into the orders put out and the one on top,
  a node each. It says that the bound on the iterations in `topo_out` is enough.

`SearchStep` keeps them; at the end the stack is empty or the limit is met
(`SearchEnds`). For Kahn's test, `Checked` says that the nodes taken so far, with
those in the queue, are a legal order and what it frees; it ends when nothing is
free, and then all nodes have been seen or there is no order
(`AcyclicHasOrder`). What both are compared with, the set of all lists in which no
edge points backwards, is shown to be just the complete legal orders
(`AllOrdersAre`): a list of all nodes in which the known causes come first.

`PassIsNeverPremature`: each serialization lists all spans that have arrived
(`OrderListsAll`), and the verdict depends on no order (`SameVerdict`); a PASS
knows every parent and link of what has come (`PassIsWhole`); and when all have
come the fault decides (`PromisedVerdict`).

**The published numbers.** `GridInv` says that the two files have the same
length, at most the grid's, and that the cell at each place is the result of the
grid's cell there; `JudgedInv` that each pair of judged rows is about one causal
cell. Nothing else is needed of the state: the two theorems are about the
operators of `analyze.py` and `causal_judge.py` applied to it.

`TablesDoAgree`: every number in a table is brought back to the size of a set of
places in the file (`TableRows`, `MatrixDivides`, `JudgesColumn`,
`AlarmsCount`). The sums over the table are then the sizes of the parts of a
partition (`ConditionsDivide`, `VerdictsDivide`), and each headline rate is the
size of the same set as its row. That no gap is lost holds because the result of
a cell with an evidence gap over which only the judge objects is
`INCONCLUSIVE` (`CellFacts`, `GapsPreserved`).

`ComparisonStaysFair`: if the keys of the grid differ, the two files have the
same keys in the same places (`FilesMatch`), so the pairs of `delta` are the
cells and their own other halves (`PairsMatch`) and the deltas change sign when
the files change places (`DeltasTurn`). Kappa is a function of four counts: both
raters flag, one of them does, neither does (`KappaCounts`, `RatersDivide`); that
it is symmetric, between -1 and 1, and 1 only for raters who always agree follows
from identities between these counts (`Squares`, `KappaRange`, `KappaTurns`). The
two agreements and the two matrices select the same runs, the causal ones in
whatever order the keys come (`KappaRenumbered`: a kappa does not depend on it).

**Only model-checked.** Liveness (`Answered`, `RunEnds`, `CampaignEnds`), which
the prover cannot treat. Every invariant and every other action property of the
passing runs has a theorem.

## 6. What is abstracted

* Span and trace ids, tool names, arguments and call ids are values that can
  only be compared; a model output is absent, valid or invalid under its
  contract. Messages, JSON layout and logging are left out.
* Time is a counter. A span is named by the tick at which it starts, so no two
  start together; ties in the start time are broken by input order in the code
  and do not arise.
* `Reconstruct` is applied to non-empty, valid, single-trace batches; the server
  refuses the rest (`Refuse`, 4xx or 500), which is an action of `Serve`. A
  transport fault that removed every span would send no batch; none does, since
  every run has at least a turn below its workers.
* `Checks` is configured as `experiment_config.json` is: all evidence claims
  required. Other configurations switch single claims off.
* The data race on the judge's counts is a choice of the wrong request's pair; a
  torn pair is not told apart from it.
* Call ids are unique in `Pipeline.cfg`, as a live provider's are;
  `PipelineSharedIds` has scripted providers.

* In `Campaign` a verdict is a function of the envelope (that is what `Serve` and
  `Pipeline` are about), so a report names the server and the envelope instead.
  A listener that leaves during the twenty probes is not told apart from one
  that was never there. The results file is written at once; a kill in the
  middle of that write would leave a file that does not parse.
* In `Analysis` a file's judge is the second component of an outcome; costs,
  latencies, percentiles and confidence intervals are left out.
* The generated causal traces keep the order in which spans start and end, not
  their times; prompts to judges keep which facts are shown and in which order.

## 7. Not modelled

* `internal/canonical`: the builder and its cached order. Only `FromRun` builds
  such a graph, completely and before the first query, so the stale cache cannot
  be met; the graph, its form and its orders are modelled from the Python mirror.
* The live provider's retry (`providers.py`) and the Bedrock transport: each ends
  in a reply or an error, and `Harness` and `Serve` choose both freely.
* Prompts and fences of the judge, OTLP decoding, JSON layouts, signing, plots,
  percentiles and printed tables: formatting or arithmetic on finished files.
* The command line and the one-shot `verify` command: `Pipeline`'s verdict without
  its concurrency. The Go producer: a fixed script of spans.
* The tau-bench world: vendored tools over JSON data; `taubench.py` connects them
  to the harness, where any tool result is already possible.
* Two recorders on one directory at the same time, and loop configurations below
  the default: no program or configuration of the repository has them. Batches
  whose parents form a cycle: the harness cannot make one.

## 8. Plan

Done: all modules of section 2 and the proofs of section 5, which cover every
safety property that the runs check. What is left are models still worth having:
foreign batches for `RunGraph`, with a reference definition of the tree, and the
tau-bench order life cycle.
