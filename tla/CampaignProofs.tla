--------------------------- MODULE CampaignProofs ---------------------------
(***************************************************************************)
(* Proofs about module Campaign, for every plan, every number of campaigns, *)
(* replays, crashes, recorder failures and strangers on the port: whatever  *)
(* is killed between two writes, the recorded traces are clean, the         *)
(* manifest tells the truth about the files, and the results carry verdicts *)
(* of the campaign's own server.                                            *)
(***************************************************************************)
EXTENDS Campaign, TLAPS

Working == pc \notin {"over", "probe", "wait"}

\* The trace was begun: nothing else has a file, a row or a report.
Known(t) ==
    /\ t \in Traces
    /\ t[1] < gen \/ (t[1] = gen /\ (pc = "over" \/ t[2] <= cell))

\* What main() holds at each point of its code: nothing before the first cell
\* and after the last, and while it works one result per finished cell.
Memory ==
    /\ pc = "over" => taken = FALSE
    /\ pc # "over" => gen > 0
    /\ ~Working => /\ cell = 0 /\ spans = {} /\ sending = {}
                   /\ answer = NoReport /\ results = <<>> /\ record = NoRow
    /\ Working => cell > 0
    /\ Working /\ pc \notin {"write", "finally"} => Len(results) = cell - 1
    /\ pc = "write" => Len(results) = Len(Plan)

\* A file is a recorded trace, a derived copy that has at most the spans of the
\* trace it was derived from, or a report, of a trace that was begun.
FileOK(n) ==
    /\ n = <<n[1], n[2], n[3]>> /\ Known(n[2])
    /\ \/ /\ n[1] = "trace" /\ n[3] \in Faults
          /\ files[n] \in Envelopes /\ files[n].fault = n[3]
          /\ TraceFile(n[2]) \in DOMAIN files
          /\ files[n].spans \subseteq files[TraceFile(n[2])].spans
       \/ /\ n[1] = "report" /\ n[3] = "none"
          /\ files[n] \in Verdicts

FileInv == \A n \in DOMAIN files : FileOK(n)

\* A row is about a file that is there and claims at most its spans; only rows
\* of recorded traces are final.
RowOK(n) ==
    /\ n \in DOMAIN files /\ n[1] = "trace"
    /\ manifest[n] \in Rows
    /\ manifest[n].content.spans \subseteq files[n].spans
    /\ manifest[n].content.fault = files[n].fault
    /\ manifest[n].outcome => n[3] = "none"

RowInv == \A n \in DOMAIN manifest : RowOK(n)

\* Until another program takes the port, the only listener a campaign meets
\* after the probe is its own child.
PortInv ==
    /\ child = "up" <=> port = "own"
    /\ pc \notin {"over", "probe"} /\ ~taken => port \in {"none", "own"}

\* A report in the listener's store is about spans that were recorded first,
\* sent through the fault of the cell they belong to.
StoreOK(t) ==
    /\ Known(t) /\ store[t] \in Verdicts
    /\ TraceFile(t) \in DOMAIN files
    /\ store[t].envelope.spans \subseteq files[TraceFile(t)].spans
    /\ store[t].envelope.fault = Plan[t[2]]
    /\ port = "own" => store[t].by = <<"own", gen>>

StoreInv ==
    /\ port = "none" => DOMAIN store = {}
    /\ \A t \in DOMAIN store : StoreOK(t)

\* Where the spans of the cell at work are.
SpanInv ==
    /\ pc = "run" => spans # {}
    /\ pc \in {"record", "row", "post"} => (2 \in sending <=> spans = {})
    /\ pc \notin {"record", "row", "post"} => sending = {}
    /\ pc \notin {"run", "record", "row", "post"} => spans = {}
    /\ pc \in {"row", "post"} =>
          /\ TraceFile(Trace) \in DOMAIN files
          /\ sending \subseteq files[TraceFile(Trace)].spans
    /\ Working /\ budget.disk = MaxDiskErrors =>
          /\ \A s \in AllSpans :
                \/ s \in spans \cup sending
                \/ /\ TraceFile(Trace) \in DOMAIN files
                   /\ s \in files[TraceFile(Trace)].spans
          /\ Trace \in DOMAIN store /\ 2 \notin spans \cup sending =>
                2 \in store[Trace].envelope.spans

\* The report is a verdict of this campaign on a cell with this fault.
Verified(report, fault) ==
    report # NoReport =>
        /\ report \in Verdicts
        /\ taken \/ report.by = <<"own", gen>>
        /\ report.envelope.fault = fault
        /\ budget.disk = MaxDiskErrors => 2 \in report.envelope.spans

\* A report is in its file.
Written(report, t) ==
    report # NoReport => /\ ReportFile(t) \in DOMAIN files
                         /\ files[ReportFile(t)] = report

\* What the recorder holds of the cell at work.
RecordInv ==
    /\ pc \in {"report", "outcome"} => record # NoRow
    /\ Working => Verified(answer, Plan[cell])
    /\ Working /\ record # NoRow =>
          /\ TraceFile(Trace) \in DOMAIN files
          /\ pc # "row" => record.content = files[TraceFile(Trace)]
          /\ pc = "outcome" => record.report = answer /\ Written(answer, Trace)
          /\ pc = "append" =>
                /\ TraceFile(Trace) \in DOMAIN manifest
                /\ manifest[TraceFile(Trace)] = record
                /\ record.report = answer /\ record.outcome
                /\ Written(answer, Trace)
    /\ Working /\ pc \notin {"append", "write", "finally"}
          /\ TraceFile(Trace) \in DOMAIN manifest =>
             ~manifest[TraceFile(Trace)].outcome

\* The row, the trace file and the report file of a result agree with it.
Agrees(r) ==
    r.recorded =>
        LET n == TraceFile(r.trace) IN
        /\ n \in DOMAIN manifest /\ n \in DOMAIN files
        /\ manifest[n].content = files[n]
        /\ manifest[n].report = r.report /\ manifest[n].outcome
        /\ Written(r.report, r.trace)

ResultOK(i) ==
    /\ results[i].trace = <<gen, i>> /\ results[i].fault = Plan[i]
    /\ Agrees(results[i])
    /\ Verified(results[i].report, Plan[i])
    /\ budget.disk = MaxDiskErrors =>
          /\ TraceFile(<<gen, i>>) \in DOMAIN files
          /\ files[TraceFile(<<gen, i>>)].spans = AllSpans

ResultInv == \A i \in DOMAIN results : ResultOK(i)

OutOK(i) ==
    /\ out[i].trace = <<out[1].trace[1], i>>
    /\ out[i].fault = Plan[i]
    /\ Agrees(out[i])

OutInv ==
    /\ out # <<>> => /\ Len(out) = Len(Plan)
                     /\ out[1].trace[1] < gen
                          \/ /\ out[1].trace[1] = gen
                             /\ pc \in {"finally", "over"}
    /\ \A i \in DOMAIN out : OutOK(i)

\* A replay that waits for its answer has its derived copy.
ReplayInv ==
    \/ rp = Idle
    \/ /\ rp \in [step : {"derived"}, trace : Traces, fault : ReplayFaults]
       /\ DerivedFile(rp.trace, rp.fault) \in DOMAIN files

\* The inductive invariant.
CampaignInv ==
    /\ MemoryTypes /\ Memory /\ FileInv /\ RowInv /\ PortInv /\ StoreInv
    /\ SpanInv
    /\ RecordInv /\ ResultInv /\ OutInv /\ ReplayInv
-----------------------------------------------------------------------------
\* A directory, a manifest or a store after one entry was replaced or added.
LEMMA PutFacts ==
    \A f, n, e :
        /\ DOMAIN Put(f, n, e) = {n} \cup DOMAIN f
        /\ Put(f, n, e)[n] = e
        /\ \A m \in DOMAIN f : m # n => Put(f, n, e)[m] = f[m]
BY DEF Put

\* The three kinds of names are apart, and a name tells its trace.
LEMMA NamesDiffer ==
    ASSUME NEW t, NEW u, NEW fault, NEW other
    PROVE  /\ TraceFile(t) # ReportFile(u)
           /\ DerivedFile(t, fault) # ReportFile(u)
           /\ TraceFile(t) = TraceFile(u) => t = u
           /\ ReportFile(t) = ReportFile(u) => t = u
           /\ fault # "none" => DerivedFile(t, fault) # TraceFile(u)
           /\ DerivedFile(t, fault) = DerivedFile(u, other) =>
                 t = u /\ fault = other
           /\ TraceFile(t)[1] = "trace" /\ TraceFile(t)[2] = t
           /\ TraceFile(t)[3] = "none"
           /\ DerivedFile(t, fault)[1] = "trace"
           /\ DerivedFile(t, fault)[2] = t
           /\ DerivedFile(t, fault)[3] = fault
           /\ ReportFile(t)[1] = "report" /\ ReportFile(t)[2] = t
           /\ ReportFile(t)[3] = "none"
BY DEF TraceFile, DerivedFile, ReportFile

\* Envelopes are records of spans and a fault.
LEMMA EnvelopeFacts ==
    /\ \A e \in Envelopes : e.spans \subseteq AllSpans /\ e.fault \in Faults
    /\ \A s \in SUBSET AllSpans, f \in Faults :
          /\ Envelope(s, f) \in Envelopes
          /\ Envelope(s, f).spans = s /\ Envelope(s, f).fault = f
BY DEF Envelopes, Envelope, Faults

\* Rows stay rows when a report or the outcome is filled in, and keep the rest.
LEMMA RowFacts ==
    /\ \A r \in Rows : /\ r.content \in Envelopes /\ r.report \in Reports
                       /\ r.outcome \in BOOLEAN
                       /\ r.capture \in {"clean", "derived"}
    /\ \A e \in Envelopes, c \in {"clean", "derived"} :
          /\ Row(e, c) \in Rows
          /\ Row(e, c).content = e /\ ~Row(e, c).outcome
    /\ \A r \in Rows, x \in Reports :
          LET s == [r EXCEPT !.report = x] IN
          s \in Rows /\ s.content = r.content /\ s.report = x
             /\ s.outcome = r.outcome
    /\ \A r \in Rows :
          LET s == [r EXCEPT !.outcome = TRUE] IN
          s \in Rows /\ s.content = r.content /\ s.report = r.report /\ s.outcome
<1>1. NoReport \in Reports
  BY DEF Reports
<1> QED
  BY <1>1 DEF Rows, Row

\* Reports are what a server says of an envelope, or none.
LEMMA ReportFacts ==
    /\ Reports = Verdicts \cup {NoReport}
    /\ \A r \in Verdicts : r.envelope \in Envelopes
    /\ \A b \in Servers, e \in Envelopes :
          LET r == [by |-> b, envelope |-> e] IN
          r \in Verdicts /\ r.by = b /\ r.envelope = e
BY DEF Reports, Verdicts, Servers

\* What is begun stays begun.
LEMMA KnownStays ==
    ASSUME MemoryTypes, gen' = gen, cell' \in Int,
           pc' = "over" \/ (pc # "over" /\ cell' >= cell)
    PROVE  \A t : Known(t) => Known(t)'
BY CampaignAssumption DEF MemoryTypes, Known, Traces

\* The cell at work has a trace of its own, that is known, and a fault.
LEMMA TracesFacts ==
    ASSUME MemoryTypes, Memory
    PROVE  /\ Working => /\ Trace \in Traces /\ Known(Trace)
                         /\ Plan[cell] \in Faults /\ cell \in DOMAIN Plan
           /\ Trace[1] = gen /\ Trace[2] = cell
<1>1. Len(Plan) \in Nat /\ DOMAIN Plan = 1..Len(Plan)
  BY CampaignAssumption
<1> QED
  BY <1>1, CampaignAssumption
  DEF MemoryTypes, Memory, Working, Trace, Traces, Known, Faults, ReplayFaults

-----------------------------------------------------------------------------
\* What leaves the directory alone leaves these parts alone.
LEMMA FilesAlone ==
    ASSUME FileInv, UNCHANGED files, \A t : Known(t) => Known(t)'
    PROVE  FileInv'
BY DEF FileInv, FileOK, TraceFile

\* The same for the manifest.
LEMMA RowsAlone ==
    ASSUME RowInv, UNCHANGED <<files, manifest>>
    PROVE  RowInv'
BY DEF RowInv, RowOK

\* The same for the agreement of a result.
LEMMA AgreesAlone ==
    ASSUME UNCHANGED <<files, manifest>>, NEW r, Agrees(r)
    PROVE  Agrees(r)'
BY DEF Agrees, Written, TraceFile, ReportFile

\* What leaves the store, its listener and the files alone keeps StoreInv.
LEMMA StoreAlone ==
    ASSUME StoreInv, UNCHANGED <<store, files>>, \A t : Known(t) => Known(t)',
           port' = "none" => DOMAIN store = {},
           port' = "own" => port = "own" /\ gen' = gen
    PROVE  StoreInv'
BY DEF StoreInv, StoreOK, TraceFile

\* A new listener starts with no reports.
LEMMA StoreEmpty == ASSUME store' = <<>> PROVE StoreInv'
BY DEF StoreInv, StoreOK

-----------------------------------------------------------------------------
\* Steps of the server process, and of others that serve the port.
ProcessParts == FileInv /\ RowInv /\ SpanInv /\ RecordInv /\ ResultInv
                  /\ OutInv /\ ReplayInv

\* They leave everything else that is claimed as it is.
LEMMA ProcessStep ==
    ASSUME CampaignInv, UNCHANGED <<pc, gen, cellVars, out, rp, recorderVars>>,
           taken => taken', pc = "over" => taken' = FALSE,
           budget'.disk = budget.disk, store' = <<>> \/ store' = store
    PROVE  Memory' /\ ProcessParts'
<1> USE DEF CampaignInv, cellVars, recorderVars
<1>1. Memory'
  BY DEF Memory, Working
<1>2. FileInv'
  BY FilesAlone DEF Known
<1>3. RowInv'
  BY RowsAlone
<1>4. SpanInv'
  BY DEF SpanInv, Working, Trace, TraceFile
<1>5. \A r, f : Verified(r, f) => Verified(r, f)'
  BY DEF Verified
<1>6. RecordInv'
  BY <1>5 DEF RecordInv, Working, Trace, TraceFile, Written, ReportFile
<1>7. ResultInv'
  BY <1>5, AgreesAlone DEF ResultInv, ResultOK, TraceFile
<1>8. OutInv'
  BY AgreesAlone DEF OutInv, OutOK
<1>9. ReplayInv'
  BY DEF ReplayInv, DerivedFile
<1> QED
  BY <1>1, <1>2, <1>3, <1>4, <1>6, <1>7, <1>8, <1>9 DEF ProcessParts

\* Ways out: main() is gone, and its memory with it.
LEMMA ExitStep ==
    ASSUME CampaignInv, Exit, UNCHANGED <<gen, out, rp, files, manifest>>
    PROVE  Memory' /\ ProcessParts' /\ (\A t : Known(t) => Known(t)')
<1> USE DEF CampaignInv, Exit, Goto
<1>0. \A t : Known(t) => Known(t)'
  BY KnownStays
<1>1. Memory'
  BY DEF Memory, Working
<1>2. FileInv'
  BY <1>0, FilesAlone
<1>3. RowInv'
  BY RowsAlone
<1>4. SpanInv'
  BY DEF SpanInv, Working
<1>6. RecordInv'
  BY DEF RecordInv, Working
<1>7. ResultInv'
  BY DEF ResultInv, ResultOK
<1>8. OutInv'
  BY AgreesAlone DEF OutInv, OutOK
<1>9. ReplayInv'
  BY DEF ReplayInv, DerivedFile
<1> QED
  BY <1>0, <1>1, <1>2, <1>3, <1>4, <1>6, <1>7, <1>8, <1>9 DEF ProcessParts

\* Spending leaves the types of the budget, and the disk budget tells whether
\* the recorder ever failed.
LEMMA SpendFacts ==
    ASSUME MemoryTypes, NEW b \in {"crash", "disk", "stranger", "replay"},
           Spend(b)
    PROVE  /\ budget' \in [crash : Nat, disk : 0..MaxDiskErrors,
                           stranger : Nat, replay : Nat]
           /\ b # "disk" => budget'.disk = budget.disk
           /\ b = "disk" => budget'.disk # MaxDiskErrors
<1>1. budget \in [crash : Nat, disk : 0..MaxDiskErrors,
                  stranger : Nat, replay : Nat]
  BY DEF MemoryTypes
<1> QED
  BY <1>1, CampaignAssumption DEF Spend

\* Types across a step of the processes.
LEMMA ProcessTypes ==
    ASSUME MemoryTypes, UNCHANGED <<pc, gen, cellVars, out, recorderVars>>,
           taken' \in BOOLEAN, child' \in {"none", "starting", "up", "dead"},
           port' \in {"none", "own", "orphan", "stranger"},
           UNCHANGED budget \/ \E b \in {"crash", "stranger"} : Spend(b)
    PROVE  MemoryTypes' /\ budget'.disk = budget.disk
<1>1. budget' \in [crash : Nat, disk : 0..MaxDiskErrors,
                   stranger : Nat, replay : Nat]
      /\ budget'.disk = budget.disk
  BY SpendFacts DEF MemoryTypes
<1> QED
  BY <1>1 DEF MemoryTypes, cellVars, recorderVars

\* The spawned server comes up.
LEMMA ChildListensKeeps == CampaignInv /\ ChildListens => CampaignInv'
<1> SUFFICES ASSUME CampaignInv, ChildListens PROVE CampaignInv'
  OBVIOUS
<1> USE DEF CampaignInv, ChildListens
<1>1. MemoryTypes'
  BY ProcessTypes DEF MemoryTypes
<1>2. Memory' /\ ProcessParts'
  BY ProcessStep DEF Memory
<1>3. PortInv' /\ StoreInv'
  BY StoreEmpty DEF PortInv
<1> QED
  BY <1>1, <1>2, <1>3 DEF ProcessParts

\* The spawned server finds the port taken.
LEMMA ChildCannotListenKeeps == CampaignInv /\ ChildCannotListen => CampaignInv'
<1> SUFFICES ASSUME CampaignInv, ChildCannotListen PROVE CampaignInv'
  OBVIOUS
<1> USE DEF CampaignInv, ChildCannotListen
<1>1. MemoryTypes'
  BY ProcessTypes DEF MemoryTypes
<1>2. Memory' /\ ProcessParts'
  BY ProcessStep DEF Memory
<1>3. \A t : Known(t) => Known(t)'
  BY DEF Known, cellVars
<1>4. PortInv' /\ StoreInv'
  BY <1>3, StoreAlone DEF PortInv, StoreInv, StoreOK, recorderVars
<1> QED
  BY <1>1, <1>2, <1>4 DEF ProcessParts

\* The spawned server is killed.
LEMMA ChildDiesKeeps == CampaignInv /\ ChildDies => CampaignInv'
<1> SUFFICES ASSUME CampaignInv, ChildDies PROVE CampaignInv'
  OBVIOUS
<1> USE DEF CampaignInv, ChildDies
<1>1. MemoryTypes' /\ budget'.disk = budget.disk
  BY ProcessTypes DEF MemoryTypes
<1>2. Memory' /\ ProcessParts'
  BY <1>1, ProcessStep DEF Memory
<1>3. \A t : Known(t) => Known(t)'
  BY DEF Known, cellVars
<1>4. StoreInv'
  BY <1>3, StoreAlone, StoreEmpty DEF PortInv, StoreInv, StoreOK, recorderVars
<1>5. PortInv'
  BY DEF PortInv
<1> QED
  BY <1>1, <1>2, <1>4, <1>5 DEF ProcessParts

\* Another program takes the port.
LEMMA StrangerArrivesKeeps == CampaignInv /\ StrangerArrives => CampaignInv'
<1> SUFFICES ASSUME CampaignInv, StrangerArrives PROVE CampaignInv'
  OBVIOUS
<1> USE DEF CampaignInv, StrangerArrives
<1>1. MemoryTypes' /\ budget'.disk = budget.disk
  BY ProcessTypes DEF MemoryTypes
<1>2. taken => taken'
  BY DEF Memory, MemoryTypes
<1>3. Memory' /\ ProcessParts'
  BY <1>1, <1>2, ProcessStep
<1>4. PortInv' /\ StoreInv'
  BY StoreEmpty DEF PortInv
<1> QED
  BY <1>1, <1>3, <1>4 DEF ProcessParts

\* It leaves again.
LEMMA StrangerLeavesKeeps == CampaignInv /\ StrangerLeaves => CampaignInv'
<1> SUFFICES ASSUME CampaignInv, StrangerLeaves PROVE CampaignInv'
  OBVIOUS
<1> USE DEF CampaignInv, StrangerLeaves
<1>1. MemoryTypes'
  BY ProcessTypes DEF MemoryTypes
<1>2. Memory' /\ ProcessParts'
  BY ProcessStep DEF Memory
<1>3. PortInv' /\ StoreInv'
  BY StoreEmpty DEF PortInv
<1> QED
  BY <1>1, <1>2, <1>3 DEF ProcessParts

-----------------------------------------------------------------------------
\* Types across a way out.
LEMMA ExitTypes ==
    ASSUME MemoryTypes, Exit, UNCHANGED <<gen, out>>,
           child' \in {"none", "starting", "up", "dead"},
           port' \in {"none", "own", "orphan", "stranger"},
           UNCHANGED budget \/ Spend("crash")
    PROVE  MemoryTypes' /\ budget'.disk = budget.disk
<1>1. budget' \in [crash : Nat, disk : 0..MaxDiskErrors,
                   stranger : Nat, replay : Nat]
      /\ budget'.disk = budget.disk
  BY SpendFacts DEF MemoryTypes
<1>2. <<>> \in Seq(Results) /\ NoReport \in Reports /\ 0 \in 0..Len(Plan)
  BY CampaignAssumption DEF Reports
<1> QED
  BY <1>1, <1>2 DEF MemoryTypes, Exit, Goto, Steps

\* Every way out of main() that leaves the directory alone keeps the invariant.
LEMMA ExitKeeps ==
    ASSUME CampaignInv, Exit, UNCHANGED <<gen, out, rp, files, manifest>>,
           child' \in {"none", "starting", "up", "dead"},
           port' \in {"none", "own", "orphan", "stranger"},
           child' = "up" <=> port' = "own",
           port' = "own" => port = "own",
           UNCHANGED budget \/ Spend("crash"),
           store' = <<>> \/ (port' # "none" /\ UNCHANGED store)
    PROVE  CampaignInv'
<1> USE DEF CampaignInv
<1>1. MemoryTypes'
  BY ExitTypes
<1>2. Memory' /\ ProcessParts' /\ (\A t : Known(t) => Known(t)')
  BY ExitStep
<1>3. StoreInv'
  BY <1>2, StoreAlone, StoreEmpty
<1>4. PortInv'
  BY DEF PortInv, Exit, Goto
<1> QED
  BY <1>1, <1>2, <1>3, <1>4 DEF ProcessParts

\* The five ways out: a busy port, a dead child, no answer in time, the finally
\* block, and a kill at any point.
LEMMA WaysOutKeep ==
    CampaignInv /\ (ProbeBusy \/ PollExited \/ GiveUp \/ Finally \/ Killed)
        => CampaignInv'
<1> SUFFICES ASSUME CampaignInv PROVE
        ProbeBusy \/ PollExited \/ GiveUp \/ Finally \/ Killed => CampaignInv'
  OBVIOUS
<1> USE DEF processVars
<1>1. /\ child \in {"none", "starting", "up", "dead"}
      /\ port \in {"none", "own", "orphan", "stranger"}
      /\ child = "up" <=> port = "own"
      /\ port = "none" => DOMAIN store = {}
  BY DEF CampaignInv, MemoryTypes, PortInv, StoreInv, StoreOK
<1>2. CASE ProbeBusy
  BY <1>1, <1>2, ExitKeeps DEF ProbeBusy
<1>3. CASE PollExited
  BY <1>1, <1>3, ExitKeeps DEF PollExited
<1>4. CASE GiveUp
  BY <1>1, <1>4, ExitKeeps DEF GiveUp
<1>5. CASE Finally
  BY <1>1, <1>5, ExitKeeps DEF Finally
<1>6. CASE Killed
  BY <1>1, <1>6, ExitKeeps DEF Killed
<1> QED
  BY <1>2, <1>3, <1>4, <1>5, <1>6

-----------------------------------------------------------------------------
\* A new campaign: everything that is known belongs to an earlier one.
LEMMA StartKeeps == CampaignInv /\ Start => CampaignInv'
<1> SUFFICES ASSUME CampaignInv, Start PROVE CampaignInv'
  OBVIOUS
<1> USE DEF CampaignInv, Start, Goto, cellVars, recorderVars
<1>0. \A t : Known(t) => Known(t)'
  BY DEF MemoryTypes, Known, Traces
<1>1. MemoryTypes'
  BY CampaignAssumption DEF MemoryTypes, Steps
<1>2. Memory'
  BY DEF Memory, Working, MemoryTypes
<1>3. FileInv' /\ RowInv'
  BY <1>0, FilesAlone, RowsAlone
<1>4. PortInv'
  BY DEF PortInv
<1>5. StoreInv'
  BY <1>0, StoreAlone, StoreEmpty DEF StoreInv, StoreOK
<1>6. SpanInv' /\ RecordInv'
  BY DEF SpanInv, RecordInv, Memory, Working
<1>7. ResultInv'
  BY DEF ResultInv, ResultOK, Memory, Working
<1>8. OutInv'
  <2>1. ASSUME out # <<>> PROVE out[1].trace \in Traces
    <3>1. Len(out) > 0
      BY <2>1, CampaignAssumption DEF OutInv, OutOK
    <3>2. out[1] \in Results
      BY <3>1 DEF MemoryTypes
    <3> QED
      BY <3>2 DEF Results
  <2>2. out # <<>> => out[1].trace[1] < gen'
    BY <2>1 DEF OutInv, OutOK, MemoryTypes, Traces
  <2> QED
    BY <2>2, AgreesAlone DEF OutInv, OutOK
<1>9. ReplayInv'
  BY DEF ReplayInv, DerivedFile
<1> QED
  BY <1>1, <1>2, <1>3, <1>4, <1>5, <1>6, <1>7, <1>8, <1>9

\* The port is free, and the child is spawned.
LEMMA ProbeFreeKeeps == CampaignInv /\ ProbeFree => CampaignInv'
<1> SUFFICES ASSUME CampaignInv, ProbeFree PROVE CampaignInv'
  OBVIOUS
<1> USE DEF CampaignInv, ProbeFree, Goto, cellVars, recorderVars
<1>0. \A t : Known(t) => Known(t)'
  BY DEF Known
<1>1. MemoryTypes'
  BY DEF MemoryTypes, Steps
<1>2. Memory'
  BY DEF Memory, Working
<1>3. FileInv' /\ RowInv'
  BY <1>0, FilesAlone, RowsAlone
<1>4. PortInv' /\ StoreInv'
  BY <1>0, StoreAlone DEF PortInv, StoreInv, StoreOK
<1>6. SpanInv' /\ RecordInv'
  BY DEF SpanInv, RecordInv, Memory, Working
<1>7. ResultInv'
  BY DEF ResultInv, ResultOK, Memory, Working
<1>8. OutInv' /\ ReplayInv'
  BY AgreesAlone DEF OutInv, OutOK, ReplayInv, DerivedFile
<1> QED
  BY <1>1, <1>2, <1>3, <1>4, <1>6, <1>7, <1>8

\* A refused connection ends the campaign.
LEMMA FetchRefusedKeeps == CampaignInv /\ FetchRefused => CampaignInv'
<1> SUFFICES ASSUME CampaignInv, FetchRefused PROVE CampaignInv'
  OBVIOUS
<1> USE DEF CampaignInv, FetchRefused, Goto, cellVars, recorderVars, processVars
<1>0. \A t : Known(t) => Known(t)'
  BY DEF Known
<1>1. MemoryTypes'
  BY DEF MemoryTypes, Steps
<1>2. Memory'
  BY DEF Memory, Working
<1>3. FileInv' /\ RowInv'
  BY <1>0, FilesAlone, RowsAlone
<1>4. PortInv' /\ StoreInv'
  BY <1>0, StoreAlone DEF PortInv, StoreInv, StoreOK
<1>5. \A r, f : Verified(r, f) => Verified(r, f)'
  BY DEF Verified
<1>6. SpanInv'
  BY DEF SpanInv, Working, Trace, TraceFile
<1>7. RecordInv'
  BY <1>5 DEF RecordInv, Working, Trace, TraceFile
<1>8. ResultInv'
  BY <1>5, AgreesAlone DEF ResultInv, ResultOK, TraceFile
<1>9. OutInv' /\ ReplayInv'
  BY AgreesAlone DEF OutInv, OutOK, ReplayInv, DerivedFile
<1> QED
  BY <1>1, <1>2, <1>3, <1>4, <1>6, <1>7, <1>8, <1>9

\* Nothing is known of a trace before its cell.
LEMMA FreshTrace ==
    ASSUME CampaignInv, NEW n, n > cell, n \in Nat, pc # "over"
    PROVE  /\ TraceFile(<<gen, n>>) \notin DOMAIN files
           /\ TraceFile(<<gen, n>>) \notin DOMAIN manifest
           /\ <<gen, n>> \notin DOMAIN store
<1>1. ~Known(<<gen, n>>)
  BY DEF Known, CampaignInv, MemoryTypes
<1>2. TraceFile(<<gen, n>>)[2] = <<gen, n>>
  BY NamesDiffer
<1> QED
  BY <1>1, <1>2
  DEF CampaignInv, FileInv, FileOK, RowInv, RowOK, StoreInv, StoreOK

\* The server answers, and the first cell starts.
LEMMA PollUpKeeps == CampaignInv /\ PollUp => CampaignInv'
<1> SUFFICES ASSUME CampaignInv, PollUp PROVE CampaignInv'
  OBVIOUS
<1> USE DEF CampaignInv, PollUp, StartCell, Goto, processVars
<1>0. \A t : Known(t) => Known(t)'
  BY KnownStays DEF Memory, Working
<1>a. /\ Trace' = <<gen, 1>>
      /\ TraceFile(<<gen, 1>>) \notin DOMAIN files
      /\ TraceFile(<<gen, 1>>) \notin DOMAIN manifest
      /\ <<gen, 1>> \notin DOMAIN store
  BY FreshTrace DEF Memory, Working, Trace
<1>1. MemoryTypes'
  BY CampaignAssumption DEF MemoryTypes, Steps
<1>2. Memory'
  BY DEF Memory, Working
<1>3. FileInv' /\ RowInv'
  BY <1>0, FilesAlone, RowsAlone
<1>4. PortInv' /\ StoreInv'
  BY <1>0, StoreAlone DEF PortInv, StoreInv, StoreOK
<1>6. SpanInv'
  BY <1>a DEF SpanInv, Memory, Working, AllSpans
<1>7. RecordInv'
  BY <1>a DEF RecordInv, Memory, Working, Verified, TraceFile
<1>8. ResultInv'
  BY DEF ResultInv, ResultOK, Memory, Working
<1>9. OutInv' /\ ReplayInv'
  BY AgreesAlone DEF OutInv, OutOK, ReplayInv, DerivedFile
<1> QED
  BY <1>1, <1>2, <1>3, <1>4, <1>6, <1>7, <1>8, <1>9

\* A batch leaves the processor.
LEMMA ExportKeeps == CampaignInv /\ Export => CampaignInv'
<1> SUFFICES ASSUME CampaignInv, Export PROVE CampaignInv'
  OBVIOUS
<1> USE DEF CampaignInv, Export, Goto, processVars, recorderVars
<1>0. \A t : Known(t) => Known(t)'
  BY DEF Known
<1>a. /\ sending' \in SUBSET AllSpans /\ spans' \in {AllSpans, {2}, {}}
      /\ 2 \in sending' <=> spans' = {}
      /\ spans' \cup sending' = spans
  BY DEF MemoryTypes, AllSpans
<1>1. MemoryTypes'
  BY <1>a DEF MemoryTypes, Steps
<1>2. Memory'
  BY DEF Memory, Working
<1>3. FileInv' /\ RowInv'
  BY <1>0, FilesAlone, RowsAlone
<1>4. PortInv' /\ StoreInv'
  BY <1>0, StoreAlone DEF PortInv, StoreInv, StoreOK
<1>5. \A r, f : Verified(r, f) => Verified(r, f)'
  BY DEF Verified
<1>6. SpanInv'
  BY <1>a DEF SpanInv, Working, Trace, TraceFile
<1>7. RecordInv'
  BY <1>5 DEF RecordInv, Working, Trace, TraceFile
<1>8. ResultInv'
  BY <1>5, AgreesAlone DEF ResultInv, ResultOK, TraceFile
<1>9. OutInv' /\ ReplayInv'
  BY AgreesAlone DEF OutInv, OutOK, ReplayInv, DerivedFile
<1> QED
  BY <1>1, <1>2, <1>3, <1>4, <1>6, <1>7, <1>8, <1>9

\* The results in memory become the results file.
LEMMA WriteResultsKeeps == CampaignInv /\ WriteResults => CampaignInv'
<1> SUFFICES ASSUME CampaignInv, WriteResults PROVE CampaignInv'
  OBVIOUS
<1> USE DEF CampaignInv, WriteResults, Goto, cellVars, recorderVars, processVars
<1>0. \A t : Known(t) => Known(t)'
  BY DEF Known
<1>1. MemoryTypes'
  BY DEF MemoryTypes, Steps
<1>2. Memory'
  BY DEF Memory, Working
<1>3. FileInv' /\ RowInv'
  BY <1>0, FilesAlone, RowsAlone
<1>4. PortInv' /\ StoreInv'
  BY <1>0, StoreAlone DEF PortInv, StoreInv, StoreOK
<1>5. \A r, f : Verified(r, f) => Verified(r, f)'
  BY DEF Verified
<1>6. SpanInv'
  BY DEF SpanInv, Working, Trace, TraceFile
<1>7. RecordInv'
  BY <1>5 DEF RecordInv, Working, Trace, TraceFile
<1>8. ResultInv'
  BY <1>5, AgreesAlone DEF ResultInv, ResultOK, TraceFile
<1>9. OutInv'
  <2>1. 1 \in DOMAIN results /\ Len(results) = Len(Plan)
    BY CampaignAssumption DEF Memory, MemoryTypes
  <2>2. \A i \in DOMAIN results : Agrees(results[i])'
    BY AgreesAlone DEF ResultInv, ResultOK
  <2>3. results[1].trace = <<gen, 1>>
    BY <2>1 DEF ResultInv, ResultOK
  <2>4. results[1].trace[1] = gen
    BY <2>3
  <2>5. \A i \in DOMAIN results : results[i].trace = <<results[1].trace[1], i>>
                                  /\ results[i].fault = Plan[i]
    BY <2>4 DEF ResultInv, ResultOK
  <2> QED
    BY <2>1, <2>2, <2>4, <2>5 DEF OutInv, OutOK
<1>10. ReplayInv'
  BY DEF ReplayInv, DerivedFile
<1> QED
  BY <1>1, <1>2, <1>3, <1>4, <1>6, <1>7, <1>8, <1>9, <1>10

-----------------------------------------------------------------------------
\* Writers.  What they write has a name of its own: the cell at work is in no
\* result yet, and a derived copy is in none ever.
LEMMA AgreesElsewhere ==
    ASSUME NEW r, Agrees(r),
           \A n \in {TraceFile(r.trace), ReportFile(r.trace)} :
              n \in DOMAIN files => n \in DOMAIN files' /\ files'[n] = files[n],
           TraceFile(r.trace) \in DOMAIN manifest =>
              /\ TraceFile(r.trace) \in DOMAIN manifest'
              /\ manifest'[TraceFile(r.trace)] = manifest[TraceFile(r.trace)]
    PROVE  Agrees(r)'
BY DEF Agrees, Written, TraceFile, ReportFile

\* No result is about the cell at work.
LEMMA OtherTraces ==
    ASSUME CampaignInv, Working, pc \notin {"write", "finally"}
    PROVE  /\ \A i \in DOMAIN results : results[i].trace # Trace
           /\ \A i \in DOMAIN out : out[i].trace # Trace
<1> USE DEF CampaignInv
<1>1. ASSUME NEW i \in DOMAIN results PROVE results[i].trace # Trace
  <2>1. results[i].trace = <<gen, i>>
    BY <1>1 DEF ResultInv, ResultOK
  <2>2. i \in 1..Len(results) /\ Len(results) = cell - 1
    BY <1>1 DEF Memory, MemoryTypes
  <2> QED
    BY <2>1, <2>2 DEF Trace, MemoryTypes
<1>2. ASSUME NEW i \in DOMAIN out PROVE out[i].trace # Trace
  <2>1. out # <<>>
    BY <1>2
  <2>2. Len(out) > 0
    BY <2>1, CampaignAssumption DEF OutInv
  <2>3. out[1].trace[1] # gen
    <3>1. out[1] \in Results
      BY <2>2 DEF MemoryTypes
    <3>2. out[1].trace \in Traces
      BY <3>1 DEF Results
    <3> QED
      BY <2>1, <3>2 DEF OutInv, Working, MemoryTypes, Traces
  <2>4. out[i].trace = <<out[1].trace[1], i>>
    BY <1>2 DEF OutInv, OutOK
  <2> QED
    BY <2>3, <2>4 DEF Trace
<1> QED
  BY <1>1, <1>2

\* A step that writes at most files and rows of the cell at work.
LEMMA CellStep ==
    ASSUME CampaignInv, Working, pc \notin {"write", "finally"}, pc' # "over",
           UNCHANGED <<gen, taken, results, out, rp>>,
           budget'.disk = MaxDiskErrors => budget.disk = MaxDiskErrors,
           \A n \in DOMAIN files :
              n \in DOMAIN files' /\ (n[2] # Trace => files'[n] = files[n]),
           \A n \in DOMAIN manifest :
              /\ n \in DOMAIN manifest'
              /\ n[2] # Trace => manifest'[n] = manifest[n]
    PROVE  /\ ResultInv' /\ OutInv' /\ ReplayInv'
           /\ \A r, f : Verified(r, f) => Verified(r, f)'
<1> USE DEF CampaignInv
<1>1. \A r, f : Verified(r, f) => Verified(r, f)'
  BY DEF Verified
<1>2. ASSUME NEW r, Agrees(r), r.trace # Trace PROVE Agrees(r)'
  BY <1>2, AgreesElsewhere, NamesDiffer
<1>3. ResultInv'
  <2> SUFFICES ASSUME NEW i \in DOMAIN results PROVE ResultOK(i)'
    BY DEF ResultInv
  <2>1. ResultOK(i) /\ results[i].trace # Trace
    BY OtherTraces DEF ResultInv
  <2>2. TraceFile(<<gen, i>>)[2] # Trace
    BY <2>1, NamesDiffer DEF ResultOK
  <2> QED
    BY <1>1, <1>2, <2>1, <2>2 DEF ResultOK, TraceFile
<1>4. OutInv'
  <2>1. ASSUME NEW i \in DOMAIN out PROVE OutOK(i)'
    BY <1>2, <2>1, OtherTraces DEF OutInv, OutOK
  <2> QED
    BY <2>1, OtherTraces DEF OutInv, Working
<1>5. ReplayInv'
  BY DEF ReplayInv, DerivedFile
<1> QED
  BY <1>1, <1>3, <1>4, <1>5

\* Files are replaced by files that have at least their spans.
Grows ==
    \A n \in DOMAIN files :
        /\ n \in DOMAIN files'
        /\ n[1] = "trace" => /\ files[n].spans \subseteq files'[n].spans
                             /\ files'[n].fault = files[n].fault

\* Rows and reports stay true while files grow.
LEMMA GrowthKeeps ==
    ASSUME CampaignInv, Grows, UNCHANGED <<gen, port>>,
           \A t : Known(t) => Known(t)'
    PROVE  /\ UNCHANGED manifest => RowInv'
           /\ UNCHANGED store => StoreInv'
<1>1. ASSUME UNCHANGED manifest PROVE RowInv'
  BY <1>1 DEF CampaignInv, Grows, RowInv, RowOK
<1>2. ASSUME UNCHANGED store PROVE StoreInv'
  <2> SUFFICES ASSUME NEW t \in DOMAIN store PROVE StoreOK(t)'
    BY <1>2 DEF CampaignInv, StoreInv
  <2>1. StoreOK(t)
    BY DEF CampaignInv, StoreInv
  <2>2. TraceFile(t)[1] = "trace"
    BY NamesDiffer
  <2>3. TraceFile(t) \in DOMAIN files' /\
        files[TraceFile(t)].spans \subseteq files'[TraceFile(t)].spans
    BY <2>1, <2>2 DEF StoreOK, Grows
  <2> QED
    BY <1>2, <2>1, <2>3 DEF StoreOK, TraceFile
<1> QED
  BY <1>1, <1>2

\* A file that was not written stays as it was described.
LEMMA OtherFiles ==
    ASSUME FileInv, Grows, \A t : Known(t) => Known(t)'
    PROVE  \A n \in DOMAIN files : files'[n] = files[n] => FileOK(n)'
<1> SUFFICES ASSUME NEW n \in DOMAIN files, files'[n] = files[n]
             PROVE  FileOK(n)'
  OBVIOUS
<1>1. FileOK(n)
  BY DEF FileInv
<1>2. CASE n[1] = "trace"
  <2>1. LET m == TraceFile(n[2]) IN
        m \in DOMAIN files' /\ files[m].spans \subseteq files'[m].spans
    BY <1>1, <1>2, NamesDiffer DEF FileOK, Grows
  <2> QED
    BY <1>1, <1>2, <2>1 DEF FileOK, TraceFile
<1> QED
  BY <1>1, <1>2 DEF FileOK

\* The batch joins the trace file of the cell at work.
LEMMA RecordTraceKeeps == CampaignInv /\ RecordTrace => CampaignInv'
<1> SUFFICES ASSUME CampaignInv, RecordTrace PROVE CampaignInv'
  OBVIOUS
<1> USE DEF CampaignInv
<1> DEFINE name == TraceFile(Trace)
           before == IF name \in DOMAIN files THEN files[name].spans ELSE {}
           new == Envelope(before \cup sending, "none")
<1>a. /\ pc = "record" /\ pc' = "row" /\ files' = Put(files, name, new)
      /\ UNCHANGED <<gen, taken, child, port, store, cell, spans, sending,
                     answer, results, out, rp, budget, manifest, record>>
  BY
  DEF RecordTrace, WriteTrace, write_json_atomic, Goto, processVars, cellVars
<1>b. Working /\ Trace \in Traces /\ Known(Trace)
  BY <1>a, TracesFacts DEF Working
<1>c. /\ new \in Envelopes /\ new.fault = "none"
      /\ new.spans = before \cup sending
  <2>1. before \in SUBSET AllSpans
    BY EnvelopeFacts, NamesDiffer DEF FileInv, FileOK
  <2> QED
    BY <2>1, EnvelopeFacts DEF MemoryTypes, Faults
<1>d. name[1] = "trace" /\ name[2] = Trace /\ name[3] = "none"
      /\ name = <<name[1], name[2], name[3]>>
  BY NamesDiffer DEF TraceFile
<1> HIDE DEF name, new
<1>e. /\ DOMAIN files' = {name} \cup DOMAIN files
      /\ files'[name] = new
      /\ \A m \in DOMAIN files : m # name => files'[m] = files[m]
  <2>1. files' = Put(files, name, new)
    BY <1>a
  <2>2. DOMAIN files' = {name} \cup DOMAIN files
    BY <2>1, PutFacts
  <2>3. /\ files'[name] = new
        /\ \A m \in DOMAIN files : m # name => files'[m] = files[m]
    BY <2>1, PutFacts
  <2> QED
    BY <2>2, <2>3
<1>f. Grows
  <2> SUFFICES ASSUME NEW n \in DOMAIN files, n[1] = "trace"
               PROVE  /\ files[n].spans \subseteq files'[n].spans
                      /\ files'[n].fault = files[n].fault
    BY <1>e DEF Grows
  <2>1. CASE n # name
    BY <2>1, <1>e
  <2>2. CASE n = name
    <3>1. files[name].fault = "none"
      BY <2>2, <1>d DEF FileInv, FileOK
    <3> QED
      BY <2>2, <3>1, <1>c, <1>e
  <2> QED
    BY <2>1, <2>2
<1>0. \A t : Known(t) => Known(t)'
  BY <1>a DEF Known
<1>1. MemoryTypes'
  BY <1>a DEF MemoryTypes, Steps
<1>2. Memory'
  BY <1>a DEF Memory, Working
<1>3. FileInv'
  <2> SUFFICES ASSUME NEW n \in DOMAIN files' PROVE FileOK(n)'
    BY DEF FileInv
  <2>1. CASE n = name
    <3>1. TraceFile(Trace) = name
      BY DEF name
    <3> QED
      BY <2>1, <3>1, <1>0, <1>b, <1>c, <1>d, <1>e DEF FileOK, TraceFile, Faults
  <2>2. CASE n # name
    BY <2>2, <1>0, <1>e, <1>f, OtherFiles
  <2> QED
    BY <2>1, <2>2
<1>4. RowInv' /\ StoreInv'
  BY <1>0, <1>a, <1>f, GrowthKeeps
<1>5. PortInv'
  BY <1>a DEF PortInv
<1>6. SpanInv'
  <2>1. Trace' = Trace /\ TraceFile(Trace)' = name
    BY <1>a DEF Trace, TraceFile, name
  <2>2. name \in DOMAIN files' /\ files'[name].spans = before \cup sending
    BY <1>c, <1>e
  <2>3. name = TraceFile(Trace)
    BY DEF name
  <2> QED
    BY <1>a, <2>1, <2>2, <2>3 DEF SpanInv, Working
<1>7. /\ ResultInv' /\ OutInv' /\ ReplayInv'
      /\ \A r, f : Verified(r, f) => Verified(r, f)'
  <2>1. \A n \in DOMAIN files :
           n \in DOMAIN files' /\ (n[2] # Trace => files'[n] = files[n])
    BY <1>d, <1>e
  <2> QED
    BY <1>a, <1>b, <2>1, CellStep
<1>8. RecordInv'
  <2>1. Trace' = Trace /\ TraceFile(Trace)' = name /\ name = TraceFile(Trace)
    BY <1>a DEF Trace, TraceFile, name
  <2> QED
    BY <1>a, <1>e, <1>7, <2>1 DEF RecordInv, Working
<1> QED
  BY <1>1, <1>2, <1>3, <1>4, <1>5, <1>6, <1>7, <1>8

\* The fetched report is written to its file.
LEMMA FinalizeReportKeeps == CampaignInv /\ FinalizeReport => CampaignInv'
<1> SUFFICES ASSUME CampaignInv, FinalizeReport PROVE CampaignInv'
  OBVIOUS
<1> USE DEF CampaignInv
<1> DEFINE name == ReportFile(Trace)
<1>a. /\ pc = "report" /\ pc' = "outcome" /\ record # NoRow
      /\ IF answer = NoReport THEN UNCHANGED files
         ELSE files' = Put(files, name, answer)
      /\ record' = [record EXCEPT !.report = answer]
      /\ UNCHANGED <<gen, taken, child, port, store, cell, spans, sending,
                     answer, results, out, rp, budget, manifest>>
  BY
  DEF FinalizeReport, WriteReport, write_json_atomic, Goto, processVars, cellVars
<1>b. Working /\ Trace \in Traces /\ Known(Trace)
  BY <1>a, TracesFacts DEF Working
<1>c. /\ record' \in Rows /\ record'.content = record.content
      /\ record'.report = answer
  BY <1>a, RowFacts DEF MemoryTypes
<1>d. /\ name[1] = "report" /\ name[2] = Trace /\ name[3] = "none"
      /\ name = <<name[1], name[2], name[3]>> /\ name = ReportFile(Trace)
      /\ TraceFile(Trace) # name
  BY NamesDiffer DEF ReportFile
<1> HIDE DEF name
<1>e. /\ answer # NoReport => /\ DOMAIN files' = {name} \cup DOMAIN files
                              /\ files'[name] = answer
      /\ \A m \in DOMAIN files :
            m \in DOMAIN files' /\ (m # name => files'[m] = files[m])
      /\ \A m \in DOMAIN files' :
            m \in DOMAIN files \/ (m = name /\ answer # NoReport)
  <2>1. CASE answer = NoReport
    BY <1>a, <2>1
  <2>2. CASE answer # NoReport
    <3>1. files' = Put(files, name, answer)
      BY <1>a, <2>2
    <3>2. DOMAIN files' = {name} \cup DOMAIN files
      BY <3>1, PutFacts
    <3>3. /\ files'[name] = answer
          /\ \A m \in DOMAIN files : m # name => files'[m] = files[m]
      BY <3>1, PutFacts
    <3> QED
      BY <2>2, <3>2, <3>3
  <2> QED
    BY <2>1, <2>2
<1>f. Grows
  BY <1>d, <1>e DEF Grows
<1>0. \A t : Known(t) => Known(t)'
  BY <1>a DEF Known
<1>1. MemoryTypes'
  BY <1>a, <1>c DEF MemoryTypes, Steps
<1>2. Memory'
  BY <1>a DEF Memory, Working
<1>3. FileInv'
  <2> SUFFICES ASSUME NEW n \in DOMAIN files' PROVE FileOK(n)'
    BY DEF FileInv
  <2>1. CASE n = name /\ answer # NoReport
    BY <2>1, <1>0, <1>b, <1>d, <1>e, <1>a, ReportFacts DEF FileOK, MemoryTypes
  <2>2. CASE n # name
    BY <2>2, <1>0, <1>e, <1>f, OtherFiles
  <2>3. CASE n = name /\ answer = NoReport
    BY <2>3, <1>0, <1>a, <1>f, OtherFiles
  <2> QED
    BY <2>1, <2>2, <2>3
<1>4. RowInv' /\ StoreInv'
  BY <1>0, <1>a, <1>f, GrowthKeeps
<1>5. PortInv'
  BY <1>a DEF PortInv
<1>t. /\ Trace' = Trace /\ ReportFile(Trace)' = name
      /\ TraceFile(Trace)' = TraceFile(Trace)
  BY <1>a DEF Trace, TraceFile, ReportFile, name
<1>6. SpanInv'
  BY <1>a, <1>d, <1>e, <1>t DEF SpanInv, Working
<1>7. /\ ResultInv' /\ OutInv' /\ ReplayInv'
      /\ \A r, f : Verified(r, f) => Verified(r, f)'
  <2>1. \A n \in DOMAIN files :
           n \in DOMAIN files' /\ (n[2] # Trace => files'[n] = files[n])
    BY <1>d, <1>e
  <2> QED
    BY <1>a, <1>b, <2>1, CellStep
<1>8. RecordInv'
  <2>1. /\ TraceFile(Trace) \in DOMAIN files
        /\ record.content = files[TraceFile(Trace)]
        /\ Verified(answer, Plan[cell])
        /\ TraceFile(Trace) \in DOMAIN manifest =>
              ~manifest[TraceFile(Trace)].outcome
    BY <1>a, <1>b DEF RecordInv
  <2>2. /\ TraceFile(Trace) \in DOMAIN files'
        /\ record'.content = files'[TraceFile(Trace)]
    BY <2>1, <1>c, <1>d, <1>e
  <2>3. Written(answer, Trace)'
    BY <1>a, <1>e, <1>t DEF Written
  <2>4. Verified(answer, Plan[cell])'
    BY <1>a, <1>7, <2>1 DEF Verified
  <2>5. record' # NoRow
    BY <1>c, RowAssumption
  <2> QED
    BY <1>a, <1>c, <1>t, <2>1, <2>2, <2>3, <2>4, <2>5 DEF RecordInv, Working
<1> QED
  BY <1>1, <1>2, <1>3, <1>4, <1>5, <1>6, <1>7, <1>8

\* What a step that writes a row of the cell at work leaves.
LEMMA FilesUntouched ==
    ASSUME CampaignInv, Working, pc \notin {"write", "finally"},
           pc' \notin {"over", "probe", "wait"},
           UNCHANGED <<gen, taken, child, port, store, cell, results, out,
                       rp, files>>,
           budget'.disk = MaxDiskErrors => budget.disk = MaxDiskErrors,
           \A n \in DOMAIN manifest :
              /\ n \in DOMAIN manifest'
              /\ n[2] # Trace => manifest'[n] = manifest[n]
    PROVE  /\ Working' /\ Trace' = Trace
           /\ TraceFile(Trace)' = TraceFile(Trace)
           /\ FileInv' /\ PortInv' /\ StoreInv'
           /\ UNCHANGED manifest => RowInv'
           /\ ResultInv' /\ OutInv' /\ ReplayInv'
           /\ \A r, f : Verified(r, f) => Verified(r, f)'
<1> USE DEF CampaignInv
<1>1. Working' /\ Trace' = Trace /\ TraceFile(Trace)' = TraceFile(Trace)
  BY DEF Working, Trace, TraceFile
<1>2. \A t : Known(t) => Known(t)'
  BY DEF Known, Working
<1>3. FileInv' /\ (UNCHANGED manifest => RowInv')
  BY <1>2, FilesAlone, RowsAlone
<1>4. PortInv'
  BY DEF PortInv, Working
<1>5. StoreInv'
  BY <1>2, StoreAlone DEF StoreInv
<1>6. /\ ResultInv' /\ OutInv' /\ ReplayInv'
      /\ \A r, f : Verified(r, f) => Verified(r, f)'
  BY CellStep
<1> QED
  BY <1>1, <1>3, <1>4, <1>5, <1>6

\* The row of the trace file is written anew.
LEMMA RecordRowKeeps == CampaignInv /\ RecordRow => CampaignInv'
<1> SUFFICES ASSUME CampaignInv, RecordRow PROVE CampaignInv'
  OBVIOUS
<1> USE DEF CampaignInv
<1> DEFINE name == TraceFile(Trace)
           row == Row(files[name], "clean")
<1>a. /\ pc = "row" /\ pc' = "post" /\ record' = row
      /\ manifest' = Put(manifest, name, row)
      /\ UNCHANGED <<gen, taken, child, port, store, cell, spans, sending,
                     answer, results, out, rp, budget, files>>
  BY DEF RecordRow, WriteRow, upsert_manifest, Goto, processVars, cellVars
<1>b. Working /\ Working'
  BY <1>a DEF Working
<1>d. /\ name[1] = "trace" /\ name[2] = Trace /\ name[3] = "none"
      /\ name = TraceFile(Trace)
  BY NamesDiffer
<1>c. /\ name \in DOMAIN files /\ files[name] \in Envelopes
      /\ row \in Rows /\ row.content = files[name] /\ ~row.outcome
  <2>1. name \in DOMAIN files
    BY <1>a DEF SpanInv
  <2>2. files[name] \in Envelopes
    BY <2>1, <1>d DEF FileInv, FileOK
  <2> QED
    BY <2>1, <2>2, RowFacts
<1> HIDE DEF name, row
<1>e. /\ DOMAIN manifest' = {name} \cup DOMAIN manifest
      /\ manifest'[name] = row
      /\ \A m \in DOMAIN manifest : m # name => manifest'[m] = manifest[m]
  <2>1. manifest' = Put(manifest, name, row)
    BY <1>a
  <2>2. DOMAIN manifest' = {name} \cup DOMAIN manifest
    BY <2>1, PutFacts
  <2>3. /\ manifest'[name] = row
        /\ \A m \in DOMAIN manifest : m # name => manifest'[m] = manifest[m]
    BY <2>1, PutFacts
  <2> QED
    BY <2>2, <2>3
<1>1. MemoryTypes'
  BY <1>a, <1>c DEF MemoryTypes, Steps
<1>2. Memory'
  BY <1>a DEF Memory, Working
<1>3. /\ Trace' = Trace /\ TraceFile(Trace)' = name
      /\ FileInv' /\ PortInv' /\ StoreInv' /\ ResultInv' /\ OutInv'
      /\ ReplayInv'
      /\ \A r, f : Verified(r, f) => Verified(r, f)'
  <2>1. \A n \in DOMAIN manifest :
           /\ n \in DOMAIN manifest'
           /\ n[2] # Trace => manifest'[n] = manifest[n]
    BY <1>d, <1>e
  <2> QED
    BY <1>a, <1>b, <1>d, <2>1, FilesUntouched DEF Working
<1>4. RowInv'
  <2> SUFFICES ASSUME NEW n \in DOMAIN manifest' PROVE RowOK(n)'
    BY DEF RowInv
  <2>1. CASE n = name
    BY <2>1, <1>a, <1>c, <1>d, <1>e DEF RowOK
  <2>2. CASE n # name
    BY <2>2, <1>a, <1>e DEF RowInv, RowOK
  <2> QED
    BY <2>1, <2>2
<1>5. SpanInv'
  BY <1>a, <1>3, <1>d DEF SpanInv, Working
<1>6. RecordInv'
  BY <1>a, <1>c, <1>e, <1>3, <1>d, <1>b DEF RecordInv
<1> QED
  BY <1>1, <1>2, <1>3, <1>4, <1>5, <1>6

\* The row becomes final.
LEMMA FinalizeRowKeeps == CampaignInv /\ FinalizeRow => CampaignInv'
<1> SUFFICES ASSUME CampaignInv, FinalizeRow PROVE CampaignInv'
  OBVIOUS
<1> USE DEF CampaignInv
<1> DEFINE name == TraceFile(Trace)
           row == [record EXCEPT !.outcome = TRUE]
<1>a. /\ pc = "outcome" /\ pc' = "append" /\ record' = row
      /\ manifest' = Put(manifest, name, row)
      /\ UNCHANGED <<gen, taken, child, port, store, cell, spans, sending,
                     answer, results, out, rp, budget, files>>
  BY DEF FinalizeRow, Finalize, upsert_manifest, Goto, processVars, cellVars
<1>b. Working /\ Working'
  BY <1>a DEF Working
<1>d. /\ name[1] = "trace" /\ name[2] = Trace /\ name[3] = "none"
      /\ name = TraceFile(Trace)
  BY NamesDiffer
<1>c. /\ name \in DOMAIN files /\ row.content = files[name]
      /\ row \in Rows /\ row.report = answer /\ row.outcome
      /\ Written(answer, Trace)
  <2>1. /\ record \in Rows /\ name \in DOMAIN files
        /\ record.content = files[name] /\ record.report = answer
        /\ Written(answer, Trace)
    BY <1>a, <1>b DEF RecordInv, MemoryTypes
  <2> QED
    BY <2>1, RowFacts
<1> HIDE DEF name, row
<1>e. /\ DOMAIN manifest' = {name} \cup DOMAIN manifest
      /\ manifest'[name] = row
      /\ \A m \in DOMAIN manifest : m # name => manifest'[m] = manifest[m]
  <2>1. manifest' = Put(manifest, name, row)
    BY <1>a
  <2>2. DOMAIN manifest' = {name} \cup DOMAIN manifest
    BY <2>1, PutFacts
  <2>3. /\ manifest'[name] = row
        /\ \A m \in DOMAIN manifest : m # name => manifest'[m] = manifest[m]
    BY <2>1, PutFacts
  <2> QED
    BY <2>2, <2>3
<1>1. MemoryTypes'
  BY <1>a, <1>c DEF MemoryTypes, Steps
<1>2. Memory'
  BY <1>a DEF Memory, Working
<1>3. /\ Trace' = Trace /\ TraceFile(Trace)' = name
      /\ FileInv' /\ PortInv' /\ StoreInv' /\ ResultInv' /\ OutInv'
      /\ ReplayInv'
      /\ \A r, f : Verified(r, f) => Verified(r, f)'
  <2>1. \A n \in DOMAIN manifest :
           /\ n \in DOMAIN manifest'
           /\ n[2] # Trace => manifest'[n] = manifest[n]
    BY <1>d, <1>e
  <2> QED
    BY <1>a, <1>b, <1>d, <2>1, FilesUntouched DEF Working
<1>4. RowInv'
  <2> SUFFICES ASSUME NEW n \in DOMAIN manifest' PROVE RowOK(n)'
    BY DEF RowInv
  <2>1. CASE n = name
    BY <2>1, <1>a, <1>c, <1>d, <1>e DEF RowOK
  <2>2. CASE n # name
    BY <2>2, <1>a, <1>e DEF RowInv, RowOK
  <2> QED
    BY <2>1, <2>2
<1>5. SpanInv'
  BY <1>a, <1>3, <1>d DEF SpanInv, Working
<1>6. RecordInv'
  <2>1. Written(answer, Trace)'
    BY <1>a, <1>c, <1>3 DEF Written, ReportFile
  <2>2. Verified(answer, Plan[cell])'
    BY <1>a, <1>b, <1>3 DEF RecordInv, Verified
  <2> QED
    BY <1>a, <1>c, <1>e, <1>3, <1>b, <2>1, <2>2 DEF RecordInv
<1> QED
  BY <1>1, <1>2, <1>3, <1>4, <1>5, <1>6

\* The recorder raises: from then on nothing is claimed about completeness.
LEMMA RecorderFailsKeeps == CampaignInv /\ RecorderFails => CampaignInv'
<1> SUFFICES ASSUME CampaignInv, RecorderFails PROVE CampaignInv'
  OBVIOUS
<1> USE DEF CampaignInv
<1>a. /\ pc \in {"record", "row"} /\ pc' = AfterExport /\ sending' = {}
      /\ record' = IF pc = "record" THEN record
                   ELSE Row(files[TraceFile(Trace)], "clean")
      /\ Spend("disk")
      /\ UNCHANGED <<gen, taken, child, port, store, cell, spans,
                     answer, results, out, rp, files, manifest>>
  BY DEF RecorderFails, Goto, processVars
<1>b. pc' \in {"run", "fetch"} /\ (pc' = "fetch" <=> spans = {})
  BY <1>a DEF AfterExport
<1>c. /\ budget' \in [crash : Nat, disk : 0..MaxDiskErrors,
                      stranger : Nat, replay : Nat]
      /\ budget'.disk # MaxDiskErrors
  BY <1>a, SpendFacts
<1>d. pc = "row" => /\ TraceFile(Trace) \in DOMAIN files
                    /\ record' \in Rows
                    /\ record'.content = files[TraceFile(Trace)]
  <2> SUFFICES ASSUME pc = "row" PROVE /\ TraceFile(Trace) \in DOMAIN files
                    /\ record' \in Rows
                    /\ record'.content = files[TraceFile(Trace)]
    OBVIOUS
  <2>1. TraceFile(Trace) \in DOMAIN files
    BY DEF SpanInv
  <2>2. files[TraceFile(Trace)] \in Envelopes
    BY <2>1, NamesDiffer DEF FileInv, FileOK
  <2> QED
    BY <1>a, <2>1, <2>2, RowFacts
<1>1. MemoryTypes'
  BY <1>a, <1>b, <1>c, <1>d DEF MemoryTypes, Steps
<1>2. Memory'
  BY <1>a, <1>b DEF Memory, Working
<1>3. /\ Working' /\ Trace' = Trace /\ TraceFile(Trace)' = TraceFile(Trace)
      /\ FileInv' /\ RowInv' /\ PortInv' /\ StoreInv' /\ ResultInv' /\ OutInv'
      /\ ReplayInv' /\ \A r, f : Verified(r, f) => Verified(r, f)'
  BY <1>a, <1>b, <1>c, FilesUntouched DEF Working
<1>5. SpanInv'
  BY <1>a, <1>b, <1>c DEF SpanInv
<1>6. RecordInv'
  BY <1>a, <1>b, <1>d, <1>3 DEF RecordInv, Working
<1> QED
  BY <1>1, <1>2, <1>3, <1>5, <1>6

\* The verdict is fetched from whoever listens.
LEMMA FetchKeeps == CampaignInv /\ Fetch => CampaignInv'
<1> SUFFICES ASSUME CampaignInv, Fetch PROVE CampaignInv'
  OBVIOUS
<1> USE DEF CampaignInv
<1>a. /\ pc = "fetch" /\ pc' = IF record = NoRow THEN "append" ELSE "report"
      /\ port # "none"
      /\ answer' = IF Trace \in DOMAIN store THEN store[Trace] ELSE NoReport
      /\ UNCHANGED <<gen, taken, child, port, store, cell, spans, sending, budget,
                     results, out, rp, files, manifest, record>>
  BY DEF Fetch, Goto, processVars, recorderVars
<1>b. Working /\ Working' /\ Plan[cell] \in Faults
  BY <1>a, TracesFacts DEF Working
<1>c. answer' \in Reports /\ Verified(answer', Plan[cell])
  <2>1. CASE Trace \notin DOMAIN store
    BY <1>a, <2>1 DEF Verified, Reports
  <2>2. CASE Trace \in DOMAIN store
    <3>1. answer' = store[Trace] /\ StoreOK(Trace)
      BY <1>a, <2>2 DEF StoreInv
    <3>2. taken \/ answer'.by = <<"own", gen>>
      BY <1>a, <3>1 DEF StoreOK, PortInv, MemoryTypes
    <3>3. answer'.envelope.fault = Plan[cell]
      BY <3>1, TracesFacts DEF StoreOK
    <3>4. budget.disk = MaxDiskErrors => 2 \in answer'.envelope.spans
      BY <1>a, <1>b, <2>2, <3>1 DEF SpanInv
    <3> QED
      BY <3>1, <3>2, <3>3, <3>4 DEF Verified, StoreOK, Reports
  <2> QED
    BY <2>1, <2>2
<1>1. MemoryTypes'
  BY <1>a, <1>c DEF MemoryTypes, Steps
<1>2. Memory'
  BY <1>a DEF Memory, Working
<1>3. /\ Trace' = Trace /\ TraceFile(Trace)' = TraceFile(Trace)
      /\ FileInv' /\ RowInv' /\ PortInv' /\ StoreInv' /\ ResultInv' /\ OutInv'
      /\ ReplayInv' /\ \A r, f : Verified(r, f) => Verified(r, f)'
  BY <1>a, <1>b, FilesUntouched DEF Working
<1>5. SpanInv'
  BY <1>a, <1>3 DEF SpanInv, Working
<1>6. RecordInv'
  <2>1. Verified(answer, Plan[cell])'
    BY <1>a, <1>c DEF Verified
  <2> QED
    BY <1>a, <1>b, <1>3, <2>1 DEF RecordInv
<1> QED
  BY <1>1, <1>2, <1>3, <1>5, <1>6

\* The batch goes through the fault exporter to whoever listens.
LEMMA PostKeeps == CampaignInv /\ Post => CampaignInv'
<1> SUFFICES ASSUME CampaignInv, Post PROVE CampaignInv'
  OBVIOUS
<1> USE DEF CampaignInv
<1> DEFINE report == Report(Envelope(sending, Plan[cell]))
<1>a. /\ pc = "post" /\ pc' = AfterExport /\ sending' = {}
      /\ store' = IF port = "none" THEN store ELSE Put(store, Trace, report)
      /\ UNCHANGED <<gen, taken, child, port, cell, spans, budget, answer,
                     results, out, rp, files, manifest, record>>
  BY DEF Post, Goto, recorderVars
<1>b. /\ Working /\ Trace \in Traces /\ Known(Trace) /\ Plan[cell] \in Faults
      /\ Trace[2] = cell
  BY <1>a, TracesFacts DEF Working
<1>p. pc' \in {"run", "fetch"} /\ (pc' = "fetch" <=> spans = {})
  BY <1>a DEF AfterExport
<1>c. /\ port # "none" => report \in Verdicts
      /\ report.envelope.spans = sending /\ report.envelope.fault = Plan[cell]
      /\ port = "own" => report.by = <<"own", gen>>
  <2>1. port # "none" => Server \in Servers
    BY <1>a DEF Server, Servers, MemoryTypes, Memory
  <2>2. LET e == Envelope(sending, Plan[cell]) IN
        e \in Envelopes /\ e.spans = sending /\ e.fault = Plan[cell]
    BY <1>b, EnvelopeFacts DEF MemoryTypes
  <2>3. /\ report.by = Server
        /\ report.envelope = Envelope(sending, Plan[cell])
        /\ port # "none" => report \in Verdicts
    BY <2>1, <2>2 DEF Report, Verdicts
  <2> QED
    BY <2>2, <2>3 DEF Server
<1> HIDE DEF report
<1>e. port # "none" =>
         /\ DOMAIN store' = {Trace} \cup DOMAIN store
         /\ store'[Trace] = report
         /\ \A t \in DOMAIN store : t # Trace => store'[t] = store[t]
  <2> SUFFICES ASSUME port # "none"
               PROVE  /\ DOMAIN store' = {Trace} \cup DOMAIN store
                      /\ store'[Trace] = report
                      /\ \A t \in DOMAIN store : t # Trace => store'[t] = store[t]
    OBVIOUS
  <2>1. store' = Put(store, Trace, report)
    BY <1>a
  <2>2. DOMAIN store' = {Trace} \cup DOMAIN store
    BY <2>1, PutFacts
  <2>3. /\ store'[Trace] = report
        /\ \A t \in DOMAIN store : t # Trace => store'[t] = store[t]
    BY <2>1, PutFacts
  <2> QED
    BY <2>2, <2>3
<1>0. \A t : Known(t) => Known(t)'
  BY <1>a, <1>b, <1>p DEF Known, Working
<1>1. MemoryTypes'
  BY <1>a, <1>p DEF MemoryTypes, Steps
<1>2. Memory'
  BY <1>a, <1>p DEF Memory, Working
<1>3. FileInv' /\ RowInv'
  BY <1>a, <1>0, FilesAlone, RowsAlone
<1>4. PortInv'
  BY <1>a, <1>p DEF PortInv
<1>5. StoreInv'
  <2>1. CASE port = "none"
    BY <2>1, <1>a, <1>0, StoreAlone DEF StoreInv
  <2>2. CASE port # "none"
    <3> SUFFICES ASSUME NEW t \in DOMAIN store' PROVE StoreOK(t)'
      BY <2>2, <1>a DEF StoreInv
    <3>1. CASE t = Trace
      <4>1. /\ TraceFile(Trace) \in DOMAIN files
            /\ sending \subseteq files[TraceFile(Trace)].spans
        BY <1>a DEF SpanInv
      <4> QED
        BY <2>2, <3>1, <4>1, <1>0, <1>a, <1>b, <1>c, <1>e
        DEF StoreOK, TraceFile
    <3>2. CASE t # Trace
      <4>1. StoreOK(t) /\ store'[t] = store[t]
        BY <2>2, <3>2, <1>e DEF StoreInv
      <4> QED
        BY <4>1, <1>0, <1>a DEF StoreOK, TraceFile
    <3> QED
      BY <3>1, <3>2
  <2> QED
    BY <2>1, <2>2
<1>t. Trace' = Trace /\ TraceFile(Trace)' = TraceFile(Trace) /\ Working'
  BY <1>a, <1>p DEF Trace, TraceFile, Working
<1>6. SpanInv'
  <2>1. ASSUME budget.disk = MaxDiskErrors, NEW s \in AllSpans
        PROVE  \/ s \in spans
               \/ /\ TraceFile(Trace) \in DOMAIN files
                  /\ s \in files[TraceFile(Trace)].spans
    BY <2>1, <1>a, <1>b DEF SpanInv
  <2>2. ASSUME Trace \in DOMAIN store', 2 \notin spans
        PROVE  2 \in store'[Trace].envelope.spans
    <3>1. port # "none"
      BY <2>2, <1>5, <1>a DEF StoreInv
    <3>2. 2 \in sending
      BY <2>2, <1>a DEF SpanInv, MemoryTypes, AllSpans
    <3> QED
      BY <3>1, <3>2, <1>c, <1>e
  <2> QED
    BY <2>1, <2>2, <1>a, <1>p, <1>t DEF SpanInv
<1>7. /\ ResultInv' /\ OutInv' /\ ReplayInv'
      /\ \A r, f : Verified(r, f) => Verified(r, f)'
  BY <1>a, <1>b, <1>p, CellStep
<1>8. RecordInv'
  BY <1>a, <1>b, <1>p, <1>7, <1>t DEF RecordInv
<1> QED
  BY <1>1, <1>2, <1>3, <1>4, <1>5, <1>6, <1>7, <1>8

\* The result joins the list, and the next cell is a fresh trace.
LEMMA NextCellKeeps == CampaignInv /\ NextCell => CampaignInv'
<1> SUFFICES ASSUME CampaignInv, NextCell PROVE CampaignInv'
  OBVIOUS
<1> USE DEF CampaignInv
<1>a. /\ pc = "append" /\ results' = Append(results, Result)
      /\ answer' = NoReport
      /\ IF cell < Len(Plan)
         THEN /\ cell' = cell + 1 /\ spans' = AllSpans /\ record' = NoRow
              /\ pc' = "run"
         ELSE pc' = "write" /\ UNCHANGED <<cell, spans, record>>
      /\ UNCHANGED <<gen, taken, child, port, store, sending, out, rp, budget,
                     files, manifest>>
  BY DEF NextCell, StartCell, Goto, processVars
<1>b. /\ Working /\ Trace \in Traces /\ Plan[cell] \in Faults
      /\ Trace = <<gen, cell>>
      /\ Len(Plan) \in Nat /\ cell \in 1..Len(Plan) /\ Len(results) = cell - 1
  BY <1>a, TracesFacts, CampaignAssumption
  DEF Working, Trace, Memory, MemoryTypes
<1>c. Result \in Results
  BY <1>b DEF Result, Results, MemoryTypes
<1>d. /\ results' \in Seq(Results) /\ Len(results') = cell
      /\ results'[cell] = Result
      /\ \A i \in DOMAIN results' :
            i = cell \/ (i \in DOMAIN results /\ results'[i] = results[i])
  BY <1>a, <1>b, <1>c DEF MemoryTypes
<1>0. \A t : Known(t) => Known(t)'
  BY <1>a, <1>b, KnownStays
<1>1. MemoryTypes'
  BY <1>a, <1>b, <1>d, CampaignAssumption DEF MemoryTypes, Steps, Reports
<1>2. Memory'
  BY <1>a, <1>b, <1>d DEF Memory, Working
<1>3. FileInv' /\ RowInv'
  BY <1>a, <1>0, FilesAlone, RowsAlone
<1>4. PortInv' /\ StoreInv'
  BY <1>a, <1>0, StoreAlone DEF PortInv, StoreInv
<1>5. \A r, f : Verified(r, f) => Verified(r, f)'
  BY <1>a DEF Verified
<1>f. cell < Len(Plan) =>
         /\ Trace' = <<gen, cell + 1>>
         /\ TraceFile(<<gen, cell + 1>>) \notin DOMAIN files
         /\ TraceFile(<<gen, cell + 1>>) \notin DOMAIN manifest
         /\ <<gen, cell + 1>> \notin DOMAIN store
  BY <1>a, <1>b, FreshTrace DEF Trace
<1>6. SpanInv'
  <2>1. CASE cell < Len(Plan)
    BY <2>1, <1>a, <1>f DEF SpanInv, AllSpans
  <2>2. CASE ~(cell < Len(Plan))
    BY <2>2, <1>a, <1>b DEF SpanInv, Trace, TraceFile
  <2> QED
    BY <2>1, <2>2
<1>7. RecordInv'
  <2>1. Verified(answer, Plan[cell])'
    BY <1>a DEF Verified
  <2>2. CASE cell < Len(Plan)
    BY <2>1, <2>2, <1>a, <1>f DEF RecordInv, TraceFile
  <2>3. CASE ~(cell < Len(Plan))
    BY <2>1, <2>3, <1>a, <1>b DEF RecordInv, Trace, TraceFile
  <2> QED
    BY <2>2, <2>3
<1>8. ResultInv'
  <2> SUFFICES ASSUME NEW i \in DOMAIN results' PROVE ResultOK(i)'
    BY DEF ResultInv
  <2>1. CASE i = cell
    <3>1. /\ Result.trace = <<gen, cell>> /\ Result.fault = Plan[cell]
          /\ Result.report = answer /\ (Result.recorded <=> record # NoRow)
      BY <1>b DEF Result
    <3>2. Agrees(Result)
      BY <3>1, <1>a, <1>b, RowFacts DEF RecordInv, Agrees, MemoryTypes
    <3>3. Verified(Result.report, Plan[cell])
      BY <3>1, <1>b DEF RecordInv
    <3>4. budget.disk = MaxDiskErrors =>
             /\ TraceFile(Trace) \in DOMAIN files
             /\ files[TraceFile(Trace)].spans = AllSpans
      <4> SUFFICES ASSUME budget.disk = MaxDiskErrors
                   PROVE  /\ TraceFile(Trace) \in DOMAIN files
                          /\ files[TraceFile(Trace)].spans = AllSpans
        OBVIOUS
      <4>1. \A s \in AllSpans : /\ TraceFile(Trace) \in DOMAIN files
                                /\ s \in files[TraceFile(Trace)].spans
        BY <1>a, <1>b DEF SpanInv
      <4>2. TraceFile(Trace) \in DOMAIN files
        BY <4>1 DEF AllSpans
      <4>3. files[TraceFile(Trace)].spans \subseteq AllSpans
        BY <4>2, NamesDiffer, EnvelopeFacts DEF FileInv, FileOK
      <4> QED
        BY <4>1, <4>2, <4>3
    <3>5. results'[i] = Result
      BY <2>1, <1>d
    <3> QED
      BY <2>1, <3>1, <3>2, <3>3, <3>4, <3>5, <1>a, <1>b, <1>5, AgreesAlone
      DEF ResultOK, TraceFile
  <2>2. CASE i # cell
    <3>1. ResultOK(i) /\ results'[i] = results[i]
      BY <2>2, <1>d DEF ResultInv
    <3> QED
      BY <3>1, <1>a, <1>5, AgreesAlone DEF ResultOK, TraceFile
  <2> QED
    BY <2>1, <2>2
<1>9. OutInv' /\ ReplayInv'
  BY <1>a, AgreesAlone DEF OutInv, OutOK, ReplayInv, DerivedFile
<1> QED
  BY <1>1, <1>2, <1>3, <1>4, <1>6, <1>7, <1>8, <1>9

-----------------------------------------------------------------------------
\* Replays write derived copies and rows of derived copies, and no result is
\* about one of those.
LEMMA ReplayStep ==
    ASSUME CampaignInv, UNCHANGED <<pc, gen, taken, processVars, cellVars, out,
                                    record>>,
           budget'.disk = budget.disk,
           \A n \in DOMAIN files :
              n \in DOMAIN files' /\ (n[3] = "none" => files'[n] = files[n]),
           \A n \in DOMAIN manifest :
              /\ n \in DOMAIN manifest'
              /\ n[3] = "none" => manifest'[n] = manifest[n],
           \A n \in DOMAIN manifest' :
              n \in DOMAIN manifest \/ n[3] # "none"
    PROVE  /\ Memory' /\ PortInv' /\ SpanInv' /\ RecordInv' /\ ResultInv'
           /\ OutInv'
           /\ \A t : Known(t) => Known(t)'
<1> USE DEF CampaignInv, processVars, cellVars
<1>0. \A t : Known(t) => Known(t)'
  BY DEF Known
<1>1. Memory' /\ PortInv'
  BY DEF Memory, PortInv, Working
<1>2. \A r, f : Verified(r, f) => Verified(r, f)'
  BY DEF Verified
<1>3. ASSUME NEW t
      PROVE  /\ TraceFile(t) \in DOMAIN files =>
                   /\ TraceFile(t) \in DOMAIN files'
                   /\ files'[TraceFile(t)] = files[TraceFile(t)]
             /\ ReportFile(t) \in DOMAIN files =>
                   /\ ReportFile(t) \in DOMAIN files'
                   /\ files'[ReportFile(t)] = files[ReportFile(t)]
             /\ TraceFile(t) \in DOMAIN manifest =>
                   /\ TraceFile(t) \in DOMAIN manifest'
                   /\ manifest'[TraceFile(t)] = manifest[TraceFile(t)]
             /\ TraceFile(t) \in DOMAIN manifest' =>
                   TraceFile(t) \in DOMAIN manifest
  BY NamesDiffer
<1>4. ASSUME NEW r, Agrees(r) PROVE Agrees(r)'
  BY <1>3, <1>4, AgreesElsewhere
<1>5. Trace' = Trace /\ TraceFile(Trace)' = TraceFile(Trace)
      /\ ReportFile(Trace)' = ReportFile(Trace)
  BY DEF Trace, TraceFile, ReportFile
<1>6. SpanInv'
  BY <1>3, <1>5 DEF SpanInv, Working
<1>7. RecordInv'
  <2>1. Written(answer, Trace) => Written(answer, Trace)'
    BY <1>3, <1>5 DEF Written
  <2>2. Verified(answer, Plan[cell]) => Verified(answer, Plan[cell])'
    BY <1>2 DEF Verified
  <2> QED
    BY <1>3, <1>5, <2>1, <2>2 DEF RecordInv, Working
<1>8. ResultInv'
  <2> SUFFICES ASSUME NEW i \in DOMAIN results PROVE ResultOK(i)'
    BY DEF ResultInv
  <2>1. ResultOK(i)
    BY DEF ResultInv
  <2> QED
    BY <1>2, <1>3, <1>4, <2>1 DEF ResultOK, TraceFile
<1>9. OutInv'
  BY <1>4 DEF OutInv, OutOK
<1> QED
  BY <1>0, <1>1, <1>6, <1>7, <1>8, <1>9

\* A replay derives a copy, perhaps over an earlier one.
LEMMA ReplayKeeps ==
    ASSUME CampaignInv, NEW t \in Traces, NEW fault \in ReplayFaults,
           Replay(t, fault)
    PROVE  CampaignInv'
<1> USE DEF CampaignInv
<1> DEFINE name == DerivedFile(t, fault)
           copy == Envelope(files[TraceFile(t)].spans, fault)
<1>a. /\ TraceFile(t) \in DOMAIN files /\ files' = Put(files, name, copy)
      /\ rp' = [step |-> "derived", trace |-> t, fault |-> fault]
      /\ UNCHANGED <<pc, gen, taken, processVars, cellVars, out, manifest, record>>
      /\ Spend("replay")
  BY DEF Replay, ReplayDerive, write_json_atomic
<1>b. /\ budget' \in [crash : Nat, disk : 0..MaxDiskErrors,
                      stranger : Nat, replay : Nat]
      /\ budget'.disk = budget.disk
  BY <1>a, SpendFacts
<1>c. /\ TraceFile(t) # name /\ name[1] = "trace" /\ name[2] = t
      /\ name[3] = fault
      /\ name = <<name[1], name[2], name[3]>> /\ name = DerivedFile(t, fault)
      /\ fault # "none" /\ fault \in Faults
  BY NamesDiffer DEF DerivedFile, ReplayFaults, Faults
<1>d. /\ Known(t) /\ copy \in Envelopes /\ copy.fault = fault
      /\ copy.spans = files[TraceFile(t)].spans
  <2>1. Known(t) /\ files[TraceFile(t)] \in Envelopes
    BY <1>a, NamesDiffer DEF FileInv, FileOK
  <2> QED
    BY <2>1, <1>c, EnvelopeFacts
<1> HIDE DEF name, copy
<1>e. /\ DOMAIN files' = {name} \cup DOMAIN files
      /\ files'[name] = copy
      /\ \A m \in DOMAIN files : m # name => files'[m] = files[m]
  <2>1. files' = Put(files, name, copy)
    BY <1>a
  <2>2. DOMAIN files' = {name} \cup DOMAIN files
    BY <2>1, PutFacts
  <2>3. /\ files'[name] = copy
        /\ \A m \in DOMAIN files : m # name => files'[m] = files[m]
    BY <2>1, PutFacts
  <2> QED
    BY <2>2, <2>3
<1>f. Grows
  <2> SUFFICES ASSUME NEW n \in DOMAIN files, n[1] = "trace"
               PROVE  /\ files[n].spans \subseteq files'[n].spans
                      /\ files'[n].fault = files[n].fault
    BY <1>e DEF Grows
  <2>1. CASE n # name
    BY <2>1, <1>e
  <2>2. CASE n = name
    <3>1. files[name].fault = fault
          /\ files[name].spans \subseteq files[TraceFile(t)].spans
      BY <2>2, <1>c DEF FileInv, FileOK
    <3> QED
      BY <2>2, <3>1, <1>d, <1>e
  <2> QED
    BY <2>1, <2>2
<1>1. /\ Memory' /\ PortInv' /\ SpanInv' /\ RecordInv' /\ ResultInv' /\ OutInv'
      /\ \A u : Known(u) => Known(u)'
  <2>1. \A n \in DOMAIN files :
           n \in DOMAIN files' /\ (n[3] = "none" => files'[n] = files[n])
    BY <1>c, <1>e
  <2> QED
    BY <1>a, <1>b, <2>1, ReplayStep
<1>2. MemoryTypes'
  BY <1>a, <1>b DEF MemoryTypes, processVars, cellVars
<1>3. FileInv'
  <2> SUFFICES ASSUME NEW n \in DOMAIN files' PROVE FileOK(n)'
    BY DEF FileInv
  <2>1. CASE n = name
    <3>1. /\ TraceFile(t) \in DOMAIN files'
          /\ files'[TraceFile(t)] = files[TraceFile(t)]
      BY <1>a, <1>c, <1>e
    <3> QED
      BY <2>1, <3>1, <1>1, <1>c, <1>d, <1>e DEF FileOK, TraceFile
  <2>2. CASE n # name
    BY <2>2, <1>1, <1>e, <1>f, OtherFiles
  <2> QED
    BY <2>1, <2>2
<1>4. RowInv' /\ StoreInv'
  BY <1>1, <1>a, <1>f, GrowthKeeps DEF processVars
<1>5. ReplayInv'
  <2>1. rp' \in [step : {"derived"}, trace : Traces, fault : ReplayFaults]
        /\ rp'.trace = t /\ rp'.fault = fault
    BY <1>a
  <2> QED
    BY <2>1, <1>c, <1>e DEF ReplayInv, DerivedFile
<1> QED
  BY <1>1, <1>2, <1>3, <1>4, <1>5

\* A replay that fails leaves its copy behind.
LEMMA ReplayFailsKeeps == CampaignInv /\ ReplayFails => CampaignInv'
<1> SUFFICES ASSUME CampaignInv, ReplayFails PROVE CampaignInv'
  OBVIOUS
<1> USE DEF CampaignInv, ReplayFails, recorderVars
<1>1. /\ Memory' /\ PortInv' /\ SpanInv' /\ RecordInv' /\ ResultInv' /\ OutInv'
      /\ \A u : Known(u) => Known(u)'
  BY ReplayStep
<1>2. MemoryTypes'
  BY DEF MemoryTypes, processVars, cellVars
<1>3. FileInv' /\ RowInv' /\ StoreInv'
  BY <1>1, FilesAlone, RowsAlone, StoreAlone DEF processVars, StoreInv
<1>4. ReplayInv'
  BY DEF ReplayInv
<1> QED
  BY <1>1, <1>2, <1>3, <1>4

\* A replay that is answered adds the row of its copy.
LEMMA ReplayAnsweredKeeps == CampaignInv /\ ReplayAnswered => CampaignInv'
<1> SUFFICES ASSUME CampaignInv, ReplayAnswered PROVE CampaignInv'
  OBVIOUS
<1> USE DEF CampaignInv
<1> DEFINE name == DerivedFile(rp.trace, rp.fault)
           report == [by |-> <<"replay", 0>>, envelope |-> files[name]]
           row == [Row(files[name], "derived") EXCEPT !.report = report]
<1>a. /\ rp.step = "derived" /\ rp' = Idle
      /\ manifest' = Put(manifest, name, row)
      /\ UNCHANGED <<pc, gen, taken, processVars, cellVars, out, budget, files,
                     record>>
  BY DEF ReplayAnswered, ReplayRow, upsert_manifest
<1>b. /\ rp.trace \in Traces /\ rp.fault \in ReplayFaults
      /\ name \in DOMAIN files
  BY <1>a DEF ReplayInv, Idle
<1>c. name[1] = "trace" /\ name[3] # "none"
  BY <1>b, NamesDiffer DEF ReplayFaults
<1>d. /\ row \in Rows /\ row.content = files[name] /\ ~row.outcome
  <2>1. files[name] \in Envelopes
    BY <1>b, <1>c DEF FileInv, FileOK
  <2>2. report \in Reports
    BY <2>1, ReportFacts DEF Servers
  <2> HIDE DEF name, report
  <2> QED
    BY <2>1, <2>2, RowFacts
<1> HIDE DEF name, row, report
<1>e. /\ DOMAIN manifest' = {name} \cup DOMAIN manifest
      /\ manifest'[name] = row
      /\ \A m \in DOMAIN manifest : m # name => manifest'[m] = manifest[m]
  <2>1. manifest' = Put(manifest, name, row)
    BY <1>a
  <2>2. DOMAIN manifest' = {name} \cup DOMAIN manifest
    BY <2>1, PutFacts
  <2>3. /\ manifest'[name] = row
        /\ \A m \in DOMAIN manifest : m # name => manifest'[m] = manifest[m]
    BY <2>1, PutFacts
  <2> QED
    BY <2>2, <2>3
<1>1. /\ Memory' /\ PortInv' /\ SpanInv' /\ RecordInv' /\ ResultInv' /\ OutInv'
      /\ \A u : Known(u) => Known(u)'
  <2>1. \A n \in DOMAIN manifest :
           /\ n \in DOMAIN manifest'
           /\ n[3] = "none" => manifest'[n] = manifest[n]
    BY <1>c, <1>e
  <2>2. \A n \in DOMAIN manifest' : n \in DOMAIN manifest \/ n[3] # "none"
    BY <1>c, <1>e
  <2> QED
    BY <1>a, <2>1, <2>2, ReplayStep
<1>2. MemoryTypes'
  BY <1>a DEF MemoryTypes, processVars, cellVars
<1>3. FileInv' /\ StoreInv'
  BY <1>1, <1>a, FilesAlone, StoreAlone DEF processVars, StoreInv
<1>4. RowInv'
  <2> SUFFICES ASSUME NEW n \in DOMAIN manifest' PROVE RowOK(n)'
    BY DEF RowInv
  <2>1. CASE n = name
    BY <2>1, <1>a, <1>b, <1>c, <1>d, <1>e DEF RowOK
  <2>2. CASE n # name
    BY <2>2, <1>a, <1>e DEF RowInv, RowOK
  <2> QED
    BY <2>1, <2>2
<1>5. ReplayInv'
  BY <1>a DEF ReplayInv
<1> QED
  BY <1>1, <1>2, <1>3, <1>4, <1>5

-----------------------------------------------------------------------------
\* The first state.
LEMMA InitCampaign == Init => CampaignInv
<1> SUFFICES ASSUME Init PROVE CampaignInv
  OBVIOUS
<1> USE DEF Init, RecorderInit
<1>1. MemoryTypes
  <2>1. NoReport \in Reports /\ <<>> \in Seq(Results) /\ 0 \in 0..Len(Plan)
    BY CampaignAssumption DEF Reports
  <2>2. budget \in [crash : Nat, disk : 0..MaxDiskErrors,
                    stranger : Nat, replay : Nat]
    BY CampaignAssumption
  <2>3. 0 \in 0..MaxRuns
    BY CampaignAssumption
  <2> QED
    BY <2>1, <2>2, <2>3 DEF MemoryTypes, Steps
<1>2. Memory /\ PortInv /\ StoreInv
  BY DEF Memory, Working, PortInv, StoreInv
<1>3. /\ FileInv /\ RowInv /\ SpanInv /\ RecordInv /\ ResultInv /\ OutInv
      /\ ReplayInv
  BY
  DEF FileInv, RowInv, SpanInv, RecordInv, ResultInv, OutInv, ReplayInv, Working
<1> QED
  BY <1>1, <1>2, <1>3 DEF CampaignInv

\* A step that changes nothing.
LEMMA StutterKeepsCampaign == CampaignInv /\ UNCHANGED vars => CampaignInv'
<1> SUFFICES ASSUME CampaignInv, UNCHANGED vars PROVE CampaignInv'
  OBVIOUS
<1> USE DEF CampaignInv, vars, processVars, cellVars, recorderVars
<1>1. MemoryTypes' /\ (\A t : Known(t) => Known(t)')
  BY DEF MemoryTypes, Known
<1>2. Memory' /\ ProcessParts'
  BY ProcessStep DEF Memory
<1>3. PortInv' /\ StoreInv'
  BY <1>1, StoreAlone DEF PortInv, StoreInv
<1> QED
  BY <1>1, <1>2, <1>3 DEF ProcessParts

\* Every step keeps the invariant.
LEMMA StepKeepsCampaign == CampaignInv /\ [Next]_vars => CampaignInv'
<1> SUFFICES ASSUME CampaignInv, [Next]_vars PROVE CampaignInv'
  OBVIOUS
<1>1. CASE Spawning
  BY <1>1, StartKeeps, ProbeFreeKeeps, PollUpKeeps, WaysOutKeep DEF Spawning
<1>2. CASE RunningCells
  BY <1>2, ExportKeeps, RecordTraceKeeps, RecordRowKeeps, PostKeeps,
     FetchKeeps,
     FetchRefusedKeeps, FinalizeReportKeeps, FinalizeRowKeeps, NextCellKeeps,
     WriteResultsKeeps, WaysOutKeep DEF RunningCells
<1>3. CASE Environment
  BY <1>3, ChildListensKeeps, ChildCannotListenKeeps, ChildDiesKeeps,
     RecorderFailsKeeps, WaysOutKeep, StrangerArrivesKeeps, StrangerLeavesKeeps
     DEF Environment
<1>4. CASE Replaying
  BY <1>4, ReplayKeeps, ReplayFailsKeeps, ReplayAnsweredKeeps DEF Replaying
<1>5. CASE UNCHANGED vars
  BY <1>5, StutterKeepsCampaign
<1> QED
  BY <1>1, <1>2, <1>3, <1>4, <1>5 DEF Next

\* Hence it holds throughout.
LEMMA InvariantHolds == Spec => []CampaignInv
<1>1. Init => CampaignInv
  BY InitCampaign
<1>2. CampaignInv /\ [Next]_vars => CampaignInv'
  BY StepKeepsCampaign
<1> QED
  BY <1>1, <1>2, PTL DEF Spec

-----------------------------------------------------------------------------
\* The type invariant, and the child listens exactly while the port is its own.
THEOREM TypeCorrect == Spec => []TypeOK
<1>1. CampaignInv => TypeOK
  <2> SUFFICES ASSUME CampaignInv PROVE TypeOK
    OBVIOUS
  <2> USE DEF CampaignInv
  <2>1. \A t \in DOMAIN store : t \in Traces /\ store[t] \in Verdicts
    BY DEF StoreInv, StoreOK, Known
  <2>2. \A n \in DOMAIN files :
           files[n] \in IF n[1] = "trace" THEN Envelopes ELSE Verdicts
    BY DEF FileInv, FileOK
  <2>3. \A n \in DOMAIN manifest : manifest[n] \in Rows
    BY DEF RowInv, RowOK
  <2>4. rp \in {Idle}
              \cup [step : {"derived"}, trace : Traces, fault : ReplayFaults]
    BY DEF ReplayInv
  <2> QED
    BY <2>1, <2>2, <2>3, <2>4 DEF TypeOK, PortInv
<1> QED
  BY <1>1, InvariantHolds, PTL

\* No fault, replay, kill or later campaign taints a recorded trace
\* (telemetry.py:221), a report is about recorded spans, and a finished cell has
\* its whole trace unless the recorder failed.
THEOREM CleanRecord == Spec => []RecordIsClean
<1>1. CampaignInv => RecordIsClean
  <2> SUFFICES ASSUME CampaignInv PROVE RecordIsClean
    OBVIOUS
  <2> USE DEF CampaignInv
  <2>1. \A n \in DOMAIN files :
           n[1] = "trace" /\ n[3] = "none" => files[n].fault = "none"
    BY DEF FileInv, FileOK
  <2>2. \A t \in DOMAIN store :
           store[t].envelope.spans \subseteq files[TraceFile(t)].spans
    BY DEF StoreInv, StoreOK
  <2>3. budget.disk = MaxDiskErrors =>
           \A i \in DOMAIN results :
              files[TraceFile(results[i].trace)].spans = AllSpans
    BY DEF ResultInv, ResultOK
  <2> QED
    BY <2>1, <2>2, <2>3 DEF RecordIsClean
<1> QED
  BY <1>1, InvariantHolds, PTL

\* A row names a file that is there and claims no more than it has; the rows of
\* the results are about exactly the files and reports the results speak of.
THEOREM ManifestInAgreement == Spec => []ManifestAgrees
<1>1. CampaignInv => ManifestAgrees
  <2> SUFFICES ASSUME CampaignInv PROVE ManifestAgrees
    OBVIOUS
  <2> USE DEF CampaignInv
  <2>1. \A n \in DOMAIN manifest :
           /\ n \in DOMAIN files
           /\ manifest[n].content.spans \subseteq files[n].spans
           /\ manifest[n].content.fault = files[n].fault
    BY DEF RowInv, RowOK
  <2>2. ASSUME NEW r \in ToSet(results \o out) PROVE Agrees(r)
    <3>1. results \in Seq(Results) /\ out \in Seq(Results)
      BY DEF MemoryTypes
    <3>2. PICK i \in DOMAIN (results \o out) : r = (results \o out)[i]
      BY DEF ToSet
    <3>3. \/ i \in DOMAIN results /\ r = results[i]
          \/ i - Len(results) \in DOMAIN out /\ r = out[i - Len(results)]
      BY <3>1, <3>2
    <3> QED
      BY <3>3 DEF ResultInv, ResultOK, OutInv, OutOK
  <2> QED
    BY <2>1, <2>2 DEF ManifestAgrees, Agrees, Written
<1> QED
  BY <1>1, InvariantHolds, PTL

\* The verdicts in the results come from the server this campaign spawned
\* (server.py:20), on the fault of their own cell.
THEOREM OwnVerdicts == Spec => []VerifiedByOwn
<1>1. CampaignInv => VerifiedByOwn
  BY DEF CampaignInv, VerifiedByOwn, ResultInv, ResultOK, Verified
<1> QED
  BY <1>1, InvariantHolds, PTL

\* A results file has every planned cell, in order, all of one campaign.
THEOREM WholeResults == Spec => []OutIsWhole
<1>1. CampaignInv => OutIsWhole
  BY DEF CampaignInv, OutIsWhole, OutInv, OutOK
<1> QED
  BY <1>1, InvariantHolds, PTL

\* The row of a finished trace never changes again (trace_artifacts.py:285).
THEOREM FinalRowsAreKept == Spec => FinalRowsStay
<1>1. CampaignInv /\ [Next]_vars =>
         [\A n \in DOMAIN manifest :
             manifest[n].outcome =>
                n \in DOMAIN manifest' /\ manifest'[n] = manifest[n]]_vars
  <2> SUFFICES ASSUME CampaignInv, Next,
                      NEW n \in DOMAIN manifest, manifest[n].outcome
               PROVE  n \in DOMAIN manifest' /\ manifest'[n] = manifest[n]
    BY DEF vars
  <2>1. CASE UNCHANGED manifest
    BY <2>1
  <2>2. ASSUME NEW name, NEW row, manifest' = Put(manifest, name, row), n # name
        PROVE  n \in DOMAIN manifest' /\ manifest'[n] = manifest[n]
    <3>1. DOMAIN manifest' = {name} \cup DOMAIN manifest
      BY <2>2, PutFacts
    <3> QED
      BY <3>1, <2>2, PutFacts
  <2>3. CASE RecordRow \/ FinalizeRow
    <3>1. pc \in {"row", "outcome"} /\ Working
      BY <2>3 DEF RecordRow, FinalizeRow, Working
    <3>2. n # TraceFile(Trace)
      BY <3>1 DEF CampaignInv, RecordInv
    <3> QED
      BY <2>2, <2>3, <3>2
      DEF RecordRow, FinalizeRow, WriteRow, Finalize, upsert_manifest
  <2>4. CASE ReplayAnswered
    <3>1. rp.fault # "none"
      BY <2>4 DEF CampaignInv, ReplayInv, ReplayAnswered, ReplayFaults, Idle
    <3>2. n # DerivedFile(rp.trace, rp.fault)
      BY <3>1, NamesDiffer DEF CampaignInv, RowInv, RowOK
    <3> QED
      BY <2>2, <2>4, <3>2 DEF ReplayAnswered, ReplayRow, upsert_manifest
  <2>5. CASE ~(RecordRow \/ FinalizeRow \/ ReplayAnswered)
    <3>1. CASE Spawning
      BY <3>1, <2>1 DEF Spawning, Start, ProbeBusy, ProbeFree, PollExited,
         PollUp, GiveUp, recorderVars
    <3>2. CASE RunningCells
      BY <3>2, <2>5, <2>1 DEF RunningCells, Export, RecordTrace, WriteTrace,
         Post, Fetch, FetchRefused, FinalizeReport, WriteReport, NextCell,
         WriteResults, Finally, recorderVars
    <3>3. CASE Environment
      BY <3>3, <2>1
      DEF Environment, ChildListens, ChildCannotListen, ChildDies,
         RecorderFails, Killed, StrangerArrives, StrangerLeaves, recorderVars
    <3>4. CASE Replaying
      BY <3>4, <2>5, <2>1 DEF Replaying, Replay, ReplayDerive, ReplayFails,
         recorderVars
    <3> QED
      BY <3>1, <3>2, <3>3, <3>4 DEF Next
  <2> QED
    BY <2>3, <2>4, <2>5
<1> QED
  BY <1>1, InvariantHolds, PTL DEF Spec, FinalRowsStay
=============================================================================
