------------------------------ MODULE Recorder ------------------------------
(***************************************************************************)
(* The files of an experiment: what TraceRecorder (harness/trace_artifacts) *)
(* and replay (experiments/replay) write to the trace directory.  Files are *)
(* replaced atomically, one at a time, so a process that is killed leaves   *)
(* every file whole but may leave one without the row that describes it.    *)
(* The content of a trace is the set of its spans and the transport fault   *)
(* it was sent through; a row holds the content itself where the code keeps *)
(* its checksum.  Every recorder sees one trace only.                       *)
(***************************************************************************)
EXTENDS Integers, Sequences

CONSTANTS NoReport, NoRow

VARIABLES
    files,     \* artifact name -> content
    manifest,  \* artifact name -> row
    record     \* the recorder's row of its trace, NoRow before the first export

recorderVars == <<files, manifest, record>>

TraceFile(t) == <<"trace", t, "none">>
DerivedFile(t, fault) == <<"trace", t, fault>>
ReportFile(t) == <<"report", t, "none">>

Envelope(spans, fault) == [spans |-> spans, fault |-> fault]

Row(envelope, capture) ==
    [content |-> envelope, capture |-> capture, report |-> NoReport,
     outcome |-> FALSE]

RecorderInit == files = <<>> /\ manifest = <<>> /\ record = NoRow

\* One entry per name: replaced or added, the others kept.
Put(entries, name, entry) ==
    [n \in {name} \cup DOMAIN entries |-> IF n = name THEN entry ELSE entries[n]]

\* os.replace: the new content at once, or the old one.
write_json_atomic(name, content) == files' = Put(files, name, content)

\* One row per artifact, replaced or appended; the other rows are kept.
upsert_manifest(name, row) == manifest' = Put(manifest, name, row)

\* Mutant of WriteTrace: an earlier export of the trace is overwritten.
WriteTraceOver(t, spans) ==
    /\ write_json_atomic(TraceFile(t), Envelope(spans, "none"))
    /\ UNCHANGED <<manifest, record>>

\* TraceRecorder.export, first half: the clean batch joins what an earlier
\* export of this trace left.
WriteTrace(t, spans) ==
    LET before == IF TraceFile(t) \in DOMAIN files
                  THEN files[TraceFile(t)].spans ELSE {}
    IN  /\ write_json_atomic(TraceFile(t), Envelope(before \cup spans, "none"))
        /\ UNCHANGED <<manifest, record>>

\* Mutant of WriteRow: the row counts the batch, not the merged file.
WriteRowOfBatch(t, spans) ==
    LET row == Row(Envelope(spans, "none"), "clean") IN
    /\ record' = row
    /\ upsert_manifest(TraceFile(t), row)
    /\ UNCHANGED files

\* Second half: the row is built anew and replaces the trace's earlier one.
WriteRow(t, spans) ==
    LET row == Row(files[TraceFile(t)], "clean") IN
    /\ record' = row
    /\ upsert_manifest(TraceFile(t), row)
    /\ UNCHANGED files

\* finalize, first half; without a report no file is written.
WriteReport(t, report) ==
    /\ record # NoRow
    /\ IF report = NoReport THEN UNCHANGED files
       ELSE write_json_atomic(ReportFile(t), report)
    /\ record' = [record EXCEPT !.report = report]
    /\ UNCHANGED manifest

\* finalize, second half.
Finalize(t) ==
    /\ record' = [record EXCEPT !.outcome = TRUE]
    /\ upsert_manifest(TraceFile(t), record')
    /\ UNCHANGED files

-----------------------------------------------------------------------------
\* Mutant of ReplayDerive: the copy is written under the source's name.
ReplayDeriveInPlace(t, fault) ==
    /\ TraceFile(t) \in DOMAIN files
    /\ write_json_atomic(TraceFile(t), Envelope(files[TraceFile(t)].spans, fault))
    /\ UNCHANGED <<manifest, record>>

\* replay(): the clean file is read, a damaged copy written next to it; the
\* report on the copy goes to the copy's own row.
ReplayDerive(t, fault) ==
    /\ TraceFile(t) \in DOMAIN files
    /\ write_json_atomic(DerivedFile(t, fault),
                         Envelope(files[TraceFile(t)].spans, fault))
    /\ UNCHANGED <<manifest, record>>

\* Mutant of ReplayRow: the report goes to the row of the source.
ReplayRowOfSource(t, fault, report) ==
    /\ upsert_manifest(TraceFile(t),
           [Row(files[TraceFile(t)], "clean") EXCEPT !.report = report])
    /\ UNCHANGED <<files, record>>

ReplayRow(t, fault, report) ==
    /\ upsert_manifest(DerivedFile(t, fault),
           [Row(files[DerivedFile(t, fault)], "derived") EXCEPT !.report = report])
    /\ UNCHANGED <<files, record>>

=============================================================================
