-------------------------- MODULE PipelineProofs ----------------------------
(***************************************************************************)
(* Proofs about module Pipeline, for every length of the queue, every limit *)
(* and every set of replies: what the server answers for a run, what a      *)
(* transport fault makes of that answer, and what a replay of the recorded  *)
(* file makes of it.                                                        *)
(*                                                                          *)
(* The invariant says that a report is the one on what was sent of the      *)
(* batch of a closed run, and that batch is what the invariants of          *)
(* HarnessProofs say it is: one family of a root, its workers and their *)
(* turns and tool calls. For each fault it is then shown which claim of the *)
(* evidence contract the damaged family cannot establish.                   *)
(***************************************************************************)
EXTENDS Pipeline, HarnessProofs

\* The report is the one on what was sent of the batch.
Exported(fault) ==
    LET sent == export(fault, batch) IN
    /\ report.fault = fault
    /\ report.lossy <=> sent # batch /\ fault # "reorder_spans"
    /\ report.verdict = verdictOf(sent)
    /\ report.gaps = Gaps(Reconstruct(sent))
    /\ report.recorded = envelope_from_spans(batch)

\* Or on what was left of it when the schedule had fired.
Halved(k) ==
    LET second == SubSeq(batch, k + 1, Len(batch)) IN
    /\ report.fault = "scheduled_export"
    /\ report.recorded = merge_envelopes(
            envelope_from_spans(SubSeq(batch, 1, k)),
            envelope_from_spans(second))

ReportInv ==
    report # NoReport =>
        /\ phase = "closed"
        /\ \/ \E fault \in Faults : Exported(fault)
           \/ \E k \in 1..Len(batch) - 1 : Halved(k)

PipelineInv == EvidenceInv /\ ReportInv

-----------------------------------------------------------------------------
\* A run that is closed takes no more steps.
LEMMA ClosedStays == phase = "closed" => ~Next
<1> SUFFICES ASSUME phase = "closed", Next PROVE FALSE
    OBVIOUS
<1>1. CASE Chat
  <2>1. PICK s : TurnGain(s)
        BY <1>1, ChatGains
  <2> QED
      BY <2>1 DEF TurnGain
<1> QED
    BY <1>1 DEF Next, StartWorker, ExecTool, OutOfTurns, LeaveWorker, CloseRun

\* Whatever else happens, the report stays what it is.
LEMMA ReportStays ==
    ASSUME ReportInv, UNCHANGED <<batch, phase, report>>
    PROVE  ReportInv'
<1>1. \A fault : Exported(fault) => Exported(fault)'
      BY DEF Exported
<1>2. \A k : Halved(k) => Halved(k)'
      BY DEF Halved
<1> QED
    BY <1>1, <1>2 DEF ReportInv

\* Every step of the pipeline is one of the run's, or makes the report.
LEMMA PipelineNextKeeps ==
    PipelineInv /\ [PipelineNext]_pipelineVars => PipelineInv'
<1> SUFFICES ASSUME PipelineInv, [PipelineNext]_pipelineVars
             PROVE  PipelineInv'
    OBVIOUS
<1>1. CASE UNCHANGED vars /\ UNCHANGED report
  <2>1. EvidenceInv'
        BY <1>1, EvidenceNext DEF PipelineInv
  <2>2. UNCHANGED <<batch, phase, report>>
        BY <1>1 DEF vars
  <2> QED
      BY <2>1, <2>2, ReportStays DEF PipelineInv
<1>2. CASE Next /\ UNCHANGED report
  <2>1. EvidenceInv'
        BY <1>2, EvidenceNext DEF PipelineInv
  <2>2. report = NoReport
        BY <1>2, ClosedStays DEF PipelineInv, ReportInv
  <2> QED
      BY <1>2, <2>1, <2>2 DEF PipelineInv, ReportInv
<1>3. ASSUME NEW fault \in Faults, Export(fault) PROVE PipelineInv'
  <2>1. UNCHANGED vars /\ phase = "closed"
        BY <1>3 DEF Export
  <2>2. EvidenceInv' /\ batch' = batch /\ phase' = "closed"
        BY <2>1, EvidenceNext DEF PipelineInv, vars
  <2>3. Exported(fault)'
        BY <1>3, <2>2 DEF Export, Exported
  <2> QED
      BY <2>2, <2>3 DEF PipelineInv, ReportInv
<1>4. ASSUME NEW k \in 1..Len(batch) - 1, ExportScheduled(k)
      PROVE  PipelineInv'
  <2>1. UNCHANGED vars /\ phase = "closed"
        BY <1>4 DEF ExportScheduled
  <2>2. EvidenceInv' /\ batch' = batch /\ phase' = "closed"
        BY <2>1, EvidenceNext DEF PipelineInv, vars
  <2>3. Halved(k)'
        BY <1>4, <2>2 DEF ExportScheduled, Halved
  <2> QED
      BY <2>2, <2>3 DEF PipelineInv, ReportInv
<1> QED
    BY <1>1, <1>2, <1>3, <1>4 DEF PipelineNext, pipelineVars

\* What the pipeline holds at every step.
THEOREM PipelineInvariant == PipelineSpec => []PipelineInv
<1>1. PipelineInit => PipelineInv
      BY EvidenceInit DEF PipelineInit, PipelineInv, ReportInv
<1> QED
    BY <1>1, PipelineNextKeeps, PTL DEF PipelineSpec

-----------------------------------------------------------------------------
\* The spans of a run have ids and starts of their own.
LEMMA BatchOrder ==
    ASSUME SpanInv
    PROVE  /\ \E T : batch \in Seq(T)
           /\ DistinctIds(batch) /\ DistinctStarts(ToSet(batch))
           /\ IdsTell(ToSet(batch)) /\ Distinct(batch)
<1>1. /\ Batched /\ \A i \in DOMAIN batch : Ended(batch[i])
      /\ \A i, j \in DOMAIN batch : batch[i].id = batch[j].id => i = j
      BY DEF SpanInv, BatchInv
<1>2. DistinctIds(batch)
      BY <1>1 DEF DistinctIds
<1>3. IdsTell(ToSet(batch)) /\ Distinct(batch)
      BY <1>2, DistinctIdsAre
<1>4. \A s \in ToSet(batch) : s.start = s.id /\ s.id \in Nat
      BY <1>1 DEF ToSet, Ended
<1>5. DistinctStarts(ToSet(batch))
      BY <1>3, <1>4 DEF DistinctStarts, IdsTell
<1> QED
    BY <1>1, <1>2, <1>3, <1>5 DEF Batched

\* The recorded file holds the spans of the batch, in the order they started.
LEMMA Enveloped ==
    ASSUME NEW T, NEW b \in Seq(T), DistinctIds(b),
           NEW e, e = envelope_from_spans(b)
    PROVE  /\ e \in Seq(T) /\ ToSet(e) = ToSet(b) /\ Len(e) = Len(b)
           /\ DistinctStarts(ToSet(b)) =>
                 DistinctIds(e) /\ Ascends(e, ByStartAndId(T))
<1>1. SortOf(e, b, T, ByStartAndId(T))
      BY SortedByStartAndId DEF envelope_from_spans
<1>2. e \in Seq(T) /\ ToSet(e) = ToSet(b) /\ Len(e) = Len(b)
      BY <1>1 DEF SortOf
<1>3. ASSUME DistinctStarts(ToSet(b))
      PROVE  DistinctIds(e) /\ Ascends(e, ByStartAndId(T))
  <2>1. ToSet(b) \subseteq T
        BY DEF ToSet
  <2>2. Orders(ByStartAndId(T), ToSet(b))
        BY <1>3, <2>1, StartsOrder
  <2>3. Distinct(b) /\ IdsTell(ToSet(b))
        BY DistinctIdsAre
  <2>4. Ascends(e, ByStartAndId(T))
        BY <1>1, <2>2, <2>3 DEF SortOf
  <2>5. Distinct(e)
    <3>1. \A k \in DOMAIN e : e[k] \in ToSet(b)
          BY <1>2 DEF ToSet
    <3>2. \A k, l \in DOMAIN e : k < l => e[k] # e[l]
          BY <2>2, <2>4, <3>1 DEF Ascends, Orders
    <3>3. DOMAIN e \subseteq Nat
          BY <1>2
    <3> QED
        BY <3>2, <3>3 DEF Distinct
  <2> QED
      BY <1>2, <2>3, <2>4, <2>5, DistinctIdsAre
<1> QED
    BY <1>2, <1>3

\* "reverse a batch; reconstruction should tolerate it" (faults.py:56): the
\* order in which a batch arrives changes no verdict and no gap, for every run.
THEOREM ReorderChangesNothing == PipelineSpec => []ReorderIsHarmless
<1>1. PipelineInv => ReorderIsHarmless
  <2> SUFFICES ASSUME PipelineInv, Reported({"reorder_spans"})
               PROVE  /\ report.verdict = verdictOf(batch)
                      /\ report.gaps = Gaps(Reconstruct(batch))
      BY DEF ReorderIsHarmless
  <2>1. report.fault = "reorder_spans"
        BY DEF Reported
  <2>2. Exported("reorder_spans")
        BY <2>1 DEF PipelineInv, ReportInv, Reported, Exported, Halved
  <2>3. PICK T : batch \in Seq(T)
        BY BatchOrder DEF PipelineInv, EvidenceInv
  <2>4. DistinctIds(batch) /\ DistinctStarts(ToSet(batch))
        BY BatchOrder DEF PipelineInv, EvidenceInv
  <2>5. PICK sent : sent = Reverse(batch)
        OBVIOUS
  <2>6. sent \in Seq(T) /\ ToSet(sent) = ToSet(batch) /\ DistinctIds(sent)
        BY <2>3, <2>4, <2>5, ReverseFacts
  <2>7. Reconstruct(sent) = Reconstruct(batch)
        BY <2>3, <2>4, <2>6, SameRun
  <2>8. export("reorder_spans", batch) = sent
        BY <2>5 DEF export
  <2>9. report.verdict = verdictOf(sent) /\ report.gaps = Gaps(Reconstruct(sent))
        BY <2>2, <2>8 DEF Exported
  <2> QED
      BY <2>7, <2>9 DEF verdictOf
<1> QED
    BY <1>1, PipelineInvariant, PTL

-----------------------------------------------------------------------------
\* Two lists without an id in common, one behind the other.
LEMMA JoinedIds ==
    ASSUME NEW T, NEW p \in Seq(T), NEW q \in Seq(T),
           DistinctIds(p), DistinctIds(q),
           \A s \in ToSet(p), t \in ToSet(q) : s.id # t.id,
           NEW c, IsJoin(c, p, q)
    PROVE  DistinctIds(c)
<1>1. PICK m \in Nat : m = Len(p) /\ DOMAIN p = 1..m
      OBVIOUS
<1>2. PICK n \in Nat : n = Len(q) /\ DOMAIN q = 1..n
      OBVIOUS
<1>3. /\ c \in Seq(T) /\ Len(c) = m + n
      /\ \A k \in 1..m : c[k] = p[k]
      /\ \A k \in 1..n : c[m + k] = q[k]
      BY <1>1, <1>2, JoinFacts
<1>4. DOMAIN c = 1..m + n
      BY <1>3
<1>5. \A k \in 1..m + n : k \in 1..m \/ (k - m \in 1..n /\ k = m + (k - m))
      OBVIOUS
<1>6. \A k \in 1..m : \A l \in 1..n : p[k].id # q[l].id
      BY <1>1, <1>2 DEF ToSet
<1> SUFFICES ASSUME NEW k \in 1..m + n, NEW l \in 1..m + n, c[k].id = c[l].id
             PROVE  k = l
    BY <1>4 DEF DistinctIds
<1>7. CASE k \in 1..m /\ l \in 1..m
      BY <1>1, <1>3, <1>7 DEF DistinctIds
<1>8. CASE k \notin 1..m /\ l \notin 1..m
  <2>1. PICK i \in 1..n : i = k - m
        BY <1>5, <1>8
  <2>2. PICK j \in 1..n : j = l - m
        BY <1>5, <1>8
  <2>3. c[k] = q[i] /\ c[l] = q[j]
        BY <1>3, <1>5, <1>8, <2>1, <2>2
  <2>4. i = j
        BY <1>2, <2>3 DEF DistinctIds
  <2> QED
      BY <2>1, <2>2, <2>4
<1>9. CASE k \in 1..m /\ l \notin 1..m
  <2>1. PICK j \in 1..n : j = l - m
        BY <1>5, <1>9
  <2>2. c[k] = p[k] /\ c[l] = q[j]
        BY <1>3, <1>5, <1>9, <2>1
  <2> QED
      BY <1>6, <1>9, <2>2
<1>10. CASE k \notin 1..m /\ l \in 1..m
  <2>1. PICK j \in 1..n : j = k - m
        BY <1>5, <1>10
  <2>2. c[l] = p[l] /\ c[k] = q[j]
        BY <1>3, <1>5, <1>10, <2>1
  <2> QED
      BY <1>6, <1>10, <2>2
<1> QED
    BY <1>7, <1>8, <1>9, <1>10

IsPart(p, b, i, j) == p = SubSeq(b, i, j)

\* The two parts of a list that is cut in two.
LEMMA Halves ==
    ASSUME NEW T, NEW b \in Seq(T), DistinctIds(b), NEW L, L = Len(b),
           NEW k \in 1..L - 1,
           NEW p, IsPart(p, b, 1, k), NEW q, IsPart(q, b, k + 1, L)
    PROVE  /\ p \in Seq(T) /\ q \in Seq(T) /\ Len(p) + Len(q) = L
           /\ DistinctIds(p) /\ DistinctIds(q)
           /\ ToSet(p) \cup ToSet(q) = ToSet(b)
           /\ \A s \in ToSet(p), t \in ToSet(q) : s.id # t.id
<1>1. L \in Nat /\ DOMAIN b = 1..L
      OBVIOUS
<1>2. /\ p \in Seq(T) /\ Len(p) = k /\ DOMAIN p = 1..k
      /\ \A i \in 1..k : p[i] = b[i]
      BY <1>1 DEF IsPart
<1>0. L - k \in Nat
      BY <1>1
<1>3. PICK n \in Nat : n = L - k
      BY <1>0
<1>4. /\ q \in Seq(T) /\ Len(q) = n /\ DOMAIN q = 1..n
      /\ \A i \in 1..n : q[i] = b[k + i]
      BY <1>1, <1>3 DEF IsPart
<1>5. /\ \A i \in 1..k : i \in 1..L
      /\ \A i \in 1..n : k + i \in 1..L
      /\ \A i \in 1..L : i \in 1..k \/ (i - k \in 1..n /\ i = k + (i - k))
      BY <1>1, <1>3
<1>6. \A i, j \in 1..L : b[i].id = b[j].id => i = j
      BY <1>1 DEF DistinctIds
<1>7. DistinctIds(p)
      BY <1>2, <1>5, <1>6 DEF DistinctIds
<1>8. DistinctIds(q)
  <2> SUFFICES ASSUME NEW i \in 1..n, NEW j \in 1..n, q[i].id = q[j].id
               PROVE  i = j
      BY <1>4 DEF DistinctIds
  <2>1. k + i = k + j
        BY <1>4, <1>5, <1>6
  <2> QED
      BY <2>1
<1>9. \A i \in 1..k : \A j \in 1..n : p[i].id # q[j].id
  <2> SUFFICES ASSUME NEW i \in 1..k, NEW j \in 1..n, p[i].id = q[j].id
               PROVE  FALSE
      OBVIOUS
  <2>1. b[i].id = b[k + j].id /\ i \in 1..L /\ k + j \in 1..L
        BY <1>2, <1>4, <1>5
  <2>2. i = k + j
        BY <1>6, <2>1
  <2> QED
      BY <2>2
<1>10. ASSUME NEW s \in ToSet(p), NEW t \in ToSet(q) PROVE s.id # t.id
  <2>1. PICK i \in 1..k : s = p[i]
        BY <1>2 DEF ToSet
  <2>2. PICK j \in 1..n : t = q[j]
        BY <1>4 DEF ToSet
  <2> QED
      BY <1>9, <2>1, <2>2
<1>11. ToSet(p) \subseteq ToSet(b) /\ ToSet(q) \subseteq ToSet(b)
  <2>1. ASSUME NEW i \in 1..k PROVE p[i] \in ToSet(b)
        BY <1>1, <1>2, <1>5 DEF ToSet
  <2>2. ASSUME NEW i \in 1..n PROVE q[i] \in ToSet(b)
    <3>1. k + i \in DOMAIN b /\ q[i] = b[k + i]
          BY <1>1, <1>4, <1>5
    <3> QED
        BY <3>1 DEF ToSet
  <2> QED
      BY <1>2, <1>4, <2>1, <2>2 DEF ToSet
<1>12. \A i \in 1..L : b[i] \in ToSet(p) \cup ToSet(q)
  <2> SUFFICES ASSUME NEW i \in 1..L PROVE b[i] \in ToSet(p) \cup ToSet(q)
      OBVIOUS
  <2>1. CASE i \in 1..k
        BY <1>2, <2>1 DEF ToSet
  <2>2. CASE i \notin 1..k
    <3>1. i - k \in 1..n /\ q[i - k] = b[i]
          BY <1>4, <1>5, <2>2
    <3> QED
        BY <1>4, <3>1 DEF ToSet
  <2> QED
      BY <2>1, <2>2
<1>13. ToSet(p) \cup ToSet(q) = ToSet(b)
       BY <1>1, <1>11, <1>12 DEF ToSet
<1>14. Len(p) + Len(q) = L
       BY <1>1, <1>2, <1>3, <1>4
<1> QED
    BY <1>2, <1>4, <1>7, <1>8, <1>10, <1>13, <1>14

\* What the recorder makes of two exports of a run.
LEMMA HalvesMerge ==
    ASSUME NEW T, NEW b \in Seq(T), DistinctIds(b), DistinctStarts(ToSet(b)),
           NEW L, L = Len(b), NEW k \in 1..L - 1,
           NEW e, e = merge_envelopes(envelope_from_spans(SubSeq(b, 1, k)),
                                      envelope_from_spans(SubSeq(b, k + 1, L)))
    PROVE  /\ e \in Seq(T) /\ ToSet(e) = ToSet(b) /\ Len(e) = Len(b)
           /\ DistinctIds(e)
<1>1. PICK p : p = SubSeq(b, 1, k)
      OBVIOUS
<1>2. PICK q : q = SubSeq(b, k + 1, L)
      OBVIOUS
<1>3. /\ p \in Seq(T) /\ q \in Seq(T) /\ Len(p) + Len(q) = L
      /\ DistinctIds(p) /\ DistinctIds(q)
      /\ ToSet(p) \cup ToSet(q) = ToSet(b)
      /\ \A s \in ToSet(p), t \in ToSet(q) : s.id # t.id
  <2>1. IsPart(p, b, 1, k) /\ IsPart(q, b, k + 1, L)
        BY <1>1, <1>2 DEF IsPart
  <2> QED
      BY <2>1, Halves
<1>4. DistinctStarts(ToSet(p)) /\ DistinctStarts(ToSet(q))
  <2>1. ToSet(p) \subseteq ToSet(b) /\ ToSet(q) \subseteq ToSet(b)
        BY <1>3
  <2> QED
      BY <2>1 DEF DistinctStarts
<1>5. PICK c : c = envelope_from_spans(p)
      OBVIOUS
<1>6. PICK d : d = envelope_from_spans(q)
      OBVIOUS
<1>7. /\ c \in Seq(T) /\ ToSet(c) = ToSet(p) /\ Len(c) = Len(p)
      /\ DistinctIds(c)
      BY <1>3, <1>4, <1>5, Enveloped
<1>8. /\ d \in Seq(T) /\ ToSet(d) = ToSet(q) /\ Len(d) = Len(q)
      /\ DistinctIds(d)
      BY <1>3, <1>4, <1>6, Enveloped
<1>9. PICK j : j = c \o d
      OBVIOUS
<1>10. IsJoin(j, c, d)
       BY <1>9 DEF IsJoin
<1>11. /\ j \in Seq(T) /\ Len(j) = L /\ ToSet(j) = ToSet(b)
  <2>1. j \in Seq(T) /\ Len(j) = Len(c) + Len(d)
        /\ ToSet(j) = ToSet(c) \cup ToSet(d)
        BY <1>7, <1>8, <1>10, JoinFacts
  <2> QED
      BY <1>3, <1>7, <1>8, <2>1
<1>12. DistinctIds(j)
       BY <1>3, <1>7, <1>8, <1>10, JoinedIds
<1>13. Unique(j) = j
  <2>1. Kept(j) = DOMAIN j
        BY <1>11, <1>12, AllKept
  <2> QED
      BY <1>11, <2>1, PickedAll DEF Unique
<1>14. e = envelope_from_spans(j)
       BY <1>1, <1>2, <1>5, <1>6, <1>9, <1>13 DEF merge_envelopes
<1>15. DistinctStarts(ToSet(j))
       BY <1>11
<1>16. /\ e \in Seq(T) /\ ToSet(e) = ToSet(j) /\ Len(e) = Len(j)
       /\ DistinctIds(e)
       BY <1>11, <1>12, <1>14, <1>15, Enveloped
<1> QED
    BY <1>11, <1>16

\* "The clean artifact is the source of truth" (replay.py:3): whatever was
\* exported, and in how many requests, the recorded file holds the run, and
\* replaying it gives the verdict of the intact batch, for every run.
THEOREM RecordTellsTheRun == PipelineSpec => []RecordIsTheRun
<1>1. PipelineInv => RecordIsTheRun
  <2> SUFFICES ASSUME PipelineInv, report # NoReport
               PROVE  /\ ToSet(report.recorded) = ToSet(batch)
                      /\ Len(report.recorded) = Len(batch)
                      /\ verdictOf(report.recorded) = verdictOf(batch)
      BY DEF RecordIsTheRun
  <2>1. PICK T : batch \in Seq(T)
        BY BatchOrder DEF PipelineInv, EvidenceInv
  <2>2. DistinctIds(batch) /\ DistinctStarts(ToSet(batch))
        BY BatchOrder DEF PipelineInv, EvidenceInv
  <2>3. PICK e : e = report.recorded
        OBVIOUS
  <2>4. /\ e \in Seq(T) /\ ToSet(e) = ToSet(batch) /\ Len(e) = Len(batch)
        /\ DistinctIds(e)
    <3>1. ASSUME NEW fault, Exported(fault) PROVE e = envelope_from_spans(batch)
          BY <2>3, <3>1 DEF Exported
    <3>2. CASE e = envelope_from_spans(batch)
          BY <2>1, <2>2, <3>2, Enveloped
    <3>3. ASSUME NEW k \in 1..Len(batch) - 1, Halved(k)
          PROVE  /\ e \in Seq(T) /\ ToSet(e) = ToSet(batch)
                 /\ Len(e) = Len(batch) /\ DistinctIds(e)
      <4>1. PICK L : L = Len(batch)
            OBVIOUS
      <4>2. e = merge_envelopes(envelope_from_spans(SubSeq(batch, 1, k)),
                                envelope_from_spans(SubSeq(batch, k + 1, L)))
            BY <2>3, <3>3, <4>1 DEF Halved
      <4>3. k \in 1..L - 1
            BY <4>1
      <4> QED
          BY <2>1, <2>2, <4>1, <4>2, <4>3, HalvesMerge
    <3> QED
        BY <3>1, <3>2, <3>3 DEF PipelineInv, ReportInv
  <2>5. Reconstruct(e) = Reconstruct(batch)
        BY <2>1, <2>2, <2>4, SameRun
  <2> QED
      BY <2>3, <2>4, <2>5 DEF verdictOf
<1> QED
    BY <1>1, PipelineInvariant, PTL

-----------------------------------------------------------------------------
\* Three generations: the root, the workers under it, and what is under them.
Family(V) ==
    /\ \E r \in V : r.parent = NoSpan /\ r.id = RootId
    /\ \A s \in V : \/ s.parent = NoSpan
                    \/ s.parent = RootId
                    \/ /\ s.parent # NoSpan
                       /\ \E w \in V : w.parent = RootId /\ w.id = s.parent

\* In a family everybody hangs from the root.
LEMMA FamilyHangs ==
    ASSUME NEW V, Family(V), NEW s \in V
    PROVE  Hangs(s, V)
<1>1. PICK r \in V : r.parent = NoSpan /\ r.id = RootId
      BY DEF Family
<1>2. RootId # NoSpan
      BY DEF RootId, NoSpan
<1>3. CASE s.parent = NoSpan
      BY <1>3 DEF Hangs
<1>4. CASE s.parent = RootId
      BY <1>1, <1>4 DEF Hangs
<1>5. CASE s.parent # NoSpan /\ s.parent # RootId
  <2>1. PICK w \in V : w.parent = RootId /\ w.id = s.parent
        BY <1>5 DEF Family
  <2>2. s # r /\ w # r
        BY <1>1, <1>2, <1>5, <2>1
  <2> QED
      BY <1>1, <2>1, <2>2 DEF Hangs
<1> QED
    BY <1>3, <1>4, <1>5

\* So a list that holds a family is a run of all its spans.
LEMMA FamilyRun ==
    ASSUME NEW T, NEW spans \in Seq(T), DistinctIds(spans),
           Family(ToSet(spans)), NEW run, run = Reconstruct(spans)
    PROVE  StepsOf(run) = ToSet(spans)
<1>1. StepsOf(run) \subseteq ToSet(spans)
      BY RunFacts
<1>2. \A s \in ToSet(spans) : s \in StepsOf(run)
      BY FamilyHangs, WholeRun
<1> QED
    BY <1>1, <1>2

\* Lists with the same ids and parents, place by place.
SameShape(p, q) ==
    /\ DOMAIN p = DOMAIN q
    /\ \A i \in DOMAIN q : p[i].id = q[i].id /\ p[i].parent = q[i].parent

\* They are families together.
LEMMA ShapeIsAll ==
    ASSUME NEW p, NEW q, SameShape(p, q)
    PROVE  /\ DistinctIds(q) => DistinctIds(p)
           /\ Family(ToSet(q)) => Family(ToSet(p))
           /\ Ids(p) = Ids(q)
<1>1. /\ DOMAIN p = DOMAIN q
      /\ \A i \in DOMAIN q : p[i].id = q[i].id /\ p[i].parent = q[i].parent
      BY DEF SameShape
<1>2. DistinctIds(q) => DistinctIds(p)
      BY <1>1 DEF DistinctIds
<1>3. \A s \in ToSet(p) : \E t \in ToSet(q) : s.id = t.id /\ s.parent = t.parent
      BY <1>1 DEF ToSet
<1>4. \A t \in ToSet(q) : \E s \in ToSet(p) : s.id = t.id /\ s.parent = t.parent
      BY <1>1 DEF ToSet
<1>5. ASSUME Family(ToSet(q)) PROVE Family(ToSet(p))
  <2>1. \E r \in ToSet(p) : r.parent = NoSpan /\ r.id = RootId
        BY <1>4, <1>5 DEF Family
  <2>2. ASSUME NEW s \in ToSet(p), s.parent # NoSpan, s.parent # RootId
        PROVE  \E w \in ToSet(p) : w.parent = RootId /\ w.id = s.parent
    <3>1. PICK t \in ToSet(q) : s.id = t.id /\ s.parent = t.parent
          BY <1>3
    <3>2. PICK w \in ToSet(q) : w.parent = RootId /\ w.id = t.parent
          BY <1>5, <2>2, <3>1 DEF Family
    <3> QED
        BY <1>4, <3>1, <3>2
  <2> QED
      BY <2>1, <2>2 DEF Family
<1>6. \A x : x \in Ids(p) <=> x \in Ids(q)
      BY <1>3, <1>4 DEF Ids
<1> QED
    BY <1>2, <1>5, <1>6

-----------------------------------------------------------------------------
\* What the batch of a closed run is.
Closed(L) ==
    /\ L \in Nat /\ L > 1 /\ DOMAIN batch = 1..L
    /\ \A i \in 1..L : WellFormed(batch[i])
    /\ \A i \in 1..L : Ended(batch[i])
    /\ \A i \in 1..L : batch[i].parent = NoSpan <=> i = L
    /\ batch[L].id = RootId /\ batch[L].closed /\ IsAgent(batch[L])
    /\ batch[L].decisions # <<>>
    /\ \A i \in 1..L : i # L => \E p \in 1..L : Encloses(batch[p], batch[i])

\* It is that of a tree.
LEMMA ClosedFacts ==
    ASSUME EvidenceInv, phase = "closed", NEW L, L = Len(batch)
    PROVE  Closed(L)
<1>1. SpanInv /\ ShapeInv /\ PlaceInv
      BY DEF EvidenceInv
<1>2. PICK T : batch \in Seq(T)
      BY <1>1, BatchOrder
<1>3. L \in Nat /\ DOMAIN batch = 1..L
      BY <1>2
<1>4. \A i \in 1..L : WellFormed(batch[i]) /\ Ended(batch[i])
      BY <1>1, <1>3 DEF ShapeInv, SpanInv, BatchInv
<1>5. /\ L > 1 /\ batch[L].id = RootId
      /\ batch[L].parent = NoSpan /\ batch[L].decisions # <<>>
      /\ \A i \in 1..L : batch[i].parent = NoSpan => i = L
      BY <1>1, <1>3 DEF PlaceInv
<1>6. L \in 1..L
      BY <1>3, <1>5
<1>7. IsAgent(batch[L])
      BY <1>4, <1>5, <1>6 DEF WellFormed, NoSpan, RootId
<1>8. \A i \in 1..L : Parented(i)
      BY <1>1, <1>3 DEF SpanInv, TreeInv
<1>9. batch[L].closed
      BY <1>6, <1>8 DEF Parented
<1>10. \A i \in 1..L : i # L => \E p \in 1..L : Encloses(batch[p], batch[i])
       BY <1>3, <1>8 DEF Parented, Working
<1> QED
    BY <1>3, <1>4, <1>5, <1>6, <1>7, <1>9, <1>10 DEF Closed

\* Every span but the root's is a worker's, or hangs under one of a worker.
LEMMA Generations ==
    ASSUME NEW L, Closed(L), NEW i \in 1..L, i # L
    PROVE  \/ /\ batch[i].parent = RootId /\ IsAgent(batch[i])
              /\ Encloses(batch[L], batch[i])
           \/ /\ batch[i].parent > RootId /\ ~IsAgent(batch[i])
              /\ \E w \in 1..L : /\ w # L /\ batch[w].parent = RootId
                                 /\ Encloses(batch[w], batch[i])
<1>1. PICK p \in 1..L : Encloses(batch[p], batch[i])
      BY DEF Closed
<1>2. L \in 1..L
      BY DEF Closed
<1>3. /\ \A j \in 1..L : WellFormed(batch[j]) /\ Ended(batch[j])
      /\ batch[L].id = RootId /\ batch[L].parent = NoSpan
      BY <1>2 DEF Closed
<1>4. /\ batch[p].id = batch[i].parent /\ IsAgent(batch[p])
      BY <1>1 DEF Encloses
<1>5. batch[p].id \in Nat /\ RootId <= batch[p].id
      BY <1>3 DEF Ended
<1>6. CASE p = L
  <2>1. batch[i].parent = RootId
        BY <1>3, <1>4, <1>6
  <2>2. IsAgent(batch[i])
        BY <1>3, <2>1 DEF WellFormed, RootId
  <2> QED
      BY <1>1, <1>6, <2>1, <2>2
<1>7. CASE p # L
  <2>1. PICK q \in 1..L : Encloses(batch[q], batch[p])
        BY <1>7 DEF Closed
  <2>2. batch[q].id = batch[p].parent /\ batch[q].id \in Nat
        /\ RootId <= batch[q].id
        BY <1>3, <2>1 DEF Encloses, Ended
  <2>3. batch[p].parent <= RootId
        BY <1>3, <1>4 DEF WellFormed
  <2>4. batch[p].parent = RootId
        BY <2>2, <2>3 DEF RootId
  <2>5. batch[p].parent < batch[p].id
        BY <1>3 DEF Ended
  <2>6. batch[i].parent > RootId
        BY <1>4, <1>5, <2>4, <2>5 DEF RootId
  <2>7. ~IsAgent(batch[i])
        BY <1>3, <1>4, <1>5, <2>6 DEF WellFormed, RootId
  <2> QED
      BY <1>1, <1>7, <2>4, <2>6, <2>7
<1> QED
    BY <1>6, <1>7

\* The batch is a family.
LEMMA BatchFamily ==
    ASSUME NEW L, Closed(L)
    PROVE  Family(ToSet(batch))
<1>1. /\ L \in 1..L /\ DOMAIN batch = 1..L
      /\ batch[L].id = RootId /\ batch[L].parent = NoSpan
      BY DEF Closed
<1>2. \A i \in 1..L : batch[i] \in ToSet(batch)
      BY <1>1 DEF ToSet
<1>3. ASSUME NEW s \in ToSet(batch), s.parent # NoSpan, s.parent # RootId
      PROVE  \E w \in ToSet(batch) : w.parent = RootId /\ w.id = s.parent
  <2>1. PICK i \in 1..L : s = batch[i]
        BY <1>1 DEF ToSet
  <2>2. i # L
        BY <1>1, <1>3, <2>1
  <2>3. PICK w \in 1..L : batch[w].parent = RootId /\ Encloses(batch[w], batch[i])
        BY <1>3, <2>1, <2>2, Generations
  <2> QED
      BY <1>2, <2>1, <2>3 DEF Encloses
<1> QED
    BY <1>1, <1>2, <1>3 DEF Family

-----------------------------------------------------------------------------
\* A claim that is not established is a gap.
LEMMA GapsAre ==
    ASSUME NEW run
    PROVE  /\ ~RunRoot(run) => "run_root" \in Gaps(run)
           /\ ~ModelCorrelation(run) => "model_correlation" \in Gaps(run)
           /\ ~ToolPairing(run) => "tool_pairing" \in Gaps(run)
           /\ ~FinalAnswer(run) => "final_answer" \in Gaps(run)
           /\ ~TemporalNesting(run) => "temporal_nesting" \in Gaps(run)
           /\ ~TraceIntegrity(run) => "trace_integrity" \in Gaps(run)
           /\ ~run.closed => "trace_closed" \in Gaps(run)
           /\ ~CausalLinks(run) => "causal_links" \in Gaps(run)
BY DEF Gaps, Claims, Established

\* A span whose parent is not in the list is one.
LEMMA OrphanIsNamed ==
    ASSUME NEW T, NEW spans \in Seq(T), DistinctIds(spans),
           NEW run, run = Reconstruct(spans),
           NEW s \in ToSet(spans), s.parent # NoSpan, s.parent \notin Ids(spans)
    PROVE  "trace_integrity" \in Gaps(run)
<1>1. s \in run.missingParents
      BY MissingFacts
<1> QED
    BY <1>1, GapsAre DEF TraceIntegrity

\* A batch without its root: the workers have lost their parent.
LEMMA ParentIsNamed ==
    ASSUME EvidenceInv, phase = "closed",
           NEW run, run = Reconstruct(export("drop_parent", batch))
    PROVE  {"run_root", "trace_integrity"} \subseteq Gaps(run)
<1>1. PICK L : L = Len(batch)
      OBVIOUS
<1>2. Closed(L)
      BY <1>1, ClosedFacts
<1>3. PICK T : batch \in Seq(T)
      BY BatchOrder DEF EvidenceInv
<1>4. DistinctIds(batch)
      BY BatchOrder DEF EvidenceInv
<1>5. PICK S : S = {i \in DOMAIN batch :
                        ~(IsAgent(batch[i]) /\ batch[i].parent = NoSpan)}
      OBVIOUS
<1>6. PICK p : p = Picked(batch, S)
      OBVIOUS
<1>7. export("drop_parent", batch) = p
      BY <1>5, <1>6 DEF export, Dropping
<1>8. /\ p \in Seq(T) /\ DistinctIds(p)
      /\ ToSet(p) = {batch[i] : i \in S \cap DOMAIN batch}
      BY <1>3, <1>4, <1>6, PickedIds
<1>9. /\ DOMAIN batch = 1..L /\ L \in 1..L /\ L - 1 \in 1..L /\ L - 1 # L
      /\ batch[L].id = RootId /\ IsAgent(batch[L])
      /\ \A i \in 1..L : batch[i].parent = NoSpan <=> i = L
      /\ batch[L - 1].parent = RootId
      BY <1>1, <1>2 DEF Closed, EvidenceInv, PlaceInv
<1>10. S = {i \in 1..L : i # L}
       BY <1>5, <1>9
<1>11. \A s \in ToSet(p) : s.parent # NoSpan /\ s.id # RootId
  <2> SUFFICES ASSUME NEW i \in 1..L, i # L
               PROVE  batch[i].parent # NoSpan /\ batch[i].id # RootId
      BY <1>8, <1>10
  <2> QED
      BY <1>4, <1>9 DEF DistinctIds
<1>12. PICK w \in ToSet(p) : w.parent = RootId
       BY <1>8, <1>9, <1>10
<1>13. w.parent # NoSpan /\ w.parent \notin Ids(p)
       BY <1>11, <1>12 DEF Ids
<1>14. "trace_integrity" \in Gaps(run)
       BY <1>7, <1>8, <1>13, OrphanIsNamed
<1>15. run.root \in ToSet(p)
       BY <1>7, <1>8, <1>13, RootIsThere
<1>16. ~RunRoot(run)
       BY <1>11, <1>15 DEF RunRoot
<1> QED
    BY <1>14, <1>16, GapsAre

\* A batch without its workers: their turns and tools have lost their parent.
LEMMA ChildIsNamed ==
    ASSUME EvidenceInv, phase = "closed",
           NEW run, run = Reconstruct(export("drop_child", batch))
    PROVE  "trace_integrity" \in Gaps(run)
<1>1. PICK L : L = Len(batch)
      OBVIOUS
<1>2. Closed(L)
      BY <1>1, ClosedFacts
<1>3. PICK T : batch \in Seq(T)
      BY BatchOrder DEF EvidenceInv
<1>4. DistinctIds(batch)
      BY BatchOrder DEF EvidenceInv
<1>5. PICK S : S = {i \in DOMAIN batch :
                        ~(IsAgent(batch[i]) /\ batch[i].parent # NoSpan)}
      OBVIOUS
<1>6. PICK p : p = Picked(batch, S)
      OBVIOUS
<1>7. export("drop_child", batch) = p
      BY <1>5, <1>6 DEF export, Dropping
<1>8. /\ p \in Seq(T) /\ DistinctIds(p)
      /\ ToSet(p) = {batch[i] : i \in S \cap DOMAIN batch}
      BY <1>3, <1>4, <1>6, PickedIds
<1>9. /\ DOMAIN batch = 1..L /\ L - 1 \in 1..L /\ L - 1 # L /\ L \in Nat
      /\ batch[L - 1].parent = RootId
      /\ \A i \in 1..L : WellFormed(batch[i]) /\ Ended(batch[i])
      BY <1>1, <1>2 DEF Closed, EvidenceInv, PlaceInv
<1>10. PICK c \in 1..L : batch[c].parent = batch[L - 1].id
  <2>1. L - 1 > 1 /\ batch[(L - 1) - 1].parent = batch[L - 1].id
        BY <1>9 DEF EvidenceInv, PlaceInv
  <2>2. (L - 1) - 1 \in 1..L
        BY <1>9, <2>1
  <2> QED
      BY <2>1, <2>2
<1>11. IsAgent(batch[L - 1]) /\ batch[L - 1].parent # NoSpan
       BY <1>9 DEF WellFormed, RootId, NoSpan
<1>12. batch[c].parent > RootId
       BY <1>9, <1>10 DEF Ended, RootId
<1>13. ~IsAgent(batch[c]) /\ batch[c].parent # NoSpan
       BY <1>9, <1>12 DEF WellFormed, RootId, NoSpan, Ended
<1>14. batch[c] \in ToSet(p)
       BY <1>5, <1>8, <1>9, <1>13
<1>15. batch[c].parent \notin Ids(p)
  <2> SUFFICES ASSUME NEW i \in S, batch[i].id = batch[L - 1].id PROVE FALSE
      BY <1>5, <1>8, <1>10 DEF Ids
  <2>1. i = L - 1
        BY <1>4, <1>5, <1>9 DEF DistinctIds
  <2> QED
      BY <1>5, <1>11, <2>1
<1> QED
    BY <1>7, <1>8, <1>13, <1>14, <1>15, OrphanIsNamed

\* A span that is sent twice.
LEMMA RepeatIsNamed ==
    ASSUME NEW T, NEW b \in Seq(T), b # <<>>,
           NEW run, run = Reconstruct(Append(b, b[Len(b)]))
    PROVE  "trace_integrity" \in Gaps(run)
<1>1. PICK n \in Nat : n = Len(b) /\ DOMAIN b = 1..n
      OBVIOUS
<1>2. n \in 1..n /\ b[n] \in T
      BY <1>1
<1>3. PICK p : p = Append(b, b[n])
      OBVIOUS
<1>4. /\ p \in Seq(T) /\ Len(p) = n + 1 /\ p[n + 1] = b[n]
      /\ \A k \in 1..n : p[k] = b[k]
      BY <1>1, <1>2, <1>3, Appended
<1>5. /\ n \in 1..(n + 1) - 1 /\ p[n].id = p[n + 1].id
      /\ n + 1 \in DOMAIN p
      BY <1>2, <1>4
<1>6. n + 1 \notin Kept(p)
      BY <1>5 DEF Kept
<1>0. run = Reconstruct(p)
      BY <1>1, <1>3
<1>7. run.duplicates = {p[i].id : i \in DOMAIN p \ Kept(p)}
      BY <1>0, <1>4, RunFacts
<1>8. p[n + 1].id \in run.duplicates
      BY <1>5, <1>6, <1>7
<1> QED
    BY <1>8, GapsAre DEF TraceIntegrity

-----------------------------------------------------------------------------
\* Faults, one by one.

\* The batch of a closed run, as the lemmas about lists want it.
LEMMA ClosedBatch ==
    ASSUME EvidenceInv, phase = "closed"
    PROVE  /\ \E T : batch \in Seq(T)
           /\ DistinctIds(batch) /\ DistinctStarts(ToSet(batch))
           /\ Family(ToSet(batch))
           /\ Closed(Len(batch))
           /\ \A i \in DOMAIN batch : WellFormed(batch[i]) /\ Ended(batch[i])
<1>1. SpanInv
      BY DEF EvidenceInv
<1>2. PICK L : L = Len(batch)
      OBVIOUS
<1>3. Closed(L)
      BY <1>2, ClosedFacts
<1>4. Family(ToSet(batch))
      BY <1>3, BatchFamily
<1>5. \A i \in DOMAIN batch : WellFormed(batch[i]) /\ Ended(batch[i])
      BY <1>3 DEF Closed
<1> QED
    BY <1>1, <1>2, <1>3, <1>4, <1>5, BatchOrder

\* The least of a set of positions.
LEMMA LeastHit ==
    ASSUME NEW S \in SUBSET Nat, S # {}, NEW m, m = Min(S)
    PROVE  m \in S /\ \A i \in S : m <= i
BY LeastNumber DEF Min

IsChange(p, b, m, x) == p = [b EXCEPT ![m] = x]

\* A list with one entry replaced.
LEMMA OneChanged ==
    ASSUME NEW T, NEW b \in Seq(T), NEW m \in DOMAIN b, NEW x,
           NEW p, IsChange(p, b, m, x)
    PROVE  /\ \E U : p \in Seq(U)
           /\ DOMAIN p = DOMAIN b
           /\ p[m] = x
           /\ \A i \in DOMAIN b : i # m => p[i] = b[i]
           /\ x \in ToSet(p)
           /\ \A s \in ToSet(p) : s = x \/ s \in ToSet(b)
<1>1. PICK n \in Nat : n = Len(b) /\ DOMAIN b = 1..n
      OBVIOUS
<1>2. /\ DOMAIN p = 1..n /\ p[m] = x
      /\ \A i \in 1..n : i # m => p[i] = b[i]
      BY <1>1 DEF IsChange
<1>3. PICK U : U = T \cup {x}
      OBVIOUS
<1>4. \A i \in 1..n : p[i] \in U
      BY <1>1, <1>2, <1>3
<1>0. p = [i \in 1..n |-> p[i]]
      BY <1>1 DEF IsChange
<1>5. p \in [1..n -> U]
      BY <1>0, <1>4
<1>6. p \in Seq(U)
      BY <1>5, IsASeq
<1>7. x \in ToSet(p) /\ \A s \in ToSet(p) : s = x \/ s \in ToSet(b)
      BY <1>1, <1>2 DEF ToSet
<1> QED
    BY <1>1, <1>2, <1>6, <1>7

\* A list of the same shape as a family is a run of all its spans.
LEMMA WholeChange ==
    ASSUME NEW U, NEW p \in Seq(U), NEW q, SameShape(p, q), DistinctIds(q),
           Family(ToSet(q)), NEW run, run = Reconstruct(p)
    PROVE  StepsOf(run) = ToSet(p) /\ DistinctIds(p) /\ Ids(p) = Ids(q)
<1>1. DistinctIds(p) /\ Family(ToSet(p)) /\ Ids(p) = Ids(q)
      BY ShapeIsAll
<1> QED
    BY <1>1, FamilyRun

-----------------------------------------------------------------------------
\* The last span is sent twice.
LEMMA DuplicateIsNamed ==
    ASSUME EvidenceInv, phase = "closed",
           NEW run, run = Reconstruct(export("duplicate_span", batch))
    PROVE  "trace_integrity" \in Gaps(run)
<1>1. PICK T : batch \in Seq(T)
      BY ClosedBatch
<1>0. Len(batch) \in Nat /\ Len(batch) > 1
      BY ClosedBatch DEF Closed
<1>2. batch # <<>>
      BY <1>0, <1>1
<1>3. run = Reconstruct(Append(batch, batch[Len(batch)]))
      BY DEF export
<1> QED
    BY <1>1, <1>2, <1>3, RepeatIsNamed

\* No span is final.
LEMMA FinalIsNamed ==
    ASSUME EvidenceInv, phase = "closed",
           NEW run, run = Reconstruct(export("truncate_final", batch))
    PROVE  "final_answer" \in Gaps(run)
<1>1. PICK p : p = export("truncate_final", batch)
      OBVIOUS
<1>2. p = [i \in DOMAIN batch |-> [batch[i] EXCEPT
              !.final = FALSE, !.output = "none", !.contract = FALSE]]
      BY <1>1 DEF export, truncate_final_markers, ChangeAll
<1>3. PICK T : batch \in Seq(T)
      BY ClosedBatch
<1>4. PICK n \in Nat : n = Len(batch) /\ DOMAIN batch = 1..n
      BY <1>3
<1>5. \A i \in 1..n : ~p[i].final
  <2> SUFFICES ASSUME NEW i \in 1..n PROVE ~p[i].final
      OBVIOUS
  <2>1. IsARecord(batch[i])
        BY <1>4, ClosedBatch DEF WellFormed
  <2>2. "final" \in DOMAIN batch[i]
        BY <2>1 DEF IsARecord, Fields
  <2> QED
      BY <1>2, <1>4, <2>2
<1>6. PICK U : U = {p[i] : i \in 1..n}
      OBVIOUS
<1>7. p \in [1..n -> U]
      BY <1>2, <1>4, <1>6
<1>8. p \in Seq(U) /\ DOMAIN p = 1..n
      BY <1>7, IsASeq
<1>9. run = Reconstruct(p)
      BY <1>1
<1>10. StepsOf(run) \subseteq ToSet(p)
       BY <1>8, <1>9, RunFacts
<1>11. \A s \in StepsOf(run) : ~s.final
       BY <1>5, <1>8, <1>10 DEF ToSet
<1> QED
    BY <1>11, GapsAre DEF FinalAnswer

\* No root is marked as closed.
LEMMA ClosedIsNamed ==
    ASSUME EvidenceInv, phase = "closed",
           NEW run, run = Reconstruct(export("truncate_closed", batch))
    PROVE  "trace_closed" \in Gaps(run)
<1>1. PICK p : p = export("truncate_closed", batch)
      OBVIOUS
<1>2. p = [i \in DOMAIN batch |-> [batch[i] EXCEPT !.closed = FALSE]]
      BY <1>1 DEF export, truncate_closed_marker, ChangeAll
<1>3. PICK T : batch \in Seq(T)
      BY ClosedBatch
<1>4. PICK n \in Nat : n = Len(batch) /\ DOMAIN batch = 1..n
      BY <1>3
<1>5. \A i \in 1..n : ~p[i].closed /\ p[i].id = batch[i].id
  <2> SUFFICES ASSUME NEW i \in 1..n
               PROVE  ~p[i].closed /\ p[i].id = batch[i].id
      OBVIOUS
  <2>1. IsARecord(batch[i])
        BY <1>4, ClosedBatch DEF WellFormed
  <2>2. "closed" \in DOMAIN batch[i] /\ "id" \in DOMAIN batch[i]
        BY <2>1 DEF IsARecord, Fields
  <2> QED
      BY <1>2, <1>4, <2>2
<1>6. PICK U : U = {p[i] : i \in 1..n}
      OBVIOUS
<1>7. p \in [1..n -> U]
      BY <1>2, <1>4, <1>6
<1>8. p \in Seq(U) /\ DOMAIN p = 1..n
      BY <1>7, IsASeq
<1>9. run = Reconstruct(p)
      BY <1>1
<1>10. DistinctIds(p)
       BY <1>4, <1>5, <1>8, ClosedBatch DEF DistinctIds
<1>11. \A s \in ToSet(p) : ~s.closed
       BY <1>5, <1>8 DEF ToSet
<1>12. ~run.closed
       BY <1>8, <1>9, <1>10, <1>11, MissingFacts
<1> QED
    BY <1>12, GapsAre

-----------------------------------------------------------------------------
\* One field of a span changed leaves the other fields alone.
LEMMA FieldsKept ==
    ASSUME NEW s, IsARecord(s)
    PROVE  /\ \A x : LET t == [s EXCEPT !.callId = x]
                     IN  /\ t.callId = x
                         /\ t.name = s.name /\ t.id = s.id
                         /\ t.parent = s.parent
           /\ \A x : LET t == [s EXCEPT !.system = x]
                     IN  /\ t.system = x
                         /\ t.name = s.name /\ t.id = s.id
                         /\ t.parent = s.parent
           /\ \A x : LET t == [s EXCEPT !.links = x]
                     IN  /\ t.links = x
                         /\ t.name = s.name /\ t.id = s.id
                         /\ t.parent = s.parent
                         /\ t.start = s.start /\ t.end = s.end
           /\ \A x, y : LET t == [s EXCEPT !.start = x, !.end = y]
                        IN  /\ t.start = x /\ t.end = y
                            /\ t.id = s.id /\ t.parent = s.parent
<1>1. Fields \subseteq DOMAIN s
      BY DEF IsARecord
<1>2. {"callId", "name", "id", "parent", "system", "links", "start", "end"}
          \subseteq DOMAIN s
      BY <1>1 DEF Fields
<1> QED
    BY <1>2

\* The tool calls of a run are those of its steps that are tool spans.
LEMMA ToolCallsAre ==
    ASSUME NEW T, NEW spans \in Seq(T), NEW run, run = Reconstruct(spans),
           NEW tools, tools = ToolCalls(run)
    PROVE  ToSet(tools) = {s \in StepsOf(run) : IsTool(s)}
<1>1. PICK steps : steps = run.steps
      OBVIOUS
<1>2. steps \in Seq(ToSet(spans))
      BY <1>1, RunFacts
<1>3. PICK S : S = {i \in DOMAIN steps : IsTool(steps[i])}
      OBVIOUS
<1>4. tools = Picked(steps, S)
      BY <1>1, <1>3 DEF ToolCalls
<1>5. ToSet(tools) = {steps[i] : i \in S \cap DOMAIN steps}
      BY <1>2, <1>4, PickedFacts
<1> QED
    BY <1>1, <1>3, <1>5 DEF StepsOf, ToSet

\* A turn that asked for a call no tool span answers.
LEMMA CallIsMissed ==
    ASSUME NEW T, NEW spans \in Seq(T), NEW run, run = Reconstruct(spans),
           NEW c \in StepsOf(run), IsChat(c), NEW id \in ToSet(c.calls),
           \A t \in ToSet(spans) : IsTool(t) => t.callId # id
    PROVE  "tool_pairing" \in Gaps(run)
<1>1. PICK tools : tools = ToolCalls(run)
      OBVIOUS
<1>2. ToSet(tools) = {s \in StepsOf(run) : IsTool(s)}
      BY <1>1, ToolCallsAre
<1>3. StepsOf(run) \subseteq ToSet(spans)
      BY RunFacts
<1>4. \A i \in DOMAIN tools : tools[i].callId # id
      BY <1>2, <1>3 DEF ToSet
<1>5. ~ToolPairing(run)
      BY <1>1, <1>4 DEF ToolPairing
<1> QED
    BY <1>5, GapsAre

\* A family stays one without the spans that nothing hangs from.
LEMMA FamilyWithout ==
    ASSUME NEW V, Family(V), NEW W, W \subseteq V,
           \A s \in V : s.parent = NoSpan \/ s.parent = RootId => s \in W
    PROVE  Family(W)
BY DEF Family

\* No tool span is sent, and there was one.
LEMMA ToolIsNamed ==
    ASSUME EvidenceInv, phase = "closed",
           export("drop_tool_result", batch) # batch,
           NEW run, run = Reconstruct(export("drop_tool_result", batch))
    PROVE  "tool_pairing" \in Gaps(run)
<1>1. PICK T : batch \in Seq(T)
      BY ClosedBatch
<1>2. /\ DistinctIds(batch) /\ Family(ToSet(batch))
      /\ \A i \in DOMAIN batch : WellFormed(batch[i])
      BY ClosedBatch
<1>3. PICK S : S = {i \in DOMAIN batch : ~IsTool(batch[i])}
      OBVIOUS
<1>4. PICK p : p = Picked(batch, S)
      OBVIOUS
<1>5. export("drop_tool_result", batch) = p
      BY <1>3, <1>4 DEF export, Dropping
<1>6. /\ p \in Seq(T) /\ DistinctIds(p)
      /\ ToSet(p) = {batch[i] : i \in S \cap DOMAIN batch}
      BY <1>1, <1>2, <1>4, PickedIds
<1>7. PICK t \in DOMAIN batch : IsTool(batch[t])
      BY <1>1, <1>3, <1>4, <1>5, PickedAll
<1>8. PICK c \in DOMAIN batch : Declares(c, batch[t].callId)
      BY <1>7 DEF EvidenceInv, DeclaredInv, ToolSpans
<1>9. IsChat(batch[c]) /\ batch[t].callId \in ToSet(batch[c].calls)
      BY <1>8 DEF Declares
<1>10. batch[c] \in ToSet(p)
       BY <1>3, <1>6, <1>9, OneKind
<1>11. Family(ToSet(p))
  <2>1. ToSet(p) \subseteq ToSet(batch)
        BY <1>6 DEF ToSet
  <2>2. ASSUME NEW i \in DOMAIN batch,
               batch[i].parent = NoSpan \/ batch[i].parent = RootId
        PROVE  batch[i] \in ToSet(p)
    <3>1. IsAgent(batch[i])
          BY <1>2, <2>2 DEF WellFormed, NoSpan, RootId
    <3>2. ~IsTool(batch[i])
          BY <3>1 DEF IsAgent, IsTool
    <3> QED
        BY <1>3, <1>6, <3>2
  <2> QED
      BY <1>2, <2>1, <2>2, FamilyWithout DEF ToSet
<1>12. StepsOf(run) = ToSet(p)
       BY <1>5, <1>6, <1>11, FamilyRun
<1>13. \A s \in ToSet(p) : ~IsTool(s)
       BY <1>3, <1>6
<1> QED
    BY <1>5, <1>6, <1>9, <1>10, <1>12, <1>13, CallIsMissed

\* A tool span answers to an id that nobody called.
LEMMA MismatchIsNamed ==
    ASSUME EvidenceInv, phase = "closed", UniqueIds,
           export("mismatch_tool_id", batch) # batch,
           NEW run, run = Reconstruct(export("mismatch_tool_id", batch))
    PROVE  "tool_pairing" \in Gaps(run)
<1>1. PICK T : batch \in Seq(T)
      BY ClosedBatch
<1>2. /\ DistinctIds(batch) /\ Family(ToSet(batch))
      /\ \A i \in DOMAIN batch : WellFormed(batch[i])
      BY ClosedBatch
<1>3. PICK S : S = {i \in DOMAIN batch : IsTool(batch[i])}
      OBVIOUS
<1>4. PICK m : m = Min(S)
      OBVIOUS
<1>5. PICK p : p = export("mismatch_tool_id", batch)
      OBVIOUS
<1>6. IF S = {} THEN p = batch
      ELSE IsChange(p, batch, m, [batch[m] EXCEPT !.callId = ForgedCall])
      BY <1>3, <1>4, <1>5
         DEF export, rewrite_first_tool_id, ChangeFirst, IsChange
<1>7. m \in S
  <2>1. S \in SUBSET Nat
        BY <1>1, <1>3
  <2> QED
      BY <1>4, <1>5, <1>6, <2>1, LeastHit
<1>8. m \in DOMAIN batch /\ IsTool(batch[m])
      BY <1>3, <1>7
<1>9. PICK x : x = [batch[m] EXCEPT !.callId = ForgedCall]
      OBVIOUS
<1>10. x.callId = ForgedCall /\ x.id = batch[m].id /\ x.parent = batch[m].parent
       BY <1>2, <1>8, <1>9, FieldsKept DEF WellFormed
<1>11. IsChange(p, batch, m, x)
       BY <1>6, <1>7, <1>9
<1>12. /\ \E U : p \in Seq(U)
       /\ DOMAIN p = DOMAIN batch /\ p[m] = x
       /\ \A i \in DOMAIN batch : i # m => p[i] = batch[i]
       BY <1>1, <1>8, <1>11, OneChanged
<1>13. SameShape(p, batch)
       BY <1>10, <1>12 DEF SameShape
<1>14. PICK U : p \in Seq(U)
       BY <1>12
<1>15. run = Reconstruct(p)
       BY <1>5
<1>16. StepsOf(run) = ToSet(p)
       BY <1>2, <1>13, <1>14, <1>15, WholeChange
<1>17. PICK id : id = batch[m].callId
       OBVIOUS
<1>18. PICK c \in DOMAIN batch : Declares(c, id)
       BY <1>8, <1>17 DEF EvidenceInv, DeclaredInv, ToolSpans
<1>19. IsChat(batch[c]) /\ id \in ToSet(batch[c].calls)
       BY <1>18 DEF Declares
<1>20. c # m
       BY <1>8, <1>19, OneKind
<1>21. p[c] \in StepsOf(run) /\ p[c] = batch[c]
       BY <1>12, <1>16, <1>20 DEF ToSet
<1>22. \A i, j \in DOMAIN batch :
           IsTool(batch[i]) /\ IsTool(batch[j])
               /\ batch[i].callId = batch[j].callId => i = j
       BY DEF EvidenceInv, FreshInv, ToolSpans
<1>23. id # ForgedCall
  <2>1. id \in Numbers
        BY <1>8, <1>17 DEF EvidenceInv, FreshInv, ToolSpans, SoFar
  <2>2. id[1] \in Nat
        BY <2>1 DEF Numbers
  <2>3. ForgedCall[1] = -1
        BY DEF ForgedCall
  <2> QED
      BY <2>2, <2>3
<1>24. \A t \in ToSet(p) : IsTool(t) => t.callId # id
  <2> SUFFICES ASSUME NEW i \in DOMAIN batch, IsTool(p[i]), p[i].callId = id
               PROVE  FALSE
      BY <1>12 DEF ToSet
  <2>1. CASE i = m
        BY <1>10, <1>12, <1>23, <2>1
  <2>2. CASE i # m
    <3>1. p[i] = batch[i]
          BY <1>12, <2>2
    <3> QED
        BY <1>8, <1>17, <1>22, <2>2, <3>1
  <2> QED
      BY <2>1, <2>2
<1> QED
    BY <1>14, <1>15, <1>19, <1>21, <1>24, CallIsMissed

\* A turn that does not say which provider answered.
LEMMA AttributeIsNamed ==
    ASSUME EvidenceInv, phase = "closed",
           export("drop_attribute", batch) # batch,
           NEW run, run = Reconstruct(export("drop_attribute", batch))
    PROVE  "model_correlation" \in Gaps(run)
<1>1. PICK T : batch \in Seq(T)
      BY ClosedBatch
<1>2. /\ DistinctIds(batch) /\ Family(ToSet(batch))
      /\ \A i \in DOMAIN batch : WellFormed(batch[i])
      BY ClosedBatch
<1>3. PICK S : S = {i \in DOMAIN batch : IsChat(batch[i])}
      OBVIOUS
<1>4. PICK m : m = Min(S)
      OBVIOUS
<1>5. PICK p : p = export("drop_attribute", batch)
      OBVIOUS
<1>6. IF S = {} THEN p = batch
      ELSE IsChange(p, batch, m, [batch[m] EXCEPT !.system = FALSE])
      BY <1>3, <1>4, <1>5
         DEF export, drop_required_attribute, ChangeFirst, IsChange
<1>7. m \in S
  <2>1. S \in SUBSET Nat
        BY <1>1, <1>3
  <2> QED
      BY <1>4, <1>5, <1>6, <2>1, LeastHit
<1>8. m \in DOMAIN batch /\ IsChat(batch[m])
      BY <1>3, <1>7
<1>9. PICK x : x = [batch[m] EXCEPT !.system = FALSE]
      OBVIOUS
<1>10. /\ ~x.system /\ x.name = batch[m].name
       /\ x.id = batch[m].id /\ x.parent = batch[m].parent
       BY <1>2, <1>8, <1>9, FieldsKept DEF WellFormed
<1>11. IsChange(p, batch, m, x)
       BY <1>6, <1>7, <1>9
<1>12. /\ \E U : p \in Seq(U)
       /\ DOMAIN p = DOMAIN batch /\ p[m] = x
       /\ \A i \in DOMAIN batch : i # m => p[i] = batch[i]
       /\ x \in ToSet(p)
       BY <1>1, <1>8, <1>11, OneChanged
<1>13. SameShape(p, batch)
       BY <1>10, <1>12 DEF SameShape
<1>14. PICK U : p \in Seq(U)
       BY <1>12
<1>15. run = Reconstruct(p)
       BY <1>5
<1>16. StepsOf(run) = ToSet(p)
       BY <1>2, <1>13, <1>14, <1>15, WholeChange
<1>17. IsChat(x)
       BY <1>8, <1>10 DEF IsChat
<1>18. ~ModelCorrelation(run)
       BY <1>10, <1>12, <1>16, <1>17 DEF ModelCorrelation
<1> QED
    BY <1>18, GapsAre

-----------------------------------------------------------------------------
\* One of finitely many numbers is the greatest.
LEMMA GreatestNumber ==
    ASSUME NEW n \in Nat, n > 0, NEW e, \A i \in 1..n : e[i] \in Int
    PROVE  \E x \in 1..n : \A y \in 1..n : e[y] <= e[x]
<1> DEFINE H == {i \in Nat : i = 0 \/ i \notin 1..n \/
                     \E x \in 1..i : \A y \in 1..i : e[y] <= e[x]}
<1>1. 0 \in H
      OBVIOUS
<1>2. ASSUME NEW i \in 1..n, i - 1 \in H PROVE i \in H
  <2>1. CASE i = 1
    <3>1. \A y \in 1..i : y = 1
          BY <2>1
    <3>2. 1 \in 1..i /\ e[1] \in Int
          BY <2>1
    <3> QED
        BY <3>1, <3>2
  <2>2. CASE i # 1
    <3>1. i - 1 \in 1..n /\ i - 1 # 0 /\ i \in Nat
          BY <2>2
    <3>2. PICK x \in 1..i - 1 : \A y \in 1..i - 1 : e[y] <= e[x]
          BY <1>2, <3>1
    <3>3. /\ \A y \in 1..i : y = i \/ y \in 1..i - 1
          /\ \A y \in 1..i : e[y] \in Int
          /\ i \in 1..i /\ x \in 1..i
          BY <3>1
    <3>4. CASE e[i] <= e[x]
          BY <3>1, <3>2, <3>3, <3>4
    <3>5. CASE ~(e[i] <= e[x])
      <4>1. \A y \in 1..i : e[y] <= e[i]
            BY <3>2, <3>3, <3>5
      <4> QED
          BY <3>1, <3>3, <4>1
    <3> QED
        BY <3>4, <3>5
  <2> QED
      BY <2>1, <2>2
<1> HIDE DEF H
<1>3. n \in H
  <2>1. \A i \in 0..n : i \in H
        BY <1>1, <1>2, UpTo
  <2> QED
      BY <2>1
<1> QED
    BY <1>3 DEF H

\* So every span ends before a moment later than all ends.
LEMMA LastEnd ==
    ASSUME NEW T, NEW b \in Seq(T), b # <<>>, \A i \in DOMAIN b : b[i].end \in Int,
           NEW m, m = Max({b[i].end : i \in DOMAIN b})
    PROVE  m \in Int /\ \A i \in DOMAIN b : b[i].end <= m
<1>1. PICK n \in Nat : n = Len(b) /\ DOMAIN b = 1..n /\ n > 0
      OBVIOUS
<1>2. PICK e : e = [i \in 1..n |-> b[i].end]
      OBVIOUS
<1>3. PICK x \in 1..n : \A y \in 1..n : e[y] <= e[x]
      BY <1>1, <1>2, GreatestNumber
<1>4. PICK E : E = {b[i].end : i \in DOMAIN b}
      OBVIOUS
<1>5. e[x] \in E /\ \A v \in E : e[x] >= v
      BY <1>1, <1>2, <1>3, <1>4
<1>6. m \in E /\ \A v \in E : m >= v
      BY <1>4, <1>5 DEF Max
<1> QED
    BY <1>4, <1>6

\* Two spans of a run, one the other's parent, that do not nest.
LEMMA ParentIsLeft ==
    ASSUME NEW T, NEW spans \in Seq(T), NEW run, run = Reconstruct(spans),
           StepsOf(run) = ToSet(spans),
           NEW s \in ToSet(spans), NEW p \in ToSet(spans),
           s.parent = p.id, s.end \in Int, p.end \in Int, p.end < s.end
    PROVE  "temporal_nesting" \in Gaps(run)
<1>1. ~(s.end <= p.end)
      OBVIOUS
<1>2. ~TemporalNesting(run)
      BY <1>1 DEF TemporalNesting
<1> QED
    BY <1>2, GapsAre

\* The first span with a parent, in whatever order, comes after its parent.
LEMMA LateIsNamed ==
    ASSUME EvidenceInv, phase = "closed",
           NEW T, NEW q \in Seq(T), ToSet(q) = ToSet(batch), DistinctIds(q),
           NEW run, run = Reconstruct(move_first_child_late(q))
    PROVE  "temporal_nesting" \in Gaps(run)
<1>1. Closed(Len(batch)) /\ Family(ToSet(q))
      BY ClosedBatch
<1>2. PICK L : L = Len(batch)
      OBVIOUS
<1>3. /\ L \in Nat /\ L > 1 /\ DOMAIN batch = 1..L
      /\ \A i \in 1..L : WellFormed(batch[i]) /\ Ended(batch[i])
      /\ \A i \in 1..L : batch[i].parent = NoSpan <=> i = L
      BY <1>1, <1>2 DEF Closed
<1>4. \A k \in DOMAIN q : \E i \in 1..L : q[k] = batch[i]
      BY <1>3 DEF ToSet
<1>5. \A k \in DOMAIN q : WellFormed(q[k]) /\ Ended(q[k])
      BY <1>3, <1>4
<1>6. PICK S : S = {k \in DOMAIN q : q[k].parent # NoSpan}
      OBVIOUS
<1>7. PICK m : m = Min(S)
      OBVIOUS
<1>8. m \in DOMAIN q /\ q[m].parent # NoSpan
  <2>1. L - 1 \in 1..L /\ L - 1 # L
        BY <1>3
  <2>2. batch[L - 1] \in ToSet(q) /\ batch[L - 1].parent # NoSpan
        BY <1>3, <2>1 DEF ToSet
  <2>3. S # {}
        BY <1>6, <2>2 DEF ToSet
  <2>4. S \in SUBSET Nat
        BY <1>6
  <2> QED
      BY <1>6, <1>7, <2>3, <2>4, LeastHit
<1>9. PICK M : M = Max({q[i].end : i \in DOMAIN q})
      OBVIOUS
<1>10. M \in Int /\ \A i \in DOMAIN q : q[i].end <= M
  <2>1. q # <<>> /\ \A i \in DOMAIN q : q[i].end \in Int
        BY <1>5, <1>8 DEF Ended
  <2> QED
      BY <1>9, <2>1, LastEnd
<1>11. PICK e : e = (M + 1) + (q[m].end - q[m].start)
       OBVIOUS
<1>12. PICK x : x = [q[m] EXCEPT !.start = M + 1, !.end = e]
       OBVIOUS
<1>13. x.end = e /\ x.id = q[m].id /\ x.parent = q[m].parent
       BY <1>5, <1>8, <1>12, FieldsKept DEF WellFormed
<1>14. PICK p : p = move_first_child_late(q)
       OBVIOUS
<1>15. IsChange(p, q, m, x)
       BY <1>6, <1>7, <1>8, <1>9, <1>11, <1>12, <1>14
          DEF move_first_child_late, ChangeFirst, IsChange
<1>16. /\ \E U : p \in Seq(U)
       /\ DOMAIN p = DOMAIN q /\ p[m] = x
       /\ \A i \in DOMAIN q : i # m => p[i] = q[i]
       /\ x \in ToSet(p)
       BY <1>8, <1>15, OneChanged
<1>17. SameShape(p, q)
       BY <1>13, <1>16 DEF SameShape
<1>18. PICK U : p \in Seq(U)
       BY <1>16
<1>19. run = Reconstruct(p)
       BY <1>14
<1>20. StepsOf(run) = ToSet(p)
       BY <1>1, <1>17, <1>18, <1>19, WholeChange
<1>21. PICK k \in DOMAIN q : q[k].id = q[m].parent
  <2>1. PICK i \in 1..L : q[m] = batch[i]
        BY <1>4, <1>8
  <2>2. i # L
        BY <1>3, <1>8, <2>1
  <2>3. PICK w \in 1..L : Encloses(batch[w], batch[i])
        BY <1>1, <1>2, <2>2 DEF Closed
  <2>4. batch[w] \in ToSet(q) /\ batch[w].id = q[m].parent
        BY <1>3, <2>1, <2>3 DEF ToSet, Encloses
  <2> QED
      BY <2>4 DEF ToSet
<1>22. k # m
  <2>1. q[m].parent < q[m].id /\ q[m].id \in Int /\ q[m].parent \in Int
        BY <1>5, <1>8 DEF Ended
  <2> QED
      BY <1>21, <2>1
<1>23. p[k] = q[k] /\ p[k] \in ToSet(p)
       BY <1>16, <1>21, <1>22 DEF ToSet
<1>24. e \in Int /\ q[k].end \in Int /\ q[k].end < e
  <2>1. /\ q[k].end \in Int /\ q[m].end \in Int /\ q[m].start \in Int
        /\ q[m].start < q[m].end /\ q[k].end <= M
        BY <1>5, <1>8, <1>10, <1>21 DEF Ended
  <2> QED
      BY <1>10, <1>11, <2>1
<1> QED
    BY <1>13, <1>16, <1>18, <1>19, <1>20, <1>21, <1>23, <1>24, ParentIsLeft

-----------------------------------------------------------------------------
\* The first link of the batch leads nowhere.
LEMMA OrphanLinkIsNamed ==
    ASSUME EvidenceInv, phase = "closed",
           export("orphan_link_target", batch) # batch,
           NEW run, run = Reconstruct(export("orphan_link_target", batch))
    PROVE  "trace_integrity" \in Gaps(run)
<1>1. PICK T : batch \in Seq(T)
      BY ClosedBatch
<1>2. /\ DistinctIds(batch) /\ Family(ToSet(batch))
      /\ \A i \in DOMAIN batch : WellFormed(batch[i]) /\ Ended(batch[i])
      BY ClosedBatch
<1>3. PICK S : S = {i \in DOMAIN batch : batch[i].links # <<>>}
      OBVIOUS
<1>4. PICK m : m = Min(S)
      OBVIOUS
<1>5. PICK p : p = export("orphan_link_target", batch)
      OBVIOUS
<1>6. IF S = {} THEN p = batch
      ELSE IsChange(p, batch, m, [batch[m] EXCEPT !.links =
                                     [batch[m].links EXCEPT ![1] = ForeignSpan]])
      BY <1>3, <1>4, <1>5
         DEF export, orphan_first_link, ChangeFirst, IsChange
<1>7. m \in S
  <2>1. S \in SUBSET Nat
        BY <1>1, <1>3
  <2> QED
      BY <1>4, <1>5, <1>6, <2>1, LeastHit
<1>8. m \in DOMAIN batch /\ batch[m].links # <<>>
      BY <1>3, <1>7
<1>9. PICK links : links = [batch[m].links EXCEPT ![1] = ForeignSpan]
      OBVIOUS
<1>10. PICK x : x = [batch[m] EXCEPT !.links = links]
       OBVIOUS
<1>11. /\ x.links = links
       /\ x.id = batch[m].id /\ x.parent = batch[m].parent
       BY <1>2, <1>8, <1>10, FieldsKept DEF WellFormed
<1>12. IsChange(p, batch, m, x)
       BY <1>6, <1>7, <1>9, <1>10
<1>13. /\ \E U : p \in Seq(U)
       /\ DOMAIN p = DOMAIN batch /\ p[m] = x
       /\ \A i \in DOMAIN batch : i # m => p[i] = batch[i]
       /\ x \in ToSet(p)
       BY <1>1, <1>8, <1>12, OneChanged
<1>14. SameShape(p, batch)
       BY <1>11, <1>13 DEF SameShape
<1>15. PICK U : p \in Seq(U)
       BY <1>13
<1>16. run = Reconstruct(p)
       BY <1>5
<1>17. DistinctIds(p) /\ Ids(p) = Ids(batch)
       BY <1>2, <1>14, <1>15, <1>16, WholeChange
<1>18. ForeignSpan \in ToSet(links)
  <2>1. PICK old \in Seq(Nat) : old = batch[m].links /\ old # <<>>
        BY <1>2, <1>8 DEF WellFormed
  <2>2. 1 \in DOMAIN old /\ links = [old EXCEPT ![1] = ForeignSpan]
        BY <1>9, <2>1
  <2>3. 1 \in DOMAIN links /\ links[1] = ForeignSpan
        BY <2>2
  <2> QED
      BY <2>3 DEF ToSet
<1>19. ForeignSpan \notin Ids(p)
  <2>1. \A i \in DOMAIN batch : batch[i].id # ForeignSpan
        BY <1>2 DEF Ended, ForeignSpan
  <2> QED
      BY <1>17, <2>1 DEF Ids, ToSet
<1>20. <<ForeignSpan, x.id>> \in run.missingLinks
       BY <1>11, <1>13, <1>15, <1>16, <1>17, <1>18, <1>19, MissingFacts
<1> QED
    BY <1>20, GapsAre DEF TraceIntegrity

\* A tool's result without a link from the turn that consumed it.
LEMMA LinkIsMissed ==
    ASSUME NEW run, run.edges = {},
           NEW t \in StepsOf(run), IsTool(t),
           \A s \in StepsOf(run) : s.id = t.parent => ~IsChat(s),
           NEW c \in StepsOf(run), IsChat(c), c.parent = t.parent,
           c.start >= t.end
    PROVE  "causal_links" \in Gaps(run)
<1>1. ASSUME CausalLinks(run) PROVE FALSE
  <2>1. PICK steps : steps = StepsOf(run)
        OBVIOUS
  <2>2. PICK linked : linked = {e[1] : e \in {e \in run.edges :
                              \E s \in steps : s.id = e[2] /\ IsChat(s)}}
        OBVIOUS
  <2>3. linked = {}
        BY <2>2
  <2>4. ~ \E p \in steps : p.id = t.parent /\ IsChat(p)
        BY <2>1
  <2>5. ~ (IsChat(c) /\ c.parent = t.parent /\ c.start >= t.end)
        BY <1>1, <2>1, <2>2, <2>3, <2>4 DEF CausalLinks
  <2> QED
      BY <2>5
<1> QED
    BY <1>1, GapsAre

\* No turn tells any more whose results it consumed.
LEMMA LinkIsNamed ==
    ASSUME EvidenceInv, phase = "closed",
           export("drop_link", batch) # batch,
           NEW run, run = Reconstruct(export("drop_link", batch))
    PROVE  "causal_links" \in Gaps(run)
<1>1. PICK T : batch \in Seq(T)
      BY ClosedBatch
<1>2. /\ DistinctIds(batch) /\ Family(ToSet(batch))
      /\ \A i \in DOMAIN batch : WellFormed(batch[i]) /\ Ended(batch[i])
      BY ClosedBatch
<1>3. PICK n \in Nat : n = Len(batch) /\ DOMAIN batch = 1..n
      BY <1>1
<1>4. PICK p : p = export("drop_link", batch)
      OBVIOUS
<1>5. p = [i \in 1..n |-> [batch[i] EXCEPT !.links = <<>>]]
      BY <1>3, <1>4 DEF export, strip_links, ChangeAll
<1>6. \A i \in 1..n : /\ p[i].links = <<>> /\ p[i].name = batch[i].name
                      /\ p[i].id = batch[i].id /\ p[i].parent = batch[i].parent
                      /\ p[i].start = batch[i].start /\ p[i].end = batch[i].end
  <2> SUFFICES ASSUME NEW i \in 1..n
               PROVE  /\ p[i].links = <<>> /\ p[i].name = batch[i].name
                      /\ p[i].id = batch[i].id /\ p[i].parent = batch[i].parent
                      /\ p[i].start = batch[i].start /\ p[i].end = batch[i].end
      OBVIOUS
  <2>1. IsARecord(batch[i])
        BY <1>2, <1>3 DEF WellFormed
  <2>2. p[i] = [batch[i] EXCEPT !.links = <<>>]
        BY <1>5
  <2> QED
      BY <2>1, <2>2, FieldsKept
<1>7. PICK c \in 1..n : batch[c].links # <<>>
  <2> SUFFICES ASSUME \A i \in 1..n : batch[i].links = <<>> PROVE FALSE
      OBVIOUS
  <2>1. ASSUME NEW i \in 1..n PROVE p[i] = batch[i]
    <3>1. IsARecord(batch[i])
          BY <1>2, <1>3 DEF WellFormed
    <3>2. PICK s : s = batch[i]
          OBVIOUS
    <3>3. IsARecord(s) /\ s.links = <<>>
          BY <3>1, <3>2
    <3>4. [s EXCEPT !.links = <<>>] = s
          BY <3>3 DEF IsARecord
    <3> QED
        BY <1>5, <3>2, <3>4
  <2>2. batch = [i \in 1..n |-> batch[i]]
        BY <1>1, <1>3
  <2>3. p = batch
        BY <1>5, <2>1, <2>2
  <2> QED
      BY <1>4, <2>3
<1>8. IsChat(batch[c])
      BY <1>2, <1>3, <1>7 DEF WellFormed
<1>9. PICK t \in 1..c - 1 : batch[t].parent = batch[c].parent /\ IsTool(batch[t])
  <2>1. PICK links : links = batch[c].links
        OBVIOUS
  <2>2. links \in Seq(Nat) /\ links # <<>>
        BY <1>2, <1>3, <1>7, <2>1 DEF WellFormed
  <2>3. links[1] \in ToSet(links)
        BY <2>2 DEF ToSet
  <2>4. PICK mine : mine = {i \in 1..c - 1 : batch[i].parent = batch[c].parent}
        OBVIOUS
  <2>5. ToSet(links) = {batch[t].id : t \in {t \in mine : IsTool(batch[t])
                            /\ \A i \in mine : i > t => ~IsChat(batch[i])}}
        BY <1>3, <1>8, <2>1, <2>4 DEF EvidenceInv, SpanInv, LinksAreExact
  <2> QED
      BY <2>3, <2>4, <2>5
<1>10. t \in 1..n /\ batch[t].end <= batch[c].start
  <2>1. ~IsAgent(batch[c])
        BY <1>8 DEF IsChat, IsAgent
  <2> QED
      BY <1>3, <1>9, <2>1 DEF EvidenceInv, ShapeInv
<1>11. PICK U : U = {p[i] : i \in 1..n}
       OBVIOUS
<1>12. p \in [1..n -> U]
       BY <1>5, <1>11
<1>13. p \in Seq(U) /\ DOMAIN p = 1..n
       BY <1>12, IsASeq
<1>14. SameShape(p, batch)
       BY <1>3, <1>6, <1>13 DEF SameShape
<1>15. run = Reconstruct(p)
       BY <1>4
<1>16. StepsOf(run) = ToSet(p) /\ DistinctIds(p)
       BY <1>2, <1>13, <1>14, <1>15, WholeChange
<1>17. run.edges = {}
  <2>1. \A s \in ToSet(p) : ToSet(s.links) = {}
        BY <1>6, <1>13 DEF ToSet
  <2>2. \A e \in run.edges : \E s \in ToSet(p) : e[1] \in ToSet(s.links)
        BY <1>13, <1>15, <1>16, MissingFacts
  <2> QED
      BY <2>1, <2>2
<1>18. p[t] \in ToSet(p) /\ p[c] \in ToSet(p)
       BY <1>10, <1>13 DEF ToSet
<1>19. IsTool(p[t]) /\ IsChat(p[c])
       BY <1>6, <1>8, <1>9, <1>10 DEF IsTool, IsChat
<1>20. PICK w \in 1..n : batch[w].id = batch[t].parent /\ IsAgent(batch[w])
  <2>1. Closed(n)
        BY <1>3, ClosedBatch
  <2>2. t # n
    <3>1. t < c /\ c \in 1..n
          BY <1>9
    <3> QED
        BY <3>1
  <2> QED
      BY <1>10, <2>1, <2>2 DEF Closed, Encloses
<1>21. \A s \in ToSet(p) : s.id = p[t].parent => ~IsChat(s)
  <2> SUFFICES ASSUME NEW i \in 1..n, p[i].id = p[t].parent
               PROVE  ~IsChat(p[i])
      BY <1>13 DEF ToSet
  <2>1. batch[i].id = batch[w].id
        BY <1>6, <1>10, <1>20
  <2>2. i = w
        BY <1>2, <1>3, <2>1 DEF DistinctIds
  <2> QED
      BY <1>6, <1>20, <2>2 DEF IsChat, IsAgent
<1>22. p[c].parent = p[t].parent /\ p[c].start >= p[t].end
  <2>1. batch[c].start \in Int /\ batch[t].end \in Int
        BY <1>2, <1>3, <1>10 DEF Ended
  <2> QED
      BY <1>6, <1>9, <1>10, <2>1
<1> QED
    BY <1>16, <1>17, <1>18, <1>19, <1>21, <1>22, LinkIsMissed

-----------------------------------------------------------------------------
\* What the server misses in the evidence that a fault has changed.
LEMMA FaultIsMissed ==
    ASSUME EvidenceInv, phase = "closed", UniqueIds,
           NEW fault, export(fault, batch) # batch,
           NEW gaps, gaps = Gaps(Reconstruct(export(fault, batch)))
    PROVE  /\ fault = "drop_parent" =>
                 "run_root" \in gaps /\ "trace_integrity" \in gaps
           /\ fault \in {"duplicate_span", "drop_child", "orphan_link_target"} =>
                 "trace_integrity" \in gaps
           /\ fault \in {"drop_tool_result", "mismatch_tool_id"} =>
                 "tool_pairing" \in gaps
           /\ fault = "truncate_final" => "final_answer" \in gaps
           /\ fault = "late_span" => "temporal_nesting" \in gaps
           /\ fault = "drop_attribute" => "model_correlation" \in gaps
           /\ fault = "truncate_closed" => "trace_closed" \in gaps
           /\ fault = "drop_link" => "causal_links" \in gaps
<1>1. PICK run : run = Reconstruct(export(fault, batch))
      OBVIOUS
<1>2. gaps = Gaps(run)
      BY <1>1
<1>3. ASSUME fault = "drop_parent"
      PROVE  "run_root" \in gaps /\ "trace_integrity" \in gaps
      BY <1>1, <1>2, <1>3, ParentIsNamed
<1>4. fault = "duplicate_span" => "trace_integrity" \in gaps
      BY <1>1, <1>2, DuplicateIsNamed
<1>5. fault = "drop_child" => "trace_integrity" \in gaps
      BY <1>1, <1>2, ChildIsNamed
<1>6. fault = "orphan_link_target" => "trace_integrity" \in gaps
      BY <1>1, <1>2, OrphanLinkIsNamed
<1>7. fault = "drop_tool_result" => "tool_pairing" \in gaps
      BY <1>1, <1>2, ToolIsNamed
<1>8. fault = "mismatch_tool_id" => "tool_pairing" \in gaps
      BY <1>1, <1>2, MismatchIsNamed
<1>9. fault = "truncate_final" => "final_answer" \in gaps
      BY <1>1, <1>2, FinalIsNamed
<1>10. fault = "late_span" => "temporal_nesting" \in gaps
  <2> SUFFICES ASSUME fault = "late_span" PROVE "temporal_nesting" \in gaps
      OBVIOUS
  <2>1. PICK T : batch \in Seq(T)
        BY ClosedBatch
  <2>2. DistinctIds(batch)
        BY ClosedBatch
  <2>3. PICK p : p = move_first_child_late(batch)
        OBVIOUS
  <2>4. run = Reconstruct(move_first_child_late(batch))
        BY <1>1 DEF export
  <2> QED
      BY <1>2, <2>1, <2>2, <2>4, LateIsNamed
<1>11. fault = "drop_attribute" => "model_correlation" \in gaps
       BY <1>1, <1>2, AttributeIsNamed
<1>12. fault = "truncate_closed" => "trace_closed" \in gaps
       BY <1>1, <1>2, ClosedIsNamed
<1>13. fault = "drop_link" => "causal_links" \in gaps
       BY <1>1, <1>2, LinkIsNamed
<1> QED
    BY <1>3, <1>4, <1>5, <1>6, <1>7, <1>8, <1>9, <1>10, <1>11, <1>12, <1>13

\* What the pipeline holds, when call ids are unique.
LEMMA UniquePipeline == UniqueIds /\ PipelineSpec => [](UniqueIds /\ PipelineInv)
<1>1. PipelineInit => PipelineInv
      BY EvidenceInit DEF PipelineInit, PipelineInv, ReportInv
<1>2. UniqueIds /\ PipelineInv /\ [PipelineNext]_pipelineVars
          => (UniqueIds /\ PipelineInv)'
      BY PipelineNextKeeps
<1> QED
    BY <1>1, <1>2, PTL DEF PipelineSpec

\* An abstention names what is missing, for every run with unique call ids:
\* each fault that changed the batch leaves the gap that is about it.
THEOREM AbstentionNamesTheFault == UniqueIds /\ PipelineSpec => []FaultIsNamed
<1>1. UniqueIds /\ PipelineInv => FaultIsNamed
  <2> SUFFICES ASSUME UniqueIds, PipelineInv PROVE FaultIsNamed
      OBVIOUS
  <2>1. PICK claim : claim =
              [drop_parent |-> {"run_root", "trace_integrity"},
               duplicate_span |-> {"trace_integrity"},
               drop_child |-> {"trace_integrity"},
               drop_tool_result |-> {"tool_pairing"},
               mismatch_tool_id |-> {"tool_pairing"},
               truncate_final |-> {"final_answer"},
               late_span |-> {"temporal_nesting"},
               drop_attribute |-> {"model_correlation"},
               truncate_closed |-> {"trace_closed"},
               drop_link |-> {"causal_links"},
               orphan_link_target |-> {"trace_integrity"}]
        OBVIOUS
  <2>2. DOMAIN claim = {"drop_parent", "duplicate_span", "drop_child",
            "drop_tool_result", "mismatch_tool_id", "truncate_final",
            "late_span", "drop_attribute", "truncate_closed", "drop_link",
            "orphan_link_target"}
        BY <2>1
  <2>3. ASSUME Reported(DOMAIN claim), report.lossy
        PROVE  claim[report.fault] \subseteq report.gaps
    <3>1. PICK fault \in DOMAIN claim : fault = report.fault
          BY <2>3 DEF Reported
    <3>2. Exported(fault) /\ phase = "closed"
      <4>1. report # NoReport
            BY <2>3 DEF Reported
      <4>2. fault # "scheduled_export"
            BY <2>2
      <4> QED
          BY <3>1, <4>1, <4>2 DEF PipelineInv, ReportInv, Exported, Halved
    <3>3. PICK gaps : gaps = report.gaps
          OBVIOUS
    <3>4. /\ export(fault, batch) # batch
          /\ gaps = Gaps(Reconstruct(export(fault, batch)))
          BY <2>3, <3>2, <3>3 DEF Exported
    <3>5. EvidenceInv
          BY DEF PipelineInv
    <3>6. /\ fault = "drop_parent" =>
                 "run_root" \in gaps /\ "trace_integrity" \in gaps
          /\ fault \in {"duplicate_span", "drop_child", "orphan_link_target"} =>
                 "trace_integrity" \in gaps
          /\ fault \in {"drop_tool_result", "mismatch_tool_id"} =>
                 "tool_pairing" \in gaps
          /\ fault = "truncate_final" => "final_answer" \in gaps
          /\ fault = "late_span" => "temporal_nesting" \in gaps
          /\ fault = "drop_attribute" => "model_correlation" \in gaps
          /\ fault = "truncate_closed" => "trace_closed" \in gaps
          /\ fault = "drop_link" => "causal_links" \in gaps
          BY <3>2, <3>4, <3>5, FaultIsMissed
    <3>7. claim[fault] \subseteq gaps
          BY <2>1, <2>2, <3>6
    <3> QED
        BY <3>1, <3>3, <3>7
  <2> QED
      BY <2>1, <2>3 DEF FaultIsNamed
<1> QED
    BY <1>1, UniquePipeline, PTL

-----------------------------------------------------------------------------
\* Part of the spans of a list spend no more than all of them.
LEMMA PartSpendsLess ==
    ASSUME NEW s, NEW m \in Nat, Counted(s, 1..m), NEW U \in SUBSET (1..m)
    PROVE  Spent(s, U) <= Spent(s, 1..m)
<1> DEFINE H == {k \in Nat : k \notin 0..m \/
                     Spent(s, U \cap (1..k)) <= Spent(s, 1..k)}
<1>1. 0 \in H
  <2>1. PICK N : N = {}
        OBVIOUS
  <2>2. U \cap (1..0) = N /\ 1..0 = N
        BY <2>1
  <2>3. Spent(s, N) \in Nat
    <3>1. IsFiniteSet(N) /\ Counted(s, N)
          BY <2>1, FS_EmptySet DEF Counted
    <3> QED
        BY <3>1, SpentCounts
  <2> QED
      BY <2>2, <2>3
<1>2. ASSUME NEW k \in 1..m, k - 1 \in H PROVE k \in H
  <2>1. PICK W : W = 1..k - 1
        OBVIOUS
  <2>2. PICK V : V = U \cap W
        OBVIOUS
  <2>3. /\ 1..k = W \cup {k} /\ k \notin W
        /\ k \in U => U \cap (1..k) = V \cup {k} /\ k \notin V
        /\ k \notin U => U \cap (1..k) = V
        BY <2>1, <2>2
  <2>4. IsFiniteSet(W)
        BY <2>1, FS_Interval
  <2>5. IsFiniteSet(V)
        BY <2>2, <2>4, FS_Intersection
  <2>6. Counted(s, W \cup {k}) /\ Counted(s, V \cup {k}) /\ Counted(s, W)
        /\ Counted(s, V)
        BY <2>1, <2>2 DEF Counted
  <2>7. /\ Spent(s, W \cup {k}) = Spent(s, W) + s[k].tokens
        /\ Spent(s, W) \in Nat /\ Spent(s, V) \in Nat /\ s[k].tokens \in Nat
        BY <2>3, <2>4, <2>5, <2>6, SpentAdds, SpentCounts DEF Counted
  <2>8. Spent(s, V) <= Spent(s, W)
        BY <1>2, <2>1, <2>2
  <2>9. PICK Y : Y = W \cup {k}
        OBVIOUS
  <2>10. Spent(s, U \cap (1..k)) <= Spent(s, Y)
    <3>1. CASE k \in U
      <4>1. k \notin V
            BY <2>3, <3>1
      <4>2. PICK X : X = V \cup {k}
            OBVIOUS
      <4>3. Spent(s, X) = Spent(s, V) + s[k].tokens
            BY <2>5, <2>6, <4>1, <4>2, SpentAdds
      <4>4. Spent(s, X) <= Spent(s, Y)
            BY <2>7, <2>8, <2>9, <4>3
      <4>5. U \cap (1..k) = X
            BY <2>3, <3>1, <4>2
      <4> QED
          BY <4>4, <4>5
    <3>2. CASE k \notin U
      <4>1. Spent(s, V) <= Spent(s, Y)
            BY <2>7, <2>8, <2>9
      <4>2. U \cap (1..k) = V
            BY <2>3, <3>2
      <4> QED
          BY <4>1, <4>2
    <3> QED
        BY <3>1, <3>2
  <2>11. 1..k = Y
        BY <2>3, <2>9
  <2> QED
      BY <2>10, <2>11
<1>3. U \cap (1..m) = U
      OBVIOUS
<1> HIDE DEF H
<1>4. m \in H
  <2>1. \A k \in 0..m : k \in H
        BY <1>1, <1>2, UpTo
  <2> QED
      BY <2>1
<1>5. Spent(s, U \cap (1..m)) <= Spent(s, 1..m)
      BY <1>4 DEF H
<1> QED
    BY <1>3, <1>5

\* A list whose entries all occur in another one is not longer than that, and
\* its spans spend no more.
LEMMA OccursSpendsLess ==
    ASSUME NEW b, NEW s, NEW n \in Nat, NEW m \in Nat,
           Counted(b, 1..n), Counted(s, 1..m),
           NEW g \in [1..n -> 1..m], \A i, j \in 1..n : g[i] = g[j] => i = j,
           \A i \in 1..n : b[i] = s[g[i]]
    PROVE  n <= m /\ Spent(b, 1..n) <= Spent(s, 1..m)
<1>1. n <= m
  <2>1. g \in Injection(1..n, 1..m)
        BY DEF Injection, IsInjective
  <2>2. IsFiniteSet(1..m) /\ Cardinality(1..n) = n /\ Cardinality(1..m) = m
        BY FS_Interval
  <2>3. Cardinality(1..n) <= Cardinality(1..m)
        BY <2>1, <2>2, FS_Injection
  <2> QED
      BY <2>2, <2>3
<1> DEFINE G(k) == {g[i] : i \in 1..k}
           H == {k \in Nat : k \in 0..n =>
                     IsFiniteSet(G(k)) /\ Spent(b, 1..k) = Spent(s, G(k))}
<1>2. 0 \in H
  <2>1. PICK N : N = {}
        OBVIOUS
  <2>2. G(0) = N /\ 1..0 = N
        BY <2>1
  <2>3. IsFiniteSet(N) /\ Counted(s, N) /\ Counted(b, N)
        BY <2>1, FS_EmptySet DEF Counted
  <2>4. Spent(b, N) = 0 /\ Spent(s, N) = 0
        BY <2>1, <2>3, SpentCounts
  <2> QED
      BY <2>2, <2>3, <2>4
<1>3. ASSUME NEW k \in 1..n, k - 1 \in H PROVE k \in H
  <2>1. PICK W : W = 1..k - 1
        OBVIOUS
  <2>2. PICK V : V = G(k - 1)
        OBVIOUS
  <2>3. 1..k = W \cup {k} /\ k \notin W
        BY <2>1
  <2>4. G(k) = V \cup {g[k]}
        BY <2>2, <2>3
  <2>5. g[k] \notin V
        BY <2>2
  <2>0. k - 1 \in 0..n /\ k \in 0..n
        OBVIOUS
  <2>6. IsFiniteSet(V) /\ Spent(b, W) = Spent(s, V)
    <3>1. IsFiniteSet(G(k - 1)) /\ Spent(b, 1..k - 1) = Spent(s, G(k - 1))
          BY <1>3, <2>0
    <3> QED
        BY <2>1, <2>2, <3>1
  <2>7. IsFiniteSet(W)
        BY <2>1, FS_Interval
  <2>8. Counted(b, W \cup {k}) /\ Counted(s, V \cup {g[k]})
        BY <2>1, <2>2 DEF Counted
  <2>9. PICK x : x = g[k]
        OBVIOUS
  <2>10. /\ Spent(b, W \cup {k}) = Spent(b, W) + b[k].tokens
         /\ Spent(s, V \cup {x}) = Spent(s, V) + s[x].tokens
         BY <2>3, <2>5, <2>6, <2>7, <2>8, <2>9, SpentAdds
  <2>11. Spent(b, W \cup {k}) = Spent(s, V \cup {x})
         BY <2>6, <2>9, <2>10
  <2>12. IsFiniteSet(V \cup {x})
         BY <2>6, FS_AddElement
  <2>13. PICK Y : Y = V \cup {x}
         OBVIOUS
  <2>14. PICK Z : Z = W \cup {k}
         OBVIOUS
  <2>15. G(k) = Y /\ 1..k = Z
         BY <2>3, <2>4, <2>9, <2>13, <2>14
  <2>16. IsFiniteSet(Y) /\ Spent(b, Z) = Spent(s, Y)
         BY <2>11, <2>12, <2>13, <2>14
  <2>17. IsFiniteSet(G(k)) /\ Spent(b, 1..k) = Spent(s, G(k))
         BY <2>15, <2>16
  <2> QED
      BY <2>0, <2>17
<1>4. G(n) \in SUBSET (1..m)
      OBVIOUS
<1> HIDE DEF H
<1>5. n \in H
  <2>1. \A k \in 0..n : k \in H
        BY <1>2, <1>3, UpTo
  <2> QED
      BY <2>1
<1>6. Spent(b, 1..n) = Spent(s, G(n))
  <2>1. n \in 0..n
        OBVIOUS
  <2> QED
      BY <1>5, <2>1 DEF H
<1>7. PICK U : U = G(n)
      OBVIOUS
<1>8. Spent(s, U) <= Spent(s, 1..m)
      BY <1>4, <1>7, PartSpendsLess
<1> QED
    BY <1>1, <1>6, <1>7, <1>8

-----------------------------------------------------------------------------
\* What the verdict mapping makes of a gap, and of a violation.
LEMMA VerdictFacts ==
    ASSUME NEW run, NEW v, v = verdictFor(Findings(run))
    PROVE  /\ Gaps(run) # {} => v \in {"INCONCLUSIVE", "FAIL"}
           /\ CheckSchema(run) \/ CheckPolicy(run) \/ CheckBudget(run)
                 \/ CheckStatus(run) => v = "FAIL"
<1>1. PICK F : F = Findings(run)
      OBVIOUS
<1>2. Gaps(run) # {} => EvidenceGap \in F
      BY <1>1 DEF Findings
<1>3. Gaps(run) # {} => EvidenceGaps(F) # {}
      BY <1>2 DEF EvidenceGaps, EvidenceGap
<1>4. ASSUME NEW c \in {"schema", "policy", "budget", "status"},
             Violation(c, "critical") \in F
      PROVE  DetCritical(F)
  <2>1. PICK f : f = Violation(c, "critical")
        OBVIOUS
  <2>2. /\ f.kind = "" /\ f.severity = "critical" /\ f.verifier # "judge"
        /\ ~f.sourced
        BY <1>4, <2>1 DEF Violation
  <2>3. f \in Rated(F) /\ ~JudgeOpinion(f)
        BY <1>4, <2>1, <2>2 DEF Rated, EvidenceGaps, JudgeOpinion
  <2> QED
      BY <2>2, <2>3 DEF DetCritical
<1>5. ASSUME CheckSchema(run) \/ CheckPolicy(run) \/ CheckBudget(run)
                 \/ CheckStatus(run)
      PROVE  DetCritical(F)
  <2>1. PICK C : C = {c \in {"schema", "policy", "budget", "status"} :
            \/ c = "schema" /\ CheckSchema(run)
            \/ c = "policy" /\ CheckPolicy(run)
            \/ c = "budget" /\ CheckBudget(run)
            \/ c = "status" /\ CheckStatus(run)}
        OBVIOUS
  <2>2. \A c \in C : Violation(c, "critical") \in F
        BY <1>1, <2>1 DEF Findings
  <2>3. PICK c \in C : TRUE
        BY <1>5, <2>1
  <2> QED
      BY <1>4, <2>1, <2>2, <2>3
<1> QED
    BY <1>1, <1>3, <1>5 DEF verdictFor

\* A run that misbehaved, intact, fails.
LEMMA BadRunFails ==
    ASSUME EvidenceInv, phase = "closed", Misbehaved,
           NEW run, run = Reconstruct(batch)
    PROVE  verdictFor(Findings(run)) = "FAIL"
<1>1. PICK T : batch \in Seq(T)
      BY ClosedBatch
<1>2. /\ DistinctIds(batch) /\ Family(ToSet(batch))
      /\ \A i \in DOMAIN batch : Ended(batch[i])
      BY ClosedBatch
<1>3. PICK n \in Nat : n = Len(batch) /\ DOMAIN batch = 1..n
      BY <1>1
<1>4. PICK steps : steps = run.steps
      OBVIOUS
<1>5. StepsOf(run) = ToSet(batch) /\ steps \in Seq(ToSet(batch))
      BY <1>1, <1>2, <1>4, FamilyRun, RunFacts
<1>6. PICK m \in Nat : m = Len(steps) /\ DOMAIN steps = 1..m
      BY <1>5
<1>7. \A i \in 1..n : batch[i] \in StepsOf(run)
      BY <1>3, <1>5 DEF ToSet
<1>8. \A i \in 1..n : \E j \in 1..m : batch[i] = steps[j]
      BY <1>4, <1>6, <1>7 DEF StepsOf, ToSet
<1>9. PICK g : g = [i \in 1..n |-> CHOOSE j \in 1..m : batch[i] = steps[j]]
      OBVIOUS
<1>10. g \in [1..n -> 1..m] /\ \A i \in 1..n : batch[i] = steps[g[i]]
       BY <1>8, <1>9
<1>11. \A i, j \in 1..n : g[i] = g[j] => i = j
       BY <1>2, <1>3, <1>10 DEF DistinctIds
<1>12. Counted(batch, 1..n) /\ Counted(steps, 1..m)
  <2>1. \A s \in ToSet(batch) : s.tokens \in Nat
        BY <1>2 DEF ToSet, Ended
  <2>2. \A j \in 1..m : steps[j] \in ToSet(batch)
        BY <1>5, <1>6
  <2> QED
      BY <1>2, <1>3, <2>1, <2>2 DEF Counted, Ended
<1>13. n <= m /\ Spent(batch, 1..n) <= Spent(steps, 1..m)
       BY <1>10, <1>11, <1>12, OccursSpendsLess
<1>14. Spent(batch, 1..n) \in Nat /\ Spent(steps, 1..m) \in Nat
  <2>1. IsFiniteSet(1..n) /\ IsFiniteSet(1..m)
        BY FS_Interval
  <2> QED
      BY <1>12, <2>1, SpentCounts
<1>15. Spent(batch, 1..n) > MaxRunTokens => CheckBudget(run)
  <2>1. Spent(steps, 1..m) > MaxRunTokens => CheckBudget(run)
        BY <1>4, <1>6 DEF CheckBudget, Spent
  <2> QED
      BY <1>13, <1>14, <2>1, ChecksAssumption
<1>16. n > MaxSpans => CheckBudget(run)
  <2>1. m > MaxSpans => CheckBudget(run)
        BY <1>4, <1>6 DEF CheckBudget
  <2> QED
      BY <1>13, <2>1, ChecksAssumption
<1>17. ASSUME NEW i \in 1..n,
              \/ batch[i].error
              \/ IsTool(batch[i]) /\ batch[i].tool \notin AllowedTools
              \/ batch[i].contract /\ batch[i].output = "bad"
       PROVE  CheckStatus(run) \/ CheckPolicy(run) \/ CheckSchema(run)
  <2>1. batch[i].output = "bad" => batch[i].output # "good"
        OBVIOUS
  <2> QED
      BY <1>7, <1>17, <2>1 DEF CheckStatus, CheckPolicy, CheckSchema
<1>18. \/ \E i \in 1..n :
             \/ batch[i].error
             \/ IsTool(batch[i]) /\ batch[i].tool \notin AllowedTools
             \/ batch[i].contract /\ batch[i].output = "bad"
       \/ n > MaxSpans
       \/ Spent(batch, 1..n) > MaxRunTokens
       BY <1>3 DEF Misbehaved, Spent
<1> QED
    BY <1>15, <1>16, <1>17, <1>18, VerdictFacts

\* Every other span of a list, when a parent is among those left out.
LEMMA SampledIsNamed ==
    ASSUME NEW T, NEW q \in Seq(T), DistinctIds(q), NEW n, n = Len(q),
           NEW k \in Nat, 2 * k - 1 \in 1..n, NEW j \in Nat, 2 * j \in 1..n,
           q[2 * k - 1].parent # NoSpan, q[2 * k - 1].parent = q[2 * j].id,
           NEW run, run = Reconstruct(sample(q))
    PROVE  "trace_integrity" \in Gaps(run)
<1>1. n \in Nat /\ DOMAIN q = 1..n
      OBVIOUS
<1>0. \A a, b \in 1..n : q[a].id = q[b].id => a = b
      BY <1>1 DEF DistinctIds
<1>2. PICK h \in Nat : h = (n + 1) \div 2
      BY <1>1
<1>3. \A i \in 1..h : 2 * i - 1 \in 1..n
      BY <1>1, <1>2
<1>4. k \in 1..h
      BY <1>1, <1>2
<1>5. PICK p : p = sample(q)
      OBVIOUS
<1>6. p = [i \in 1..h |-> q[2 * i - 1]]
      BY <1>2, <1>5 DEF sample
<1>7. \A i \in 1..h : p[i] = q[2 * i - 1] /\ q[2 * i - 1] \in T
      BY <1>1, <1>3, <1>6
<1>8. p \in [1..h -> T]
      BY <1>6, <1>7
<1>9. p \in Seq(T) /\ DOMAIN p = 1..h
      BY <1>8, IsASeq
<1>10. DistinctIds(p)
  <2> SUFFICES ASSUME NEW i \in 1..h, NEW l \in 1..h, p[i].id = p[l].id
               PROVE  i = l
      BY <1>9 DEF DistinctIds
  <2>1. PICK a \in 1..n : a = 2 * i - 1 /\ q[a] = p[i]
        BY <1>3, <1>7
  <2>2. PICK b \in 1..n : b = 2 * l - 1 /\ q[b] = p[l]
        BY <1>3, <1>7
  <2>0. q[a].id = q[b].id
        BY <2>1, <2>2
  <2>3. a = b
        BY <1>0, <2>0
  <2> QED
      BY <2>1, <2>2, <2>3
<1>11. p[k] \in ToSet(p) /\ p[k].parent = q[2 * j].id /\ p[k].parent # NoSpan
       BY <1>4, <1>7, <1>9 DEF ToSet
<1>12. p[k].parent \notin Ids(p)
  <2> SUFFICES ASSUME NEW i \in 1..h, p[i].id = q[2 * j].id PROVE FALSE
      BY <1>9, <1>11 DEF Ids, ToSet
  <2>1. PICK a \in 1..n : a = 2 * i - 1 /\ q[a] = p[i]
        BY <1>3, <1>7
  <2>2. PICK b \in 1..n : b = 2 * j
        OBVIOUS
  <2>3. q[a].id = q[b].id
        BY <2>1, <2>2
  <2>4. a = b
        BY <1>0, <2>3
  <2> QED
      BY <2>1, <2>2, <2>4
<1>13. run = Reconstruct(p)
       BY <1>5
<1> QED
    BY <1>9, <1>10, <1>11, <1>12, <1>13, OrphanIsNamed

\* A sample of the batch has lost the root, or a worker one of whose spans it
\* has kept.
LEMMA SampleIsNamed ==
    ASSUME EvidenceInv, phase = "closed",
           NEW run, run = Reconstruct(export("sample_spans", batch))
    PROVE  "trace_integrity" \in Gaps(run)
<1>1. PICK T : batch \in Seq(T)
      BY ClosedBatch
<1>2. DistinctIds(batch) /\ Closed(Len(batch))
      BY ClosedBatch
<1>3. PICK n : n = Len(batch)
      OBVIOUS
<1>4. /\ n \in Nat /\ n > 1 /\ DOMAIN batch = 1..n
      /\ batch[n].id = RootId /\ batch[n - 1].parent = RootId
      BY <1>2, <1>3 DEF Closed, EvidenceInv, PlaceInv
<1>5. n - 1 > 1 /\ batch[(n - 1) - 1].parent = batch[n - 1].id
  <2>1. n - 1 \in DOMAIN batch
        BY <1>4
  <2> QED
      BY <1>4, <2>1 DEF EvidenceInv, PlaceInv
<1>6. batch[n - 1].id # NoSpan
  <2>1. n - 1 \in DOMAIN batch
        BY <1>4
  <2>2. Ended(batch[n - 1])
        BY <2>1, ClosedBatch
  <2> QED
      BY <2>2 DEF Ended, RootId, NoSpan
<1>7. run = Reconstruct(sample(batch))
      BY DEF export
<1>8. ASSUME NEW h \in Nat, n = 2 * h PROVE "trace_integrity" \in Gaps(run)
  <2>1. /\ 2 * h - 1 \in 1..n /\ 2 * h \in 1..n
        /\ batch[2 * h - 1].parent = batch[2 * h].id
        /\ batch[2 * h - 1].parent # NoSpan
        BY <1>4, <1>8 DEF RootId, NoSpan
  <2> QED
      BY <1>1, <1>2, <1>3, <1>7, <2>1, SampledIsNamed
<1>9. ASSUME NEW h \in Nat, n = 2 * h + 1 PROVE "trace_integrity" \in Gaps(run)
  <2>1. /\ 2 * h - 1 \in 1..n /\ 2 * h \in 1..n
        /\ batch[2 * h - 1].parent = batch[2 * h].id
        /\ batch[2 * h - 1].parent # NoSpan
    <3>1. n - 1 = 2 * h /\ (n - 1) - 1 = 2 * h - 1
          BY <1>9
    <3> QED
        BY <1>4, <1>5, <1>6, <3>1
  <2> QED
      BY <1>1, <1>2, <1>3, <1>7, <2>1, SampledIsNamed
<1>10. \E h \in Nat : n = 2 * h \/ n = 2 * h + 1
  <2>1. n \div 2 \in Nat /\ (n = 2 * (n \div 2) \/ n = 2 * (n \div 2) + 1)
        BY <1>4
  <2> QED
      BY <2>1
<1> QED
    BY <1>8, <1>9, <1>10

\* Whatever a fault takes or changes, other than the order, is missed.
LEMMA LossIsMissed ==
    ASSUME EvidenceInv, phase = "closed", UniqueIds,
           NEW fault \in Faults, fault # "reorder_spans",
           export(fault, batch) # batch,
           NEW gaps, gaps = Gaps(Reconstruct(export(fault, batch)))
    PROVE  gaps # {}
<1>1. CASE fault = "sample_spans"
  <2>1. PICK run : run = Reconstruct(export(fault, batch))
        OBVIOUS
  <2>2. "trace_integrity" \in gaps
        BY <1>1, <2>1, SampleIsNamed
  <2> QED
      BY <2>2
<1>2. CASE fault # "sample_spans"
  <2>1. /\ fault = "drop_parent" =>
                 "run_root" \in gaps /\ "trace_integrity" \in gaps
        /\ fault \in {"duplicate_span", "drop_child", "orphan_link_target"} =>
                 "trace_integrity" \in gaps
        /\ fault \in {"drop_tool_result", "mismatch_tool_id"} =>
                 "tool_pairing" \in gaps
        /\ fault = "truncate_final" => "final_answer" \in gaps
        /\ fault = "late_span" => "temporal_nesting" \in gaps
        /\ fault = "drop_attribute" => "model_correlation" \in gaps
        /\ fault = "truncate_closed" => "trace_closed" \in gaps
        /\ fault = "drop_link" => "causal_links" \in gaps
        BY FaultIsMissed
  <2>2. fault # "none"
        BY DEF export
  <2>3. fault \in {"drop_parent", "duplicate_span", "drop_child",
            "drop_tool_result", "mismatch_tool_id", "truncate_final",
            "late_span", "drop_attribute", "truncate_closed", "drop_link",
            "orphan_link_target"}
        BY <1>2, <2>2 DEF Faults, EvidenceFaults
  <2> QED
      BY <2>1, <2>3
<1> QED
    BY <1>1, <1>2

\* The server's answer about what a fault left of a run.
LEMMA DamagedNeverPasses ==
    ASSUME EvidenceInv, phase = "closed", UniqueIds,
           NEW fault \in Faults,
           NEW sent, sent = export(fault, batch),
           NEW v, v = verdictOf(sent)
    PROVE  /\ Misbehaved => v # "PASS"
           /\ sent # batch /\ fault # "reorder_spans" =>
                 v \in {"INCONCLUSIVE", "FAIL"}
<1>1. PICK run : run = Reconstruct(sent)
      OBVIOUS
<1>2. v = verdictFor(Findings(run))
      BY <1>1 DEF verdictOf
<1>3. CASE sent # batch /\ fault # "reorder_spans"
  <2>1. PICK gaps : gaps = Gaps(Reconstruct(export(fault, batch)))
        OBVIOUS
  <2>2. gaps # {}
        BY <1>3, <2>1, LossIsMissed
  <2>3. v \in {"INCONCLUSIVE", "FAIL"}
        BY <1>1, <1>2, <2>1, <2>2, VerdictFacts
  <2> QED
      BY <2>3
<1>4. CASE sent = batch \/ fault = "reorder_spans"
  <2>1. run = Reconstruct(batch)
    <3>1. CASE sent = batch
          BY <1>1, <3>1
    <3>2. CASE fault = "reorder_spans"
      <4>1. PICK T : batch \in Seq(T)
            BY ClosedBatch
      <4>2. DistinctIds(batch) /\ DistinctStarts(ToSet(batch))
            BY ClosedBatch
      <4>3. sent = Reverse(batch)
            BY <3>2 DEF export
      <4>4. sent \in Seq(T) /\ ToSet(sent) = ToSet(batch) /\ DistinctIds(sent)
            BY <4>1, <4>2, <4>3, ReverseFacts
      <4>5. Reconstruct(sent) = Reconstruct(batch)
            BY <4>1, <4>2, <4>4, SameRun
      <4> QED
          BY <1>1, <4>5
    <3> QED
        BY <1>4, <3>1, <3>2
  <2>2. Misbehaved => v = "FAIL"
        BY <1>2, <2>1, BadRunFails
  <2> QED
      BY <1>4, <2>2
<1> QED
    BY <1>3, <1>4

\* "a missing or duplicated span cannot silently become proof that a worker
\* succeeded" (README.md:56), for every run with unique call ids and every
\* fault: a run that misbehaved never passes, and a changed trace makes the
\* server abstain or fail.
THEOREM NoFaultAssures == UniqueIds /\ PipelineSpec => []NoFalseAssurance
<1>1. UniqueIds /\ PipelineInv => NoFalseAssurance
  <2> SUFFICES ASSUME UniqueIds, PipelineInv, Reported(Faults)
               PROVE  /\ Misbehaved => report.verdict # "PASS"
                      /\ report.lossy => report.verdict \in {"INCONCLUSIVE", "FAIL"}
      BY DEF NoFalseAssurance
  <2>1. PICK fault \in Faults : fault = report.fault
        BY DEF Reported
  <2>2. Exported(fault) /\ phase = "closed"
    <3>1. report # NoReport
          BY DEF Reported
    <3>2. fault # "scheduled_export"
          BY <2>1 DEF Faults, EvidenceFaults
    <3> QED
        BY <2>1, <3>1, <3>2 DEF PipelineInv, ReportInv, Exported, Halved
  <2>3. PICK sent : sent = export(fault, batch)
        OBVIOUS
  <2>4. PICK v : v = verdictOf(sent)
        OBVIOUS
  <2>5. /\ report.verdict = v
        /\ report.lossy <=> sent # batch /\ fault # "reorder_spans"
        BY <2>2, <2>3, <2>4 DEF Exported
  <2>6. EvidenceInv
        BY DEF PipelineInv
  <2>7. /\ Misbehaved => v # "PASS"
        /\ sent # batch /\ fault # "reorder_spans" =>
                 v \in {"INCONCLUSIVE", "FAIL"}
        BY <2>2, <2>3, <2>4, <2>6, DamagedNeverPasses
  <2> QED
      BY <2>5, <2>7
<1> QED
    BY <1>1, UniquePipeline, PTL

-----------------------------------------------------------------------------
\* In the recorded file the first worker's first turn comes third, behind the
\* root and the worker.
LEMMA FirstThree ==
    ASSUME EvidenceInv, phase = "closed",
           NEW T, batch \in Seq(T), NEW e, e = envelope_from_spans(batch)
    PROVE  /\ Len(e) > 2
           /\ e[3].parent = 2 /\ e[2].id = 2
<1>1. /\ DistinctIds(batch) /\ DistinctStarts(ToSet(batch))
      /\ Closed(Len(batch))
      /\ \A i \in DOMAIN batch : WellFormed(batch[i]) /\ Ended(batch[i])
      BY ClosedBatch
<1>2. PICK L : L = Len(batch)
      OBVIOUS
<1>0. Closed(L)
      BY <1>1, <1>2
<1>3. /\ L \in Nat /\ L > 1 /\ DOMAIN batch = 1..L
      /\ batch[L].id = RootId /\ batch[L].parent = NoSpan
      BY <1>0 DEF Closed
<1>4. /\ e \in Seq(T) /\ ToSet(e) = ToSet(batch) /\ Len(e) = L
      /\ DistinctIds(e) /\ Ascends(e, ByStartAndId(T))
      BY <1>1, <1>2, Enveloped
<1>5. DOMAIN e = 1..L
      BY <1>3, <1>4
<1>6. \A k \in 1..L : /\ e[k].id \in Nat /\ e[k].id >= 1 /\ e[k].start = e[k].id
  <2>1. \A s \in ToSet(batch) : s.id \in Nat /\ s.id >= 1 /\ s.start = s.id
        BY <1>1 DEF ToSet, Ended, RootId
  <2> QED
      BY <1>4, <1>5, <2>1 DEF ToSet
<1>7. \A k, l \in 1..L : k < l => e[k].id < e[l].id
  <2> SUFFICES ASSUME NEW k \in 1..L, NEW l \in 1..L, k < l
               PROVE  e[k].id < e[l].id
      OBVIOUS
  <2>1. <<e[k], e[l]>> \in ByStartAndId(T)
        BY <1>4, <1>5 DEF Ascends
  <2>2. SpanBefore(e[k], e[l])
        BY <2>1 DEF ByStartAndId
  <2> QED
      BY <1>6, <2>2 DEF SpanBefore
<1>8. ASSUME NEW i \in 1..L PROVE \E k \in 1..L : e[k] = batch[i]
  <2>1. batch[i] \in ToSet(e)
        BY <1>3, <1>4 DEF ToSet
  <2> QED
      BY <1>5, <2>1 DEF ToSet
<1>9. batch[1].id = 3 /\ batch[1].parent = 2
  <2>1. batch # <<>>
        BY <1>3
  <2> QED
      BY <2>1 DEF EvidenceInv, FirstInv
<1>10. PICK w \in 1..L : batch[w].id = 2
  <2>1. 1 \in 1..L /\ 1 # L
        BY <1>3
  <2> QED
      BY <1>1, <1>2, <1>9, <2>1 DEF Closed, Encloses
<1>11. PICK a \in 1..L : e[a].id = 1
  <2>1. L \in 1..L
        BY <1>3
  <2>2. PICK k \in 1..L : e[k] = batch[L]
        BY <1>8, <2>1
  <2> QED
      BY <1>3, <2>2 DEF RootId
<1>12. PICK b \in 1..L : e[b].id = 2
  <2>1. PICK k \in 1..L : e[k] = batch[w]
        BY <1>8
  <2> QED
      BY <1>10, <2>1
<1>13. PICK c \in 1..L : e[c].id = 3 /\ e[c].parent = 2
  <2>1. 1 \in 1..L
        BY <1>3
  <2>2. PICK k \in 1..L : e[k] = batch[1]
        BY <1>8, <2>1
  <2> QED
      BY <1>9, <2>2
<1>14. a = 1
  <2>1. ~(1 < a)
    <3> SUFFICES ASSUME 1 < a PROVE FALSE
        OBVIOUS
    <3>1. 1 \in 1..L
          BY <1>3
    <3>2. e[1].id < e[a].id
          BY <1>7, <3>1
    <3> QED
        BY <1>6, <1>11, <3>1, <3>2
  <2> QED
      BY <2>1
<1>15. b > 1 /\ c > 1 /\ b # c
       BY <1>3, <1>11, <1>12, <1>13, <1>14
<1>16. b = 2
  <2>1. ~(2 < b)
    <3> SUFFICES ASSUME 2 < b PROVE FALSE
        OBVIOUS
    <3>1. 1 \in 1..L /\ 2 \in 1..L
          BY <1>3
    <3>2. e[1].id < e[2].id /\ e[2].id < e[b].id
          BY <1>7, <3>1
    <3> QED
        BY <1>6, <1>12, <3>1, <3>2
  <2> QED
      BY <1>15, <2>1
<1>17. c = 3
  <2>1. ~(3 < c)
    <3> SUFFICES ASSUME 3 < c PROVE FALSE
        OBVIOUS
    <3>1. 2 \in 1..L /\ 3 \in 1..L
          BY <1>3
    <3>2. e[2].id < e[3].id /\ e[3].id < e[c].id
          BY <1>7, <3>1
    <3> QED
        BY <1>6, <1>12, <1>13, <1>16, <3>1, <3>2
  <2> QED
      BY <1>15, <1>16, <2>1
<1> QED
    BY <1>3, <1>4, <1>12, <1>13, <1>16, <1>17

\* A fault that depends on the order, applied to the recorded file.
LEMMA ReplayIsMissed ==
    ASSUME EvidenceInv, phase = "closed", NEW fault \in OrderDependent,
           NEW e, e = envelope_from_spans(batch),
           NEW run, run = Reconstruct(apply_evidence_fault(e, fault))
    PROVE  IF fault = "reorder_spans" THEN run = Reconstruct(batch)
           ELSE Gaps(run) # {}
<1>1. PICK T : batch \in Seq(T)
      BY ClosedBatch
<1>2. /\ DistinctIds(batch) /\ DistinctStarts(ToSet(batch))
      /\ Closed(Len(batch))
      BY ClosedBatch
<1>3. /\ e \in Seq(T) /\ ToSet(e) = ToSet(batch) /\ Len(e) = Len(batch)
      /\ DistinctIds(e)
      BY <1>1, <1>2, Enveloped
<1>4. Len(e) > 2 /\ e[3].parent = 2 /\ e[2].id = 2
      BY <1>1, FirstThree
<1>5. Len(e) \in Nat /\ e # <<>>
      BY <1>3, <1>4
<1>6. CASE fault = "duplicate_span"
  <2>1. run = Reconstruct(Append(e, e[Len(e)]))
        BY <1>5, <1>6 DEF apply_evidence_fault
  <2>2. "trace_integrity" \in Gaps(run)
        BY <1>3, <1>5, <2>1, RepeatIsNamed
  <2> QED
      BY <1>6, <2>2
<1>7. CASE fault = "reorder_spans"
  <2>1. PICK r : r = Reverse(e)
        OBVIOUS
  <2>2. r \in Seq(T) /\ ToSet(r) = ToSet(batch) /\ DistinctIds(r)
        BY <1>3, <2>1, ReverseFacts
  <2>3. Reconstruct(r) = Reconstruct(batch)
        BY <1>1, <1>2, <2>2, SameRun
  <2>4. run = Reconstruct(r)
        BY <1>7, <2>1 DEF apply_evidence_fault
  <2> QED
      BY <1>7, <2>3, <2>4
<1>8. CASE fault = "late_span"
  <2>1. run = Reconstruct(move_first_child_late(e))
        BY <1>8 DEF apply_evidence_fault
  <2>2. "temporal_nesting" \in Gaps(run)
        BY <1>3, <2>1, LateIsNamed
  <2> QED
      BY <1>8, <2>2
<1>9. CASE fault = "sample_spans"
  <2>1. run = Reconstruct(sample(e))
        BY <1>9 DEF apply_evidence_fault
  <2>2. PICK n : n = Len(e)
        OBVIOUS
  <2>3. PICK k \in Nat : k = 2
        OBVIOUS
  <2>4. PICK j \in Nat : j = 1
        OBVIOUS
  <2>5. /\ 2 * k - 1 \in 1..n /\ 2 * j \in 1..n
        /\ e[2 * k - 1].parent = e[2 * j].id /\ e[2 * k - 1].parent # NoSpan
        BY <1>4, <1>5, <2>2, <2>3, <2>4 DEF NoSpan
  <2>6. "trace_integrity" \in Gaps(run)
        BY <1>3, <2>1, <2>2, <2>5, SampledIsNamed
  <2> QED
      BY <1>9, <2>6
<1> QED
    BY <1>6, <1>7, <1>8, <1>9 DEF OrderDependent

\* Where the order matters and a replay derives another damage than the live
\* fault did (test_replay_parity.py:1), it still never turns a damaged or bad
\* run into a PASS, for every run.
THEOREM ReplayDoesNotAssure == PipelineSpec => []ReplayNeverAssures
<1>1. PipelineInv => ReplayNeverAssures
  <2> SUFFICES ASSUME PipelineInv, Reported(OrderDependent), NEW v,
                      v = verdictOf(apply_evidence_fault(report.recorded, report.fault))
               PROVE  /\ Misbehaved => v # "PASS"
                      /\ report.lossy => v \in {"INCONCLUSIVE", "FAIL"}
      BY DEF ReplayNeverAssures
  <2>1. PICK fault \in OrderDependent : fault = report.fault
        BY DEF Reported
  <2>2. Exported(fault) /\ phase = "closed"
    <3>1. report # NoReport
          BY DEF Reported
    <3>2. fault # "scheduled_export"
          BY <2>1 DEF OrderDependent
    <3> QED
        BY <2>1, <3>1, <3>2 DEF PipelineInv, ReportInv, Exported, Halved
  <2>3. PICK e : e = envelope_from_spans(batch)
        OBVIOUS
  <2>4. report.recorded = e /\ (report.lossy => fault # "reorder_spans")
        BY <2>2, <2>3 DEF Exported
  <2>5. PICK run : run = Reconstruct(apply_evidence_fault(e, fault))
        OBVIOUS
  <2>6. v = verdictFor(Findings(run))
        BY <2>1, <2>4, <2>5 DEF verdictOf
  <2>7. EvidenceInv
        BY DEF PipelineInv
  <2>8. IF fault = "reorder_spans" THEN run = Reconstruct(batch)
        ELSE Gaps(run) # {}
        BY <2>2, <2>3, <2>5, <2>7, ReplayIsMissed
  <2>9. CASE fault = "reorder_spans"
    <3>1. Misbehaved => v = "FAIL"
          BY <2>2, <2>6, <2>7, <2>8, <2>9, BadRunFails
    <3> QED
        BY <2>4, <2>9, <3>1
  <2>10. CASE fault # "reorder_spans"
    <3>1. v \in {"INCONCLUSIVE", "FAIL"}
          BY <2>6, <2>8, <2>10, VerdictFacts
    <3> QED
        BY <3>1
  <2> QED
      BY <2>9, <2>10
<1> QED
    BY <1>1, PipelineInvariant, PTL

-----------------------------------------------------------------------------
\* The replay of the recorded file.

-----------------------------------------------------------------------------
\* The envelope of a list is the list of its spans that ascends.
LEMMA EnvelopeIs ==
    ASSUME NEW T, NEW p \in Seq(T), DistinctIds(p), DistinctStarts(ToSet(p)),
           NEW q \in Seq(T), ToSet(q) = ToSet(p), Ascends(q, ByStartAndId(T))
    PROVE  q = envelope_from_spans(p)
<1>1. PICK e : e = envelope_from_spans(p)
      OBVIOUS
<1>2. e \in Seq(T) /\ ToSet(e) = ToSet(p) /\ Ascends(e, ByStartAndId(T))
      BY <1>1, Enveloped
<1>3. ToSet(q) \subseteq T
      BY DEF ToSet
<1>4. Orders(ByStartAndId(T), ToSet(q))
      BY <1>3, StartsOrder
<1>5. q = e
      BY <1>2, <1>4, AscendingEqual
<1> QED
    BY <1>1, <1>5

\* A filter keeps the order.
LEMMA PickedAscends ==
    ASSUME NEW T, NEW q \in Seq(T), NEW R, Ascends(q, R), NEW S,
           NEW p, p = Picked(q, S)
    PROVE  Ascends(p, R)
<1>1. p \in Seq(T) /\ Lists(p, q, S \cap DOMAIN q)
      BY PickedLists
<1>2. PICK n \in Nat : n = Len(p) /\ DOMAIN p = 1..n
      BY <1>1
<1>3. PICK A : A = S \cap DOMAIN q
      OBVIOUS
<1>4. PICK at : Places(at, n, p, q, A)
      BY <1>1, <1>2, <1>3 DEF Lists
<1>5. /\ \A k \in 1..n : at[k] \in DOMAIN q /\ p[k] = q[at[k]]
      /\ \A k, l \in 1..n : k < l => at[k] < at[l]
      BY <1>3, <1>4 DEF Places
<1> QED
    BY <1>2, <1>5 DEF Ascends

\* Where in a list the entries in V are.
Found(s, V) == {i \in DOMAIN s : s[i] \in V}

\* They are those that the list has in common with V.
LEMMA Filtered ==
    ASSUME NEW s, NEW V
    PROVE  {s[i] : i \in Found(s, V) \cap DOMAIN s} = ToSet(s) \cap V
BY DEF ToSet, Found

\* What is left of the recorded file is the file of what was left.
LEMMA DropMatches ==
    ASSUME NEW T, NEW b \in Seq(T), DistinctIds(b), DistinctStarts(ToSet(b)),
           NEW e, e = envelope_from_spans(b), NEW V,
           NEW p, p = Picked(b, Found(b, V)),
           NEW q, q = Picked(e, Found(e, V))
    PROVE  q = envelope_from_spans(p)
<1>1. /\ e \in Seq(T) /\ ToSet(e) = ToSet(b) /\ DistinctIds(e)
      /\ Ascends(e, ByStartAndId(T))
      BY Enveloped
<1>4. /\ p \in Seq(T) /\ DistinctIds(p)
      /\ ToSet(p) = {b[i] : i \in Found(b, V) \cap DOMAIN b}
      BY PickedIds
<1>5. /\ q \in Seq(T) /\ ToSet(q) = {e[i] : i \in Found(e, V) \cap DOMAIN e}
      BY <1>1, PickedIds
<1>6. ToSet(p) = ToSet(b) \cap V
      BY <1>4, Filtered
<1>7. ToSet(q) = ToSet(e) \cap V
      BY <1>5, Filtered
<1>8. ToSet(q) = ToSet(p)
      BY <1>1, <1>6, <1>7
<1>9. DistinctStarts(ToSet(p))
      BY <1>6 DEF DistinctStarts
<1>10. Ascends(q, ByStartAndId(T))
       BY <1>1, PickedAscends
<1> QED
    BY <1>4, <1>5, <1>8, <1>9, <1>10, EnvelopeIs

-----------------------------------------------------------------------------
\* Lists with the same ids and starts, place by place.
Retold(p, b) ==
    /\ DOMAIN p = DOMAIN b
    /\ \A i \in DOMAIN b : p[i].id = b[i].id /\ p[i].start = b[i].start

\* They have the same order.
LEMMA RetoldFacts ==
    ASSUME NEW T, NEW b \in Seq(T), NEW U, NEW p \in Seq(U), Retold(p, b)
    PROVE  /\ Ascends(b, ByStartAndId(T)) => Ascends(p, ByStartAndId(U))
           /\ DistinctIds(b) => DistinctIds(p)
           /\ DistinctIds(b) /\ DistinctStarts(ToSet(b)) =>
                 DistinctStarts(ToSet(p))
<1>1. PICK n \in Nat : n = Len(b) /\ DOMAIN b = 1..n
      OBVIOUS
<1>2. /\ DOMAIN p = 1..n
      /\ \A i \in 1..n : p[i] \in U /\ p[i].id = b[i].id /\ p[i].start = b[i].start
      BY <1>1 DEF Retold
<1>3. ASSUME Ascends(b, ByStartAndId(T)) PROVE Ascends(p, ByStartAndId(U))
  <2> SUFFICES ASSUME NEW k \in 1..n, NEW l \in 1..n, k < l
               PROVE  <<p[k], p[l]>> \in ByStartAndId(U)
      BY <1>2 DEF Ascends
  <2>1. <<b[k], b[l]>> \in ByStartAndId(T)
        BY <1>1, <1>3 DEF Ascends
  <2>2. SpanBefore(b[k], b[l])
        BY <2>1 DEF ByStartAndId
  <2>3. SpanBefore(p[k], p[l])
        BY <1>2, <2>2 DEF SpanBefore
  <2> QED
      BY <1>2, <2>3 DEF ByStartAndId
<1>4. DistinctIds(b) => DistinctIds(p)
      BY <1>1, <1>2 DEF DistinctIds
<1>5. ASSUME DistinctIds(b), DistinctStarts(ToSet(b))
      PROVE  DistinctStarts(ToSet(p))
  <2>1. \A i \in 1..n : b[i] \in ToSet(b)
        BY <1>1 DEF ToSet
  <2>2. \A i \in 1..n : p[i].start \in Int /\ p[i].id \in Int
        BY <1>2, <1>5, <2>1 DEF DistinctStarts
  <2>3. ASSUME NEW i \in 1..n, NEW j \in 1..n, p[i].start = p[j].start
        PROVE  p[i] = p[j]
    <3>0. b[i].start = b[j].start
          BY <1>2, <2>3
    <3>1. b[i] = b[j]
          BY <1>5, <2>1, <3>0 DEF DistinctStarts
    <3>2. i = j
          BY <1>1, <1>5, <3>1 DEF DistinctIds
    <3> QED
        BY <3>2
  <2> QED
      BY <1>2, <2>2, <2>3 DEF DistinctStarts, ToSet
<1> QED
    BY <1>3, <1>4, <1>5

\* C changes spans and leaves their ids and starts alone.
Retells(C, V) ==
    /\ DOMAIN C = V
    /\ \A s \in V : C[s].id = s.id /\ C[s].start = s.start

\* A change of all spans of the recorded file gives the file of the changed
\* spans.
LEMMA ChangeMatches ==
    ASSUME NEW T, NEW b \in Seq(T), DistinctIds(b), DistinctStarts(ToSet(b)),
           NEW e, e = envelope_from_spans(b), NEW C, Retells(C, ToSet(b)),
           NEW p, p = [i \in DOMAIN b |-> C[b[i]]],
           NEW q, q = [i \in DOMAIN e |-> C[e[i]]]
    PROVE  q = envelope_from_spans(p)
<1>1. /\ e \in Seq(T) /\ ToSet(e) = ToSet(b) /\ DistinctIds(e)
      /\ Ascends(e, ByStartAndId(T))
      BY Enveloped
<1>2. PICK n \in Nat : n = Len(b) /\ DOMAIN b = 1..n
      OBVIOUS
<1>3. PICK m \in Nat : m = Len(e) /\ DOMAIN e = 1..m
      BY <1>1
<1>4. PICK U : U = {C[s] : s \in ToSet(b)}
      OBVIOUS
<1>5. \A i \in 1..n : b[i] \in ToSet(b) /\ p[i] = C[b[i]]
      BY <1>2 DEF ToSet
<1>6. \A i \in 1..m : e[i] \in ToSet(b) /\ q[i] = C[e[i]]
      BY <1>1, <1>3 DEF ToSet
<1>7. p \in [1..n -> U] /\ q \in [1..m -> U]
      BY <1>2, <1>3, <1>4, <1>5, <1>6
<1>8. /\ p \in Seq(U) /\ DOMAIN p = 1..n
      /\ q \in Seq(U) /\ DOMAIN q = 1..m
      BY <1>7, IsASeq
<1>9. Retold(p, b) /\ Retold(q, e)
      BY <1>2, <1>3, <1>5, <1>6, <1>8 DEF Retold, Retells
<1>10. ToSet(p) = U /\ ToSet(q) = U
  <2>1. ASSUME NEW s \in ToSet(b) PROVE C[s] \in ToSet(p) /\ C[s] \in ToSet(q)
    <3>1. PICK i \in 1..n : s = b[i]
          BY <1>2 DEF ToSet
    <3>2. PICK k \in 1..m : s = e[k]
          BY <1>1, <1>3 DEF ToSet
    <3> QED
        BY <1>5, <1>6, <1>8, <3>1, <3>2 DEF ToSet
  <2>2. ToSet(p) \subseteq U /\ ToSet(q) \subseteq U
        BY <1>7, <1>8 DEF ToSet
  <2> QED
      BY <1>4, <2>1, <2>2
<1>11. DistinctIds(p) /\ DistinctStarts(ToSet(p)) /\ Ascends(q, ByStartAndId(U))
       BY <1>1, <1>8, <1>9, RetoldFacts
<1> QED
    BY <1>8, <1>10, <1>11, EnvelopeIs

-----------------------------------------------------------------------------
\* p is b with the first span in V changed, if there is one.
FirstChange(p, b, V, C) ==
    LET hits == Found(b, V)
    IN  IF hits = {} THEN p = b
        ELSE IsChange(p, b, Min(hits), C[b[Min(hits)]])

IsExchange(W, V, s, x) == W = (V \ {s}) \cup {x}

\* A list with one entry replaced has the other entries still.
LEMMA OneExchanged ==
    ASSUME NEW T, NEW b \in Seq(T), Distinct(b), NEW m \in DOMAIN b, NEW x,
           NEW s, s = b[m], NEW p, IsChange(p, b, m, x),
           NEW W, IsExchange(W, ToSet(b), s, x)
    PROVE  p \in Seq(W) /\ ToSet(p) = W
<1>1. /\ DOMAIN p = DOMAIN b /\ p[m] = x
      /\ \A i \in DOMAIN b : i # m => p[i] = b[i]
      BY OneChanged
<1>2. \A i \in DOMAIN b : i # m => b[i] # s
      BY DEF Distinct
<1>3. \A i \in DOMAIN b : p[i] \in W
      BY <1>1, <1>2 DEF ToSet, IsExchange
<1>4. ASSUME NEW y \in W PROVE y \in ToSet(p)
  <2>1. CASE y = x
        BY <1>1, <2>1 DEF ToSet
  <2>2. CASE y # x
    <3>1. PICK i \in DOMAIN b : y = b[i] /\ y # s
          BY <2>2 DEF ToSet, IsExchange
    <3>2. i # m
          BY <3>1
    <3> QED
        BY <1>1, <3>1, <3>2 DEF ToSet
  <2> QED
      BY <2>1, <2>2
<1>5. ToSet(p) = W
      BY <1>1, <1>3, <1>4 DEF ToSet
<1>6. PICK n \in Nat : n = Len(b) /\ DOMAIN b = 1..n
      OBVIOUS
<1>7. p = [i \in 1..n |-> p[i]]
      BY <1>6 DEF IsChange
<1>8. p \in [1..n -> W]
      BY <1>3, <1>6, <1>7
<1> QED
    BY <1>5, <1>6, <1>8, IsASeq

\* The same with the first span in V, as long as those end in the order in
\* which they start.
LEMMA FirstMatches ==
    ASSUME NEW T, NEW b \in Seq(T), DistinctIds(b), DistinctStarts(ToSet(b)),
           NEW e, e = envelope_from_spans(b), NEW V, NEW C, Retells(C, V),
           \A i, j \in DOMAIN b : i < j /\ b[i] \in V /\ b[j] \in V =>
               b[i].start < b[j].start,
           NEW p, FirstChange(p, b, V, C), NEW q, FirstChange(q, e, V, C)
    PROVE  q = envelope_from_spans(p)
<1>1. /\ e \in Seq(T) /\ ToSet(e) = ToSet(b) /\ DistinctIds(e)
      /\ Ascends(e, ByStartAndId(T))
      BY Enveloped
<1>2. Distinct(b) /\ Distinct(e)
      BY <1>1, DistinctIdsAre
<1>3. PICK hits : hits = Found(b, V)
      OBVIOUS
<1>4. PICK spots : spots = Found(e, V)
      OBVIOUS
<1>5. /\ hits \in SUBSET Nat /\ \A i \in hits : i \in DOMAIN b /\ b[i] \in V
      /\ spots \in SUBSET Nat /\ \A i \in spots : i \in DOMAIN e /\ e[i] \in V
      BY <1>1, <1>3, <1>4 DEF Found
<1>6. ASSUME NEW i \in hits PROVE \E k \in spots : e[k] = b[i]
  <2>1. b[i] \in ToSet(e) /\ b[i] \in V
        BY <1>1, <1>5 DEF ToSet
  <2> QED
      BY <1>4, <2>1 DEF ToSet, Found
<1>7. ASSUME NEW k \in spots PROVE \E i \in hits : b[i] = e[k]
  <2>1. e[k] \in ToSet(b) /\ e[k] \in V
        BY <1>1, <1>5 DEF ToSet
  <2> QED
      BY <1>3, <2>1 DEF ToSet, Found
<1>8. CASE hits = {}
  <2>1. spots = {}
        BY <1>7, <1>8
  <2> QED
      BY <1>3, <1>4, <1>8, <2>1 DEF FirstChange
<1>9. CASE hits # {}
  <2>1. spots # {}
        BY <1>6, <1>9
  <2>2. PICK m : m = Min(hits)
        OBVIOUS
  <2>3. PICK k : k = Min(spots)
        OBVIOUS
  <2>4. m \in hits /\ \A i \in hits : m <= i
        BY <1>5, <1>9, <2>2, LeastHit
  <2>5. k \in spots /\ \A i \in spots : k <= i
        BY <1>5, <2>1, <2>3, LeastHit
  <2>6. PICK s : s = b[m]
        OBVIOUS
  <2>7. e[k] = s
    <3> SUFFICES ASSUME e[k] # s PROVE FALSE
        OBVIOUS
    <3>1. PICK j \in hits : b[j] = e[k]
          BY <1>7, <2>5
    <3>2. m < j
          BY <1>5, <2>4, <2>6, <3>1
    <3>3. b[m].start < b[j].start
          BY <1>5, <2>4, <3>2
    <3>4. PICK l \in spots : e[l] = b[m]
          BY <1>6, <2>4
    <3>5. k < l
          BY <1>5, <2>5, <2>6, <3>4
    <3>6. <<e[k], e[l]>> \in ByStartAndId(T)
          BY <1>1, <1>5, <2>5, <3>5 DEF Ascends
    <3>7. e[k].start <= e[l].start
      <4>1. SpanBefore(e[k], e[l])
            BY <3>6 DEF ByStartAndId
      <4>2. e[k] \in ToSet(b) /\ e[l] \in ToSet(b)
            BY <1>1, <1>5, <2>5 DEF ToSet
      <4>3. e[k].start \in Int /\ e[l].start \in Int
            BY <4>2 DEF DistinctStarts
      <4> QED
          BY <4>1, <4>3 DEF SpanBefore
    <3>8. b[m] \in ToSet(b) /\ b[j] \in ToSet(b)
          BY <1>5, <2>4 DEF ToSet
    <3>9. b[m].start \in Int /\ b[j].start \in Int
          BY <3>8 DEF DistinctStarts
    <3>10. b[j].start <= b[m].start
           BY <3>1, <3>4, <3>7
    <3> QED
        BY <3>3, <3>9, <3>10
  <2>8. PICK x : x = C[s]
        OBVIOUS
  <2>9. IsChange(p, b, m, x) /\ IsChange(q, e, k, x)
    <3>1. IsChange(p, b, m, C[b[m]])
          BY <1>3, <1>9, <2>2 DEF FirstChange
    <3>2. IsChange(q, e, k, C[e[k]])
          BY <1>4, <2>1, <2>3 DEF FirstChange
    <3> QED
        BY <2>6, <2>7, <2>8, <3>1, <3>2
  <2>10. PICK W : IsExchange(W, ToSet(b), s, x)
         BY DEF IsExchange
  <2>11. m \in DOMAIN b /\ k \in DOMAIN e /\ s \in V
         BY <1>5, <2>4, <2>5, <2>6
  <2>12. p \in Seq(W) /\ ToSet(p) = W
         BY <1>2, <2>6, <2>9, <2>10, <2>11, OneExchanged
  <2>13. q \in Seq(W) /\ ToSet(q) = W
    <3>1. IsExchange(W, ToSet(e), s, x)
          BY <1>1, <2>10
    <3>2. s = e[k]
          BY <2>7
    <3> QED
        BY <1>1, <1>2, <2>9, <2>11, <3>1, <3>2, OneExchanged
  <2>14. x.id = s.id /\ x.start = s.start
         BY <2>8, <2>11 DEF Retells
  <2>15. Retold(p, b)
    <3>1. /\ DOMAIN p = DOMAIN b /\ p[m] = x
          /\ \A i \in DOMAIN b : i # m => p[i] = b[i]
          BY <2>9, <2>11, OneChanged
    <3> QED
        BY <2>6, <2>14, <3>1 DEF Retold
  <2>16. Retold(q, e)
    <3>1. /\ DOMAIN q = DOMAIN e /\ q[k] = x
          /\ \A i \in DOMAIN e : i # k => q[i] = e[i]
          BY <1>1, <2>9, <2>11, OneChanged
    <3> QED
        BY <2>7, <2>14, <3>1 DEF Retold
  <2>19. p \in Seq(W) /\ q \in Seq(W)
         BY <2>12, <2>13
  <2>20. e \in Seq(T) /\ Ascends(e, ByStartAndId(T))
         BY <1>1
  <2>21. DistinctIds(p)
         BY <2>15, <2>19, RetoldFacts
  <2>22. DistinctIds(b) /\ DistinctStarts(ToSet(b)) => DistinctStarts(ToSet(p))
         BY <2>15, <2>19, RetoldFacts
  <2>17. DistinctIds(p) /\ DistinctStarts(ToSet(p))
         BY <2>21, <2>22
  <2>18. Ascends(q, ByStartAndId(W))
         BY <2>16, <2>19, <2>20, RetoldFacts
  <2> QED
      BY <2>12, <2>13, <2>17, <2>18, EnvelopeIs
<1> QED
    BY <1>8, <1>9

-----------------------------------------------------------------------------
\* None of these changes touches an id or a start.
LEMMA StartsKept ==
    ASSUME NEW s, IsARecord(s)
    PROVE  /\ \A x : LET t == [s EXCEPT !.callId = x]
                     IN  t.id = s.id /\ t.start = s.start
           /\ \A x : LET t == [s EXCEPT !.system = x]
                     IN  t.id = s.id /\ t.start = s.start
           /\ \A x : LET t == [s EXCEPT !.links = x]
                     IN  t.id = s.id /\ t.start = s.start
           /\ \A x : LET t == [s EXCEPT !.closed = x]
                     IN  t.id = s.id /\ t.start = s.start
           /\ \A x, y, z : LET t == [s EXCEPT !.final = x, !.output = y,
                                              !.contract = z]
                           IN  t.id = s.id /\ t.start = s.start
<1>1. Fields \subseteq DOMAIN s
      BY DEF IsARecord
<1>2. {"id", "start", "callId", "system", "links", "closed", "final", "output",
       "contract"} \subseteq DOMAIN s
      BY <1>1 DEF Fields
<1> QED
    BY <1>2

\* What each fault that changes one span does to a list.
LEMMA FirstToolChanges ==
    ASSUME NEW b, DOMAIN b \subseteq Nat, NEW D, D = ToSet(b),
           NEW V, V = {s \in D : IsTool(s)},
           NEW C, C = [s \in V |-> [s EXCEPT !.callId = ForgedCall]],
           NEW p, p = ChangeFirst(b, IsTool,
                                  LAMBDA s : [s EXCEPT !.callId = ForgedCall])
    PROVE  FirstChange(p, b, V, C)
<1>1. PICK S : S = {i \in DOMAIN b : IsTool(b[i])}
      OBVIOUS
<1>2. PICK m : m = Min(S)
      OBVIOUS
<1>3. IF S = {} THEN p = b
      ELSE IsChange(p, b, m, [b[m] EXCEPT !.callId = ForgedCall])
      BY <1>1, <1>2 DEF ChangeFirst, IsChange
<1>4. S = Found(b, V)
      BY <1>1 DEF Found, ToSet
<1>5. ASSUME S # {} PROVE C[b[m]] = [b[m] EXCEPT !.callId = ForgedCall]
  <2>1. m \in S
        BY <1>1, <1>2, <1>5, LeastHit
  <2>2. b[m] \in V
        BY <1>1, <2>1 DEF ToSet
  <2> QED
      BY <2>2
<1> QED
    BY <1>2, <1>3, <1>4, <1>5 DEF FirstChange

\* The same of the first turn.
LEMMA FirstChatChanges ==
    ASSUME NEW b, DOMAIN b \subseteq Nat, NEW D, D = ToSet(b),
           NEW V, V = {s \in D : IsChat(s)},
           NEW C, C = [s \in V |-> [s EXCEPT !.system = FALSE]],
           NEW p, p = ChangeFirst(b, IsChat,
                                  LAMBDA s : [s EXCEPT !.system = FALSE])
    PROVE  FirstChange(p, b, V, C)
<1>1. PICK S : S = {i \in DOMAIN b : IsChat(b[i])}
      OBVIOUS
<1>2. PICK m : m = Min(S)
      OBVIOUS
<1>3. IF S = {} THEN p = b
      ELSE IsChange(p, b, m, [b[m] EXCEPT !.system = FALSE])
      BY <1>1, <1>2 DEF ChangeFirst, IsChange
<1>4. S = Found(b, V)
      BY <1>1 DEF Found, ToSet
<1>5. ASSUME S # {} PROVE C[b[m]] = [b[m] EXCEPT !.system = FALSE]
  <2>1. m \in S
        BY <1>1, <1>2, <1>5, LeastHit
  <2>2. b[m] \in V
        BY <1>1, <2>1 DEF ToSet
  <2> QED
      BY <2>2
<1> QED
    BY <1>2, <1>3, <1>4, <1>5 DEF FirstChange

\* A span whose first link leads nowhere.
Unlinked(s) == [s EXCEPT !.links = [s.links EXCEPT ![1] = ForeignSpan]]

\* Reading the first link of a list away changes one span of it.
LEMMA FirstLinkChanges ==
    ASSUME NEW b, DOMAIN b \subseteq Nat, NEW D, D = ToSet(b),
           NEW V, V = {s \in D : s.links # <<>>},
           NEW C, C = [s \in V |-> Unlinked(s)],
           NEW p, p = orphan_first_link(b)
    PROVE  FirstChange(p, b, V, C)
<1>1. PICK S : S = {i \in DOMAIN b : b[i].links # <<>>}
      OBVIOUS
<1>2. PICK m : m = Min(S)
      OBVIOUS
<1>3. IF S = {} THEN p = b ELSE IsChange(p, b, m, Unlinked(b[m]))
      BY <1>1, <1>2 DEF orphan_first_link, ChangeFirst, IsChange, Unlinked
<1>4. S = Found(b, V)
      BY <1>1 DEF Found, ToSet
<1>5. ASSUME S # {} PROVE C[b[m]] = Unlinked(b[m])
  <2>1. m \in S
        BY <1>1, <1>2, <1>5, LeastHit
  <2>2. b[m] \in V
        BY <1>1, <2>1 DEF ToSet
  <2> QED
      BY <2>2
<1> QED
    BY <1>2, <1>3, <1>4, <1>5 DEF FirstChange

\* Turns and tool calls end in the order in which they start.
LEMMA InOrder ==
    ASSUME EvidenceInv, phase = "closed",
           NEW V, \A s \in V : ~IsAgent(s)
    PROVE  \A i, j \in DOMAIN batch : i < j /\ batch[i] \in V /\ batch[j] \in V
               => batch[i].start < batch[j].start
<1> SUFFICES ASSUME NEW i \in DOMAIN batch, NEW j \in DOMAIN batch, i < j,
                    batch[j] \in V
             PROVE  batch[i].start < batch[j].start
    OBVIOUS
<1>1. PICK T : batch \in Seq(T)
      BY ClosedBatch
<1>2. Ended(batch[i]) /\ Ended(batch[j])
      BY ClosedBatch
<1>3. i \in 1..j - 1
      BY <1>1
<1>4. batch[i].end <= batch[j].start
      BY <1>3 DEF EvidenceInv, ShapeInv
<1> QED
    BY <1>2, <1>4 DEF Ended

\* The faults that drop spans.
LEMMA DropsReplay ==
    ASSUME EvidenceInv, phase = "closed",
           NEW fault \in {"drop_parent", "drop_child", "drop_tool_result"},
           NEW e, e = envelope_from_spans(batch)
    PROVE  apply_evidence_fault(e, fault) = envelope_from_spans(export(fault, batch))
<1>1. PICK T : batch \in Seq(T)
      BY ClosedBatch
<1>2. DistinctIds(batch) /\ DistinctStarts(ToSet(batch))
      BY ClosedBatch
<1>3. ToSet(e) = ToSet(batch)
      BY <1>1, <1>2, Enveloped
<1>4. PICK p : p = export(fault, batch)
      OBVIOUS
<1>5. PICK q : q = apply_evidence_fault(e, fault)
      OBVIOUS
<1>6. \E V : p = Picked(batch, Found(batch, V)) /\ q = Picked(e, Found(e, V))
  <2>1. CASE fault = "drop_parent"
    <3>1. PICK V : V = {s \in ToSet(batch) : ~(IsAgent(s) /\ s.parent = NoSpan)}
          OBVIOUS
    <3>2. /\ Found(batch, V) = {i \in DOMAIN batch :
                 ~(IsAgent(batch[i]) /\ batch[i].parent = NoSpan)}
          /\ Found(e, V) = {i \in DOMAIN e :
                 ~(IsAgent(e[i]) /\ e[i].parent = NoSpan)}
          BY <1>3, <3>1 DEF Found, ToSet
    <3>3. /\ p = Picked(batch, Found(batch, V)) /\ q = Picked(e, Found(e, V))
          BY <1>4, <1>5, <2>1, <3>2 DEF export, apply_evidence_fault, Dropping
    <3> QED
        BY <3>3
  <2>2. CASE fault = "drop_child"
    <3>1. PICK V : V = {s \in ToSet(batch) : ~(IsAgent(s) /\ s.parent # NoSpan)}
          OBVIOUS
    <3>2. /\ Found(batch, V) = {i \in DOMAIN batch :
                 ~(IsAgent(batch[i]) /\ batch[i].parent # NoSpan)}
          /\ Found(e, V) = {i \in DOMAIN e :
                 ~(IsAgent(e[i]) /\ e[i].parent # NoSpan)}
          BY <1>3, <3>1 DEF Found, ToSet
    <3>3. /\ p = Picked(batch, Found(batch, V)) /\ q = Picked(e, Found(e, V))
          BY <1>4, <1>5, <2>2, <3>2 DEF export, apply_evidence_fault, Dropping
    <3> QED
        BY <3>3
  <2>3. CASE fault = "drop_tool_result"
    <3>1. PICK V : V = {s \in ToSet(batch) : ~IsTool(s)}
          OBVIOUS
    <3>2. /\ Found(batch, V) = {i \in DOMAIN batch : ~IsTool(batch[i])}
          /\ Found(e, V) = {i \in DOMAIN e : ~IsTool(e[i])}
          BY <1>3, <3>1 DEF Found, ToSet
    <3>3. /\ p = Picked(batch, Found(batch, V)) /\ q = Picked(e, Found(e, V))
          BY <1>4, <1>5, <2>3, <3>2 DEF export, apply_evidence_fault, Dropping
    <3> QED
        BY <3>3
  <2> QED
      BY <2>1, <2>2, <2>3
<1>7. PICK V : p = Picked(batch, Found(batch, V)) /\ q = Picked(e, Found(e, V))
      BY <1>6
<1>8. q = envelope_from_spans(p)
      BY <1>1, <1>2, <1>7, DropMatches
<1> QED
    BY <1>4, <1>5, <1>8

\* The faults that change every span.
LEMMA ChangesReplay ==
    ASSUME EvidenceInv, phase = "closed",
           NEW fault \in {"truncate_final", "truncate_closed", "drop_link"},
           NEW e, e = envelope_from_spans(batch)
    PROVE  apply_evidence_fault(e, fault) = envelope_from_spans(export(fault, batch))
<1>1. PICK T : batch \in Seq(T)
      BY ClosedBatch
<1>2. DistinctIds(batch) /\ DistinctStarts(ToSet(batch))
      BY ClosedBatch
<1>3. PICK D : D = ToSet(batch)
      OBVIOUS
<1>4. ToSet(e) = D
      BY <1>1, <1>2, <1>3, Enveloped
<1>5. \A s \in D : IsARecord(s)
      BY <1>3, ClosedBatch DEF ToSet, WellFormed
<1>6. PICK p : p = export(fault, batch)
      OBVIOUS
<1>7. PICK q : q = apply_evidence_fault(e, fault)
      OBVIOUS
<1>8. (\A i \in DOMAIN batch : batch[i] \in D) /\ \A i \in DOMAIN e : e[i] \in D
      BY <1>3, <1>4 DEF ToSet
<1>9. \E C : /\ Retells(C, D) /\ p = [i \in DOMAIN batch |-> C[batch[i]]]
             /\ q = [i \in DOMAIN e |-> C[e[i]]]
  <2>1. CASE fault = "truncate_final"
    <3>1. PICK C : C = [s \in D |-> [s EXCEPT
                !.final = FALSE, !.output = "none", !.contract = FALSE]]
          OBVIOUS
    <3>3. \A s \in D : C[s] = [s EXCEPT
                !.final = FALSE, !.output = "none", !.contract = FALSE]
          BY <3>1
    <3>7. ASSUME NEW s \in D
          PROVE  C[s].id = s.id /\ C[s].start = s.start
      <4>1. {"id", "start", "final", "output", "contract"} \subseteq DOMAIN s
            BY <1>5, <3>7 DEF IsARecord, Fields
      <4> QED
          BY <3>3, <3>7, <4>1
    <3>2. Retells(C, D)
          BY <3>1, <3>7 DEF Retells
    <3>8. p = truncate_final_markers(batch)
          BY <1>6, <2>1 DEF export
    <3>9. q = ChangeAll(e, LAMBDA s : [s EXCEPT
                !.final = FALSE, !.output = "none", !.contract = FALSE])
          BY <1>7, <2>1 DEF apply_evidence_fault
    <3>5. p = [i \in DOMAIN batch |-> C[batch[i]]]
          BY <1>8, <3>3, <3>8 DEF truncate_final_markers, ChangeAll
    <3>6. q = [i \in DOMAIN e |-> C[e[i]]]
          BY <1>8, <3>3, <3>9 DEF ChangeAll
    <3> QED
        BY <3>2, <3>5, <3>6
  <2>2. CASE fault = "truncate_closed"
    <3>1. PICK C : C = [s \in D |-> [s EXCEPT !.closed = FALSE]]
          OBVIOUS
    <3>2. Retells(C, D)
          BY <1>5, <3>1, StartsKept DEF Retells
    <3>3. /\ p = [i \in DOMAIN batch |-> C[batch[i]]]
          /\ q = [i \in DOMAIN e |-> C[e[i]]]
          BY <1>6, <1>7, <1>8, <2>2, <3>1
             DEF export, apply_evidence_fault, truncate_closed_marker, ChangeAll
    <3> QED
        BY <3>2, <3>3
  <2>3. CASE fault = "drop_link"
    <3>1. PICK C : C = [s \in D |-> [s EXCEPT !.links = <<>>]]
          OBVIOUS
    <3>2. Retells(C, D)
          BY <1>5, <3>1, StartsKept DEF Retells
    <3>3. /\ p = [i \in DOMAIN batch |-> C[batch[i]]]
          /\ q = [i \in DOMAIN e |-> C[e[i]]]
          BY <1>6, <1>7, <1>8, <2>3, <3>1
             DEF export, apply_evidence_fault, strip_links, ChangeAll
    <3> QED
        BY <3>2, <3>3
  <2> QED
      BY <2>1, <2>2, <2>3
<1>10. PICK C : /\ Retells(C, D) /\ p = [i \in DOMAIN batch |-> C[batch[i]]]
                /\ q = [i \in DOMAIN e |-> C[e[i]]]
       BY <1>9
<1>11. Retells(C, ToSet(batch))
       BY <1>3, <1>10
<1>12. q = envelope_from_spans(p)
       BY <1>1, <1>2, <1>10, <1>11, ChangeMatches
<1> QED
    BY <1>6, <1>7, <1>12

\* The faults that change one span.
LEMMA FirstsReplay ==
    ASSUME EvidenceInv, phase = "closed",
           NEW fault \in {"mismatch_tool_id", "drop_attribute", "orphan_link_target"},
           NEW e, e = envelope_from_spans(batch)
    PROVE  apply_evidence_fault(e, fault) = envelope_from_spans(export(fault, batch))
<1>1. PICK T : batch \in Seq(T)
      BY ClosedBatch
<1>2. DistinctIds(batch) /\ DistinctStarts(ToSet(batch))
      BY ClosedBatch
<1>3. PICK D : D = ToSet(batch)
      OBVIOUS
<1>4. ToSet(e) = D /\ e \in Seq(T)
      BY <1>1, <1>2, <1>3, Enveloped
<1>5. \A s \in D : WellFormed(s) /\ IsARecord(s)
      BY <1>3, ClosedBatch DEF ToSet, WellFormed
<1>6. PICK p : p = export(fault, batch)
      OBVIOUS
<1>7. PICK q : q = apply_evidence_fault(e, fault)
      OBVIOUS
<1>8. DOMAIN batch \subseteq Nat /\ DOMAIN e \subseteq Nat
      BY <1>1, <1>4
<1>9. \E V, C : /\ Retells(C, V) /\ \A s \in V : ~IsAgent(s)
                /\ FirstChange(p, batch, V, C) /\ FirstChange(q, e, V, C)
  <2>1. CASE fault = "mismatch_tool_id"
    <3>1. PICK V : V = {s \in D : IsTool(s)}
          OBVIOUS
    <3>2. PICK C : C = [s \in V |-> [s EXCEPT !.callId = ForgedCall]]
          OBVIOUS
    <3>3. Retells(C, V)
          BY <1>5, <3>1, <3>2, StartsKept DEF Retells
    <3>4. \A s \in V : ~IsAgent(s)
          BY <3>1 DEF IsTool, IsAgent
    <3>5. p = ChangeFirst(batch, IsTool,
                          LAMBDA s : [s EXCEPT !.callId = ForgedCall])
          BY <1>6, <2>1 DEF export, rewrite_first_tool_id
    <3>6. q = ChangeFirst(e, IsTool,
                          LAMBDA s : [s EXCEPT !.callId = ForgedCall])
          BY <1>7, <2>1 DEF apply_evidence_fault
    <3>7. FirstChange(p, batch, V, C)
          BY <1>3, <1>8, <3>1, <3>2, <3>5, FirstToolChanges
    <3>8. FirstChange(q, e, V, C)
          BY <1>4, <1>8, <3>1, <3>2, <3>6, FirstToolChanges
    <3> QED
        BY <3>3, <3>4, <3>7, <3>8
  <2>2. CASE fault = "drop_attribute"
    <3>1. PICK V : V = {s \in D : IsChat(s)}
          OBVIOUS
    <3>2. PICK C : C = [s \in V |-> [s EXCEPT !.system = FALSE]]
          OBVIOUS
    <3>3. Retells(C, V)
          BY <1>5, <3>1, <3>2, StartsKept DEF Retells
    <3>4. \A s \in V : ~IsAgent(s)
          BY <3>1 DEF IsChat, IsAgent
    <3>5. p = ChangeFirst(batch, IsChat, LAMBDA s : [s EXCEPT !.system = FALSE])
          BY <1>6, <2>2 DEF export, drop_required_attribute
    <3>6. q = ChangeFirst(e, IsChat, LAMBDA s : [s EXCEPT !.system = FALSE])
          BY <1>7, <2>2 DEF apply_evidence_fault
    <3>7. FirstChange(p, batch, V, C)
          BY <1>3, <1>8, <3>1, <3>2, <3>5, FirstChatChanges
    <3>8. FirstChange(q, e, V, C)
          BY <1>4, <1>8, <3>1, <3>2, <3>6, FirstChatChanges
    <3> QED
        BY <3>3, <3>4, <3>7, <3>8
  <2>3. CASE fault = "orphan_link_target"
    <3>1. PICK V : V = {s \in D : s.links # <<>>}
          OBVIOUS
    <3>2. PICK C : C = [s \in V |-> Unlinked(s)]
          OBVIOUS
    <3>3. Retells(C, V)
          BY <1>5, <3>1, <3>2, StartsKept DEF Retells, Unlinked
    <3>4. \A s \in V : ~IsAgent(s)
          BY <1>5, <3>1 DEF WellFormed, IsChat, IsAgent
    <3>5. p = orphan_first_link(batch)
          BY <1>6, <2>3 DEF export
    <3>6. q = orphan_first_link(e)
          BY <1>7, <2>3 DEF apply_evidence_fault, orphan_first_link
    <3>7. FirstChange(p, batch, V, C)
          BY <1>3, <1>8, <3>1, <3>2, <3>5, FirstLinkChanges
    <3>8. FirstChange(q, e, V, C)
          BY <1>4, <1>8, <3>1, <3>2, <3>6, FirstLinkChanges
    <3> QED
        BY <3>3, <3>4, <3>7, <3>8
  <2> QED
      BY <2>1, <2>2, <2>3
<1>10. PICK V, C : /\ Retells(C, V) /\ \A s \in V : ~IsAgent(s)
                   /\ FirstChange(p, batch, V, C) /\ FirstChange(q, e, V, C)
       BY <1>9
<1>11. \A i, j \in DOMAIN batch : i < j /\ batch[i] \in V /\ batch[j] \in V
           => batch[i].start < batch[j].start
       BY <1>10, InOrder
<1>12. q = envelope_from_spans(p)
       BY <1>1, <1>2, <1>10, <1>11, FirstMatches
<1> QED
    BY <1>6, <1>7, <1>12

\* "replay must derive the same evidence fault the live exporter injects, or
\* a replayed artifact silently measures a different mutation"
\* (test_replay_parity.py:1): so it does, for every run and every fault but
\* the four that depend on the order of the spans.
THEOREM ReplayAgrees == PipelineSpec => []ReplayMatchesLive
<1>1. PipelineInv => ReplayMatchesLive
  <2> SUFFICES ASSUME PipelineInv, Reported(Faults \ OrderDependent)
               PROVE  apply_evidence_fault(report.recorded, report.fault)
                          = envelope_from_spans(export(report.fault, batch))
      BY DEF ReplayMatchesLive
  <2>1. PICK fault \in Faults \ OrderDependent : fault = report.fault
        BY DEF Reported
  <2>2. Exported(fault) /\ phase = "closed"
    <3>1. report # NoReport
          BY DEF Reported
    <3>2. fault # "scheduled_export"
          BY <2>1 DEF Faults, EvidenceFaults
    <3> QED
        BY <2>1, <3>1, <3>2 DEF PipelineInv, ReportInv, Exported, Halved
  <2>3. PICK e : e = envelope_from_spans(batch)
        OBVIOUS
  <2>4. report.recorded = e
        BY <2>2, <2>3 DEF Exported
  <2>5. EvidenceInv
        BY DEF PipelineInv
  <2>6. \/ fault = "none"
        \/ fault \in {"drop_parent", "drop_child", "drop_tool_result"}
        \/ fault \in {"truncate_final", "truncate_closed", "drop_link"}
        \/ fault \in {"mismatch_tool_id", "drop_attribute", "orphan_link_target"}
        BY <2>1 DEF Faults, EvidenceFaults, OrderDependent
  <2>7. apply_evidence_fault(e, fault) = envelope_from_spans(export(fault, batch))
    <3>1. CASE fault = "none"
          BY <2>3, <3>1 DEF apply_evidence_fault, export
    <3> QED
        BY <2>2, <2>3, <2>5, <2>6, <3>1, DropsReplay, ChangesReplay, FirstsReplay
  <2> QED
      BY <2>1, <2>4, <2>7
<1> QED
    BY <1>1, PipelineInvariant, PTL

-----------------------------------------------------------------------------
\* The run of a closed batch: its spans, each of them once.
LEMMA CleanSteps ==
    ASSUME EvidenceInv, phase = "closed",
           NEW run, run = Reconstruct(batch)
    PROVE  /\ StepsOf(run) = ToSet(batch) /\ Distinct(run.steps)
           /\ run.steps \in Seq(ToSet(batch))
           /\ IdsTell(ToSet(batch))
           /\ \A s \in ToSet(batch) : s.parent = NoSpan \/ s.parent \in Ids(batch)
<1>1. PICK T : batch \in Seq(T)
      BY ClosedBatch
<1>2. PICK L : L = Len(batch)
      OBVIOUS
<1>3. /\ DistinctIds(batch) /\ DistinctStarts(ToSet(batch))
      /\ Family(ToSet(batch)) /\ Closed(L)
      BY <1>2, ClosedBatch
<1>4. DOMAIN batch = 1..L
      BY <1>3 DEF Closed
<1>5. IdsTell(ToSet(batch))
      BY <1>3, DistinctIdsAre
<1>6. Upward(ToSet(batch))
  <2>1. \A i \in 1..L : Ended(batch[i])
        BY <1>3 DEF Closed
  <2>2. \A s \in ToSet(batch) : s.id \in Nat /\ s.parent \in Int /\ s.parent < s.id
        BY <1>4, <2>1 DEF ToSet, Ended
  <2> QED
      BY <1>5, <2>2 DEF Upward
<1>7. \A s \in ToSet(batch) : s.parent = NoSpan \/ s.parent \in Ids(batch)
  <2>1. \E r \in ToSet(batch) : r.id = RootId
        BY <1>3 DEF Family
  <2>2. \A w \in ToSet(batch) : w.id \in Ids(batch)
        BY DEF Ids
  <2>3. RootId \in Ids(batch)
        BY <2>1, <2>2
  <2> QED
      BY <1>3, <2>2, <2>3 DEF Family
<1>8. StepsOf(run) = ToSet(batch) /\ run.steps \in Seq(ToSet(batch))
      BY <1>1, <1>3, FamilyRun, RunFacts
<1>9. Distinct(run.steps)
      BY <1>1, <1>3, <1>6, <1>7, TreeRun
<1> QED
    BY <1>5, <1>7, <1>8, <1>9

\* Neither span nor token is counted that the run did not have.
LEMMA CleanBudget ==
    ASSUME EvidenceInv, phase = "closed", ~Misbehaved,
           NEW run, run = Reconstruct(batch)
    PROVE  ~CheckBudget(run)
<1>1. PICK T : batch \in Seq(T)
      BY ClosedBatch
<1>2. \A i \in DOMAIN batch : Ended(batch[i])
      BY ClosedBatch
<1>3. PICK n \in Nat : n = Len(batch) /\ DOMAIN batch = 1..n
      BY <1>1
<1>4. PICK steps : steps = run.steps
      OBVIOUS
<1>5. steps \in Seq(ToSet(batch)) /\ Distinct(steps)
      BY <1>4, CleanSteps
<1>6. PICK m \in Nat : m = Len(steps) /\ DOMAIN steps = 1..m
      BY <1>5
<1>7. \A j \in 1..m : steps[j] \in ToSet(batch)
      BY <1>5, <1>6
<1>8. \A j \in 1..m : \E i \in 1..n : steps[j] = batch[i]
      BY <1>3, <1>7 DEF ToSet
<1>9. PICK g : g = [j \in 1..m |-> CHOOSE i \in 1..n : steps[j] = batch[i]]
      OBVIOUS
<1>10. g \in [1..m -> 1..n] /\ \A j \in 1..m : steps[j] = batch[g[j]]
       BY <1>8, <1>9
<1>11. \A i, j \in 1..m : g[i] = g[j] => i = j
       BY <1>5, <1>6, <1>10 DEF Distinct
<1>12. Counted(batch, 1..n) /\ Counted(steps, 1..m)
  <2>1. \A s \in ToSet(batch) : s.tokens \in Nat
        BY <1>2 DEF ToSet, Ended
  <2> QED
      BY <1>2, <1>3, <1>7, <2>1 DEF Counted, Ended
<1>13. m <= n /\ Spent(steps, 1..m) <= Spent(batch, 1..n)
       BY <1>10, <1>11, <1>12, OccursSpendsLess
<1>14. Spent(batch, 1..n) \in Nat /\ Spent(steps, 1..m) \in Nat
  <2>1. IsFiniteSet(1..n) /\ IsFiniteSet(1..m)
        BY FS_Interval
  <2> QED
      BY <1>12, <2>1, SpentCounts
<1>15. ~(n > MaxSpans) /\ ~(Spent(batch, 1..n) > MaxRunTokens)
       BY <1>3 DEF Misbehaved, Spent
<1>16. ~(m > MaxSpans) /\ ~(Spent(steps, 1..m) > MaxRunTokens)
       BY <1>13, <1>14, <1>15, ChecksAssumption
<1> QED
    BY <1>4, <1>6, <1>16 DEF CheckBudget, Spent

\* Nothing that an agent did breaks a contract, the policy or the status.
LEMMA CleanSpans ==
    ASSUME EvidenceInv, phase = "closed", ~Misbehaved,
           NEW run, run = Reconstruct(batch)
    PROVE  ~CheckSchema(run) /\ ~CheckPolicy(run) /\ ~CheckStatus(run)
<1>1. StepsOf(run) = ToSet(batch)
      BY CleanSteps
<1>2. \A i \in DOMAIN batch : WellFormed(batch[i]) /\ Ended(batch[i])
      BY ClosedBatch
<1>3. \A s \in StepsOf(run) : \E i \in DOMAIN batch : s = batch[i]
      BY <1>1 DEF ToSet
<1>4. ASSUME NEW i \in DOMAIN batch
      PROVE  /\ ~(batch[i].contract /\ batch[i].output # "good")
             /\ ~(IsTool(batch[i]) /\ batch[i].tool \notin AllowedTools)
             /\ ~batch[i].error
  <2>1. /\ ~batch[i].error
        /\ ~(IsTool(batch[i]) /\ batch[i].tool \notin AllowedTools)
        /\ ~(batch[i].contract /\ batch[i].output = "bad")
        BY DEF Misbehaved
  <2>2. batch[i].output \in {"none", "good", "bad"}
        BY <1>2 DEF Ended, Outputs
  <2>3. batch[i].contract => batch[i].output # "none"
        BY <1>2 DEF WellFormed
  <2> QED
      BY <2>1, <2>2, <2>3
<1> QED
    BY <1>3, <1>4 DEF CheckSchema, CheckPolicy, CheckStatus

\* The tool calls of the run are those of the batch, each once.
LEMMA CleanTools ==
    ASSUME EvidenceInv, phase = "closed",
           NEW run, run = Reconstruct(batch),
           NEW tools, tools = ToolCalls(run)
    PROVE  /\ tools \in Seq(ToSet(batch)) /\ Distinct(tools)
           /\ ToSet(tools) = {s \in ToSet(batch) : IsTool(s)}
<1>1. PICK T : batch \in Seq(T)
      BY ClosedBatch
<1>2. PICK steps : steps = run.steps
      OBVIOUS
<1>3. /\ StepsOf(run) = ToSet(batch) /\ Distinct(steps)
      /\ steps \in Seq(ToSet(batch))
      BY <1>2, CleanSteps
<1>4. PICK S : S = {i \in DOMAIN steps : IsTool(steps[i])}
      OBVIOUS
<1>5. tools = Picked(steps, S)
      BY <1>2, <1>4 DEF ToolCalls
<1>6. tools \in Seq(ToSet(batch))
      BY <1>3, <1>5, PickedFacts
<1>7. Distinct(tools)
  <2>1. \A i, j \in S \cap DOMAIN steps : steps[i] = steps[j] => i = j
        BY <1>3 DEF Distinct
  <2> QED
      BY <1>3, <1>5, <2>1, PickedDistinct
<1>8. ToSet(tools) = {s \in StepsOf(run) : IsTool(s)}
      BY <1>1, ToolCallsAre
<1> QED
    BY <1>3, <1>6, <1>7, <1>8

\* What the loop verifier looks for in the sequence of calls.
Loops(seq) ==
    \/ \E i \in DOMAIN seq :
          Cardinality({l \in DOMAIN seq : seq[l] = seq[i]}) > MaxRepetitions
    \/ \E i \in 1..Len(seq) - 3 :
          seq[i] = seq[i + 2] /\ seq[i + 1] = seq[i + 3] /\ seq[i] # seq[i + 1]

\* Calls that all differ are no loop.
LEMMA CleanLoop ==
    ASSUME EvidenceInv, phase = "closed", ~Repetitive,
           NEW run, run = Reconstruct(batch)
    PROVE  ~CheckLoop(run)
<1>1. PICK T : batch \in Seq(T)
      BY ClosedBatch
<1>2. PICK n \in Nat : n = Len(batch) /\ DOMAIN batch = 1..n
      BY <1>1
<1>3. PICK f : f = [i \in ToolSpans |-> <<batch[i].tool, batch[i].args>>]
      OBVIOUS
<1>4. PICK C : C = {<<batch[i].tool, batch[i].args>> : i \in ToolSpans}
      OBVIOUS
<1>5. f \in Surjection(ToolSpans, C)
      BY <1>3, <1>4 DEF Surjection
<1>6. IsFiniteSet(ToolSpans)
  <2>1. ToolSpans \in SUBSET (1..n)
        BY <1>2 DEF ToolSpans
  <2>2. IsFiniteSet(1..n)
        BY FS_Interval
  <2> QED
      BY <2>1, <2>2, FS_Subset
<1>7. Cardinality(C) = Cardinality(ToolSpans)
      BY <1>4 DEF Repetitive, ToolSpans
<1>8. f \in Injection(ToolSpans, C)
      BY <1>5, <1>6, <1>7, FS_Surjection
<1>9. \A i, j \in ToolSpans : f[i] = f[j] => i = j
      BY <1>8 DEF Injection, IsInjective
<1>10. PICK tools : tools = ToolCalls(run)
       OBVIOUS
<1>11. /\ tools \in Seq(ToSet(batch)) /\ Distinct(tools)
       /\ ToSet(tools) = {s \in ToSet(batch) : IsTool(s)}
       BY <1>10, CleanTools
<1>12. PICK m \in Nat : m = Len(tools) /\ DOMAIN tools = 1..m
       BY <1>11
<1>13. \A k \in 1..m : \E i \in ToolSpans : tools[k] = batch[i]
  <2>1. \A k \in 1..m : tools[k] \in ToSet(tools)
        BY <1>12 DEF ToSet
  <2> QED
      BY <1>11, <2>1 DEF ToSet, ToolSpans
<1>14. PICK seq : seq = [k \in 1..m |-> <<tools[k].tool, tools[k].args>>]
       OBVIOUS
<1>15. DOMAIN seq = 1..m /\ \A k \in 1..m : seq[k] = <<tools[k].tool, tools[k].args>>
       BY <1>14
<1>16. ASSUME NEW k \in 1..m, NEW l \in 1..m, seq[k] = seq[l]
       PROVE  k = l
  <2>1. PICK i \in ToolSpans : tools[k] = batch[i]
        BY <1>13
  <2>2. PICK j \in ToolSpans : tools[l] = batch[j]
        BY <1>13
  <2>3. f[i] = seq[k] /\ f[j] = seq[l]
        BY <1>3, <1>15, <2>1, <2>2
  <2>4. i = j
        BY <1>9, <1>16, <2>3
  <2> QED
      BY <1>11, <1>12, <2>1, <2>2, <2>4 DEF Distinct
<1>17. Len(seq) = m
       BY <1>14, <1>15
<1>18. ASSUME NEW k \in 1..m
       PROVE  ~(Cardinality({l \in DOMAIN seq : seq[l] = seq[k]}) > MaxRepetitions)
  <2>1. {l \in DOMAIN seq : seq[l] = seq[k]} = {k}
        BY <1>15, <1>16
  <2>2. Cardinality({k}) = 1
        BY FS_Singleton
  <2>3. MaxRepetitions \in Nat /\ 1 <= MaxRepetitions
        BY ChecksAssumption
  <2> QED
      BY <2>1, <2>2, <2>3
<1>19. \A k \in 1..m - 3 : seq[k] # seq[k + 2]
  <2>1. \A k \in 1..m - 3 : k \in 1..m /\ k + 2 \in 1..m /\ k # k + 2
        BY <1>12
  <2> QED
      BY <1>16, <2>1
<1>20. ~Loops(seq)
       BY <1>15, <1>17, <1>18, <1>19 DEF Loops
<1>21. seq = [i \in DOMAIN ToolCalls(run) |->
                <<ToolCalls(run)[i].tool, ToolCalls(run)[i].args>>]
       BY <1>10, <1>12, <1>14
<1>22. CheckLoop(run) <=> Loops([i \in DOMAIN ToolCalls(run) |->
                <<ToolCalls(run)[i].tool, ToolCalls(run)[i].args>>])
       BY DEF CheckLoop, Loops
<1> QED
    BY <1>20, <1>21, <1>22

\* All workers have come to an answer.
AllAnswered == \A i \in DOMAIN batch : batch[i].parent = RootId => batch[i].final

\* Then every declared call has its result, and some turn concluded.
LEMMA AllSettled ==
    ASSUME EvidenceInv, phase = "closed", AllAnswered
    PROVE  /\ \A c \in DOMAIN batch : \A id : Declares(c, id) => HasResult(id)
           /\ \E c \in DOMAIN batch : Concluded(batch[c])
<1>1. PICK L : L = Len(batch)
      OBVIOUS
<1>2. Closed(L) /\ DistinctIds(batch)
      BY <1>1, ClosedBatch
<1>3. DOMAIN batch = 1..L /\ L \in Nat /\ L > 1
      BY <1>2 DEF Closed
<1>4. ASSUME NEW c \in DOMAIN batch, NEW id, Declares(c, id)
      PROVE  HasResult(id)
  <2>1. IsChat(batch[c])
        BY <1>4 DEF Declares
  <2>2. ~IsAgent(batch[c])
        BY <2>1 DEF IsChat, IsAgent
  <2>3. c # L
        BY <1>2, <2>2 DEF Closed
  <2>4. ~(batch[c].parent = RootId /\ IsAgent(batch[c]))
        BY <2>2
  <2>5. PICK w \in 1..L : batch[w].parent = RootId /\ Encloses(batch[w], batch[c])
        BY <1>2, <1>3, <2>3, <2>4, Generations
  <2>6. batch[w].id = batch[c].parent /\ batch[w].final
        BY <1>3, <2>5 DEF Encloses, AllAnswered
  <2>7. ~GaveUp(c)
        BY <1>2, <1>3, <2>6 DEF GaveUp, DistinctIds
  <2>8. ~Owed(c, id)
        BY DEF Owed
  <2> QED
      BY <1>4, <2>7, <2>8 DEF EvidenceInv, AnsweredInv
<1>5. batch[L - 1].parent = RootId /\ L - 1 \in DOMAIN batch
  <2>1. L - 1 \in DOMAIN batch
        BY <1>3
  <2> QED
      BY <1>1, <2>1 DEF EvidenceInv, PlaceInv
<1>6. batch[L - 1].final
      BY <1>5 DEF AllAnswered
<1>7. \E c \in DOMAIN batch : Concluded(batch[c])
      BY <1>5, <1>6 DEF EvidenceInv, ConcludedInv
<1> QED
    BY <1>4, <1>7

\* The claims about single spans.
LEMMA CleanClaims ==
    ASSUME EvidenceInv, phase = "closed", ~Misbehaved, AllAnswered,
           NEW run, run = Reconstruct(batch)
    PROVE  /\ RunRoot(run) /\ AgentCompletion(run) /\ ModelCorrelation(run)
           /\ FinalAnswer(run) /\ SupervisorDecision(run) /\ run.closed
<1>1. PICK T : batch \in Seq(T)
      BY ClosedBatch
<1>2. PICK L : L = Len(batch)
      OBVIOUS
<1>3. Closed(L) /\ DistinctIds(batch)
      BY <1>2, ClosedBatch
<1>4. /\ DOMAIN batch = 1..L /\ L \in 1..L
      /\ \A i \in 1..L : WellFormed(batch[i])
      /\ \A i \in 1..L : batch[i].parent = NoSpan <=> i = L
      /\ batch[L].closed /\ IsAgent(batch[L]) /\ batch[L].decisions # <<>>
      BY <1>3 DEF Closed
<1>5. /\ StepsOf(run) = ToSet(batch)
      /\ \A s \in ToSet(batch) : s.parent = NoSpan \/ s.parent \in Ids(batch)
      BY CleanSteps
<1>6. \A s \in ToSet(batch) : \E i \in 1..L : s = batch[i]
      BY <1>4 DEF ToSet
<1>7. \A i \in 1..L : batch[i] \in ToSet(batch)
      BY <1>4 DEF ToSet
<1>8. run.root = batch[L]
  <2>1. batch[L] \in ToSet(batch) /\ batch[L].parent = NoSpan
        BY <1>4, <1>7
  <2>2. /\ run.root \in ToSet(batch)
        /\ run.root.parent = NoSpan \/ run.root.parent \notin Ids(batch)
        BY <1>1, <1>3, <2>1, RootIsThere
  <2>3. run.root.parent = NoSpan
        BY <1>5, <2>2
  <2>4. PICK i \in 1..L : run.root = batch[i]
        BY <1>6, <2>2
  <2>5. i = L
        BY <1>4, <2>3, <2>4
  <2> QED
      BY <2>4, <2>5
<1>9. RunRoot(run) /\ SupervisorDecision(run)
      BY <1>4, <1>8 DEF RunRoot, SupervisorDecision
<1>10. AgentCompletion(run) /\ ModelCorrelation(run)
  <2>1. \A i \in 1..L : /\ IsAgent(batch[i]) => batch[i].completed
                        /\ IsChat(batch[i]) => batch[i].system
        BY <1>4 DEF WellFormed
  <2>2. \A s \in StepsOf(run) : /\ IsAgent(s) => s.completed
                                /\ IsChat(s) => s.system
        BY <1>5, <1>6, <2>1
  <2> QED
      BY <2>2 DEF AgentCompletion, ModelCorrelation
<1>11. FinalAnswer(run)
  <2>1. PICK c \in DOMAIN batch : Concluded(batch[c])
        BY AllSettled
  <2>2. ~batch[c].error
        BY DEF Misbehaved
  <2>3. IsChat(batch[c]) /\ batch[c].final /\ batch[c].output # "none"
        BY <2>1, <2>2 DEF Concluded
  <2> QED
      BY <1>4, <1>5, <1>7, <2>3 DEF FinalAnswer
<1>12. run.closed
  <2>1. batch[L] \in ToSet(batch) /\ batch[L].parent = NoSpan /\ batch[L].closed
        BY <1>4, <1>7
  <2> QED
      BY <1>1, <1>3, <2>1, MissingFacts
<1> QED
    BY <1>9, <1>10, <1>11, <1>12

\* Every tool call carries an id of its own that a turn declared, and every
\* declared one is there.
LEMMA CleanPairing ==
    ASSUME EvidenceInv, phase = "closed", AllAnswered, UniqueIds,
           NEW run, run = Reconstruct(batch)
    PROVE  ToolPairing(run)
<1>1. PICK tools : tools = ToolCalls(run)
      OBVIOUS
<1>2. /\ tools \in Seq(ToSet(batch)) /\ Distinct(tools)
      /\ ToSet(tools) = {s \in ToSet(batch) : IsTool(s)}
      BY <1>1, CleanTools
<1>3. PICK m \in Nat : m = Len(tools) /\ DOMAIN tools = 1..m
      BY <1>2
<1>4. \A k \in 1..m : \E i \in ToolSpans : tools[k] = batch[i]
  <2>1. \A k \in 1..m : tools[k] \in ToSet(tools)
        BY <1>3 DEF ToSet
  <2> QED
      BY <1>2, <2>1 DEF ToSet, ToolSpans
<1>5. \A i \in ToolSpans : \E k \in 1..m : tools[k] = batch[i]
  <2>1. \A i \in ToolSpans : batch[i] \in ToSet(tools)
        BY <1>2 DEF ToSet, ToolSpans
  <2> QED
      BY <1>3, <2>1 DEF ToSet
<1>6. /\ \A i \in ToolSpans : batch[i].callId # NoCall
      /\ \A i, j \in ToolSpans : batch[i].callId = batch[j].callId => i = j
  <2>1. FreshInv
        BY DEF EvidenceInv
  <2>2. \A i \in ToolSpans : batch[i].callId \in SoFar
        BY <2>1 DEF FreshInv
  <2>3. \A x \in SoFar : x \in Numbers
        BY DEF SoFar
  <2>4. \A x \in Numbers : x # NoCall
        BY DEF Numbers
  <2> QED
      BY <2>1, <2>2, <2>3, <2>4 DEF FreshInv
<1>7. PICK ids : ids = {tools[k].callId : k \in 1..m}
      OBVIOUS
<1>8. NoCall \notin ids
      BY <1>4, <1>6, <1>7
<1>9. Cardinality(ids) = m
  <2>1. PICK f : f = [k \in 1..m |-> tools[k].callId]
        OBVIOUS
  <2>2. \A k, l \in 1..m : f[k] = f[l] => k = l
    <3>1. ASSUME NEW k \in 1..m, NEW l \in 1..m, f[k] = f[l] PROVE k = l
      <4>1. PICK i \in ToolSpans : tools[k] = batch[i]
            BY <1>4
      <4>2. PICK j \in ToolSpans : tools[l] = batch[j]
            BY <1>4
      <4>3. batch[i].callId = batch[j].callId
            BY <2>1, <3>1, <4>1, <4>2
      <4>4. i = j
            BY <1>6, <4>3
      <4> QED
          BY <1>2, <1>3, <4>1, <4>2, <4>4 DEF Distinct
    <3> QED
        BY <3>1
  <2>3. f \in Bijection(1..m, ids)
    <3>1. f \in Injection(1..m, ids)
          BY <1>7, <2>1, <2>2 DEF Injection, IsInjective
    <3>2. f \in Surjection(1..m, ids)
          BY <1>7, <2>1 DEF Surjection
    <3> QED
        BY <3>1, <3>2 DEF Bijection
  <2>4. ExistsBijection(1..m, ids)
        BY <2>3 DEF ExistsBijection
  <2>5. IsFiniteSet(1..m) /\ Cardinality(1..m) = m
    <3>1. m \in Nat
          BY <1>3
    <3>2. IsFiniteSet(1..m)
          BY <3>1, FS_Interval
    <3>3. Cardinality(1..m) = m
          BY <3>1, FS_Interval
    <3> QED
        BY <3>2, <3>3
  <2> QED
      BY <2>4, <2>5, FS_Bijection
<1>10. ASSUME NEW s \in StepsOf(run), IsChat(s), NEW id \in ToSet(s.calls)
       PROVE  id \in ids
  <2>1. s \in ToSet(batch)
        BY CleanSteps
  <2>2. PICK c \in DOMAIN batch : s = batch[c]
        BY <2>1 DEF ToSet
  <2>3. Declares(c, id)
        BY <1>10, <2>2 DEF Declares
  <2>4. PICK i \in ToolSpans : batch[i].callId = id
        BY <2>3, AllSettled DEF HasResult
  <2> QED
      BY <1>5, <1>7, <2>4
<1>11. ids = {ToolCalls(run)[i].callId : i \in DOMAIN ToolCalls(run)}
       BY <1>1, <1>3, <1>7
<1>12. /\ NoCall \notin {ToolCalls(run)[i].callId : i \in DOMAIN ToolCalls(run)}
       /\ Cardinality({ToolCalls(run)[i].callId : i \in DOMAIN ToolCalls(run)})
             = Len(ToolCalls(run))
       BY <1>1, <1>3, <1>8, <1>9, <1>11
<1>13. \A s \in StepsOf(run) : IsChat(s) =>
           ToSet(s.calls) \subseteq
               {ToolCalls(run)[i].callId : i \in DOMAIN ToolCalls(run)}
       BY <1>10, <1>11
<1> QED
    BY <1>12, <1>13 DEF ToolPairing

\* Every span lies within its parent.
LEMMA CleanNesting ==
    ASSUME EvidenceInv, phase = "closed",
           NEW run, run = Reconstruct(batch)
    PROVE  TemporalNesting(run)
<1>1. PICK L : L = Len(batch)
      OBVIOUS
<1>2. Closed(L) /\ DistinctIds(batch)
      BY <1>1, ClosedBatch
<1>3. /\ DOMAIN batch = 1..L /\ L \in 1..L
      /\ \A i \in 1..L : Ended(batch[i])
      /\ \A i \in 1..L : batch[i].parent = NoSpan <=> i = L
      /\ \A i \in 1..L : i # L => \E p \in 1..L : Encloses(batch[p], batch[i])
      BY <1>2 DEF Closed
<1>4. ASSUME NEW i \in 1..L, NEW j \in 1..L, batch[i].parent = batch[j].id
      PROVE  batch[i].start >= batch[j].start /\ batch[i].end <= batch[j].end
  <2>1. /\ batch[i].start \in Nat /\ batch[i].end \in Nat
        /\ batch[j].start \in Nat /\ batch[j].end \in Nat
        /\ batch[j].id \in Nat /\ RootId <= batch[j].id
        BY <1>3 DEF Ended
  <2>2. i # L
    <3>1. batch[i].parent # NoSpan
          BY <1>4, <2>1 DEF NoSpan, RootId
    <3> QED
        BY <1>3, <3>1
  <2>3. PICK p \in 1..L : Encloses(batch[p], batch[i])
        BY <1>3, <2>2
  <2>4. p = j
        BY <1>2, <1>3, <1>4, <2>3 DEF DistinctIds, Encloses
  <2> QED
      BY <2>1, <2>3, <2>4 DEF Encloses
<1>5. \A s \in StepsOf(run) : \E i \in 1..L : s = batch[i]
  <2>1. StepsOf(run) = ToSet(batch)
        BY CleanSteps
  <2> QED
      BY <1>3, <2>1 DEF ToSet
<1> QED
    BY <1>4, <1>5 DEF TemporalNesting

\* A link names a span of the batch.
LEMMA LinksAreThere ==
    ASSUME EvidenceInv, phase = "closed",
           NEW c \in DOMAIN batch, NEW l \in ToSet(batch[c].links)
    PROVE  l \in Ids(batch)
<1>1. PICK T : batch \in Seq(T)
      BY ClosedBatch
<1>2. IsChat(batch[c])
  <2>1. ~IsChat(batch[c]) => batch[c].links = <<>>
        BY ClosedBatch DEF WellFormed
  <2>2. batch[c].links # <<>>
        BY DEF ToSet
  <2> QED
      BY <2>1, <2>2
<1>3. DOMAIN batch = 1..Len(batch) /\ Len(batch) \in Nat
      BY <1>1
<1>4. LinksAreExact
      BY DEF EvidenceInv, SpanInv
<1>5. \E t \in 1..c - 1 : l = batch[t].id
      BY <1>2, <1>4 DEF LinksAreExact
<1>6. \A t \in 1..c - 1 : t \in DOMAIN batch
      BY <1>3
<1> QED
    BY <1>5, <1>6 DEF Ids, ToSet

\* Nothing is missing, and nothing is there twice.
LEMMA CleanIntegrity ==
    ASSUME EvidenceInv, phase = "closed",
           NEW run, run = Reconstruct(batch)
    PROVE  TraceIntegrity(run)
<1>1. PICK T : batch \in Seq(T)
      BY ClosedBatch
<1>2. DistinctIds(batch)
      BY ClosedBatch
<1>3. /\ run.duplicates = {}
      /\ run.missingParents = {s \in ToSet(batch) :
             s.parent # NoSpan /\ s.parent \notin Ids(batch)}
      /\ \A e \in run.missingLinks : \E s \in ToSet(batch) :
             e[1] \in ToSet(s.links) /\ e[1] \notin Ids(batch)
      BY <1>1, <1>2, MissingFacts
<1>4. run.missingParents = {}
      BY <1>3, CleanSteps
<1>5. \A s \in ToSet(batch) : \A l \in ToSet(s.links) : l \in Ids(batch)
      BY LinksAreThere DEF ToSet
<1>6. run.missingLinks = {}
      BY <1>3, <1>5
<1> QED
    BY <1>3, <1>4, <1>6 DEF TraceIntegrity

\* The first turn that follows a tool call of its worker links to it.
LEMMA NextTurnLinks ==
    ASSUME EvidenceInv, phase = "closed",
           NEW t \in DOMAIN batch, IsTool(batch[t]),
           NEW c \in DOMAIN batch, IsChat(batch[c]),
           batch[c].parent = batch[t].parent, batch[c].start >= batch[t].end
    PROVE  \E d \in DOMAIN batch :
              IsChat(batch[d]) /\ batch[t].id \in ToSet(batch[d].links)
<1>1. PICK T : batch \in Seq(T)
      BY ClosedBatch
<1>2. PICK n \in Nat : n = Len(batch) /\ DOMAIN batch = 1..n
      BY <1>1
<1>3. t < c
  <2>1. ASSUME c < t PROVE FALSE
    <3>1. ~IsAgent(batch[t])
          BY DEF IsTool, IsAgent
    <3>2. c \in 1..t - 1
          BY <1>2, <2>1
    <3>3. batch[c].end <= batch[t].start
          BY <3>1, <3>2 DEF EvidenceInv, ShapeInv
    <3>4. Ended(batch[c]) /\ Ended(batch[t])
          BY ClosedBatch
    <3> QED
        BY <3>3, <3>4 DEF Ended
  <2>2. c # t
        BY OneKind
  <2> QED
      BY <1>2, <2>1, <2>2
<1> DEFINE After == {d \in DOMAIN batch : /\ t < d /\ IsChat(batch[d])
                                          /\ batch[d].parent = batch[t].parent}
<1>4. After \in SUBSET Nat /\ After # {}
      BY <1>2, <1>3
<1>5. PICK d \in After : \A e \in After : d <= e
      BY <1>4, LeastNumber
<1>6. /\ d \in DOMAIN batch /\ d \in Nat /\ t \in Nat /\ t < d /\ IsChat(batch[d])
      /\ batch[d].parent = batch[t].parent
      BY <1>2, <1>5
<1>7. LinksAreExact
      BY DEF EvidenceInv, SpanInv
<1>8. PICK mine : mine = {i \in 1..d - 1 : batch[i].parent = batch[d].parent}
      OBVIOUS
<1>9. t \in mine
      BY <1>2, <1>6, <1>8
<1>10. \A i \in mine : i > t => ~IsChat(batch[i])
  <2>1. ASSUME NEW i \in mine, i > t, IsChat(batch[i]) PROVE FALSE
    <3>1. i \in Nat /\ i < d /\ i \in DOMAIN batch /\ batch[i].parent = batch[t].parent
          BY <1>2, <1>6, <1>8
    <3>2. i \in After
          BY <1>6, <2>1, <3>1
    <3> QED
        BY <1>5, <1>6, <3>1, <3>2
  <2> QED
      BY <2>1
<1>11. ToSet(batch[d].links) = {batch[k].id : k \in {k \in mine : IsTool(batch[k])
                                    /\ \A i \in mine : i > k => ~IsChat(batch[i])}}
       BY <1>6, <1>7, <1>8 DEF LinksAreExact
<1>12. batch[t].id \in ToSet(batch[d].links)
       BY <1>9, <1>10, <1>11
<1> QED
    BY <1>6, <1>12

\* A tool call that a later turn of its worker follows is linked from a turn.
LEMMA CleanLinks ==
    ASSUME EvidenceInv, phase = "closed",
           NEW run, run = Reconstruct(batch)
    PROVE  CausalLinks(run)
<1>1. PICK T : batch \in Seq(T)
      BY ClosedBatch
<1>2. PICK L : L = Len(batch)
      OBVIOUS
<1>3. Closed(L) /\ DistinctIds(batch)
      BY <1>2, ClosedBatch
<1>4. DOMAIN batch = 1..L
      BY <1>3 DEF Closed
<1>5. PICK steps : steps = StepsOf(run)
      OBVIOUS
<1>6. steps = ToSet(batch) /\ IdsTell(steps)
      BY <1>5, CleanSteps
<1>7. \A s \in steps : \E i \in 1..L : s = batch[i]
      BY <1>4, <1>6 DEF ToSet
<1>8. PICK linked : linked = {e[1] : e \in {e \in run.edges :
                                 \E s \in steps : s.id = e[2] /\ IsChat(s)}}
      OBVIOUS
<1>9. ASSUME NEW t \in steps, IsTool(t), NEW p \in steps, p.id = t.parent
      PROVE  ~IsChat(p)
  <2>1. PICK i \in 1..L : t = batch[i]
        BY <1>7
  <2>2. i # L
        BY <1>3, <1>9, <2>1 DEF Closed, IsAgent, IsTool
  <2>3. PICK q \in 1..L : Encloses(batch[q], batch[i])
        BY <1>3, <2>2 DEF Closed
  <2>4. batch[q] \in steps /\ batch[q].id = p.id /\ IsAgent(batch[q])
        BY <1>4, <1>6, <1>9, <2>1, <2>3 DEF Encloses, ToSet
  <2>5. batch[q] = p
        BY <1>6, <2>4 DEF IdsTell
  <2> QED
      BY <2>4, <2>5 DEF IsAgent, IsChat
<1>10. ASSUME NEW t \in steps, IsTool(t), NEW c \in steps, IsChat(c),
              c.parent = t.parent, c.start >= t.end
       PROVE  t.id \in linked
  <2>1. PICK i \in DOMAIN batch : t = batch[i]
        BY <1>4, <1>7
  <2>2. PICK j \in DOMAIN batch : c = batch[j]
        BY <1>4, <1>7
  <2>3. PICK d \in DOMAIN batch :
            IsChat(batch[d]) /\ batch[i].id \in ToSet(batch[d].links)
        BY <1>10, <2>1, <2>2, NextTurnLinks
  <2>4. batch[d] \in ToSet(batch) /\ t.id \in ToSet(batch[d].links)
        BY <2>1, <2>3 DEF ToSet
  <2>5. t.id \in Ids(batch)
        BY <1>6 DEF Ids
  <2>6. t.id # batch[d].id
    <3>1. t # batch[d]
          BY <1>10, <2>3, OneKind
    <3> QED
        BY <1>6, <2>4, <3>1 DEF IdsTell
  <2>7. <<t.id, batch[d].id>> \in run.edges
        BY <1>1, <1>3, <2>4, <2>5, <2>6, MissingFacts
  <2>8. \E s \in steps : s.id = batch[d].id /\ IsChat(s)
        BY <1>6, <2>3, <2>4
  <2>9. PICK e : e = <<t.id, batch[d].id>>
        OBVIOUS
  <2>10. e[1] = t.id /\ e[2] = batch[d].id /\ e \in run.edges
         BY <2>7, <2>9
  <2> QED
      BY <1>8, <2>8, <2>10
<1>11. \A t \in steps : IsTool(t) /\ t.id \notin linked =>
           /\ ~(\E p \in steps : p.id = t.parent /\ IsChat(p))
           /\ \A c \in steps : ~(IsChat(c) /\ c.parent = t.parent /\ c.start >= t.end)
       BY <1>9, <1>10
<1> QED
    BY <1>5, <1>8, <1>11 DEF CausalLinks

\* A clean run gives no finding, and the verdict is a pass.
LEMMA CleanPasses ==
    ASSUME EvidenceInv, phase = "closed", UniqueIds, ~Misbehaved, ~Repetitive,
           AllAnswered
    PROVE  verdictOf(batch) = "PASS"
<1>1. PICK run : run = Reconstruct(batch)
      OBVIOUS
<1>2. Gaps(run) = {}
  <2>1. /\ RunRoot(run) /\ AgentCompletion(run) /\ ModelCorrelation(run)
        /\ FinalAnswer(run) /\ SupervisorDecision(run) /\ run.closed
        BY <1>1, CleanClaims
  <2>2. /\ ToolPairing(run) /\ TemporalNesting(run) /\ TraceIntegrity(run)
        /\ CausalLinks(run)
        BY <1>1, CleanPairing, CleanNesting, CleanIntegrity, CleanLinks
  <2>3. \A c \in Claims : Established(c, run)
        BY <2>1, <2>2 DEF Established, Claims
  <2> QED
      BY <2>3 DEF Gaps
<1>3. /\ ~CheckBudget(run) /\ ~CheckSchema(run) /\ ~CheckPolicy(run)
      /\ ~CheckStatus(run) /\ ~CheckLoop(run)
      BY <1>1, CleanBudget, CleanSpans, CleanLoop
<1>4. Findings(run) = {}
      BY <1>2, <1>3 DEF Findings
<1>5. verdictFor({}) = "PASS"
      BY DEF verdictFor, DetCritical, JudgeCritical, Warning, Rated, EvidenceGaps
<1> QED
    BY <1>1, <1>4, <1>5 DEF verdictOf

\* No false alarm: a run in which every worker came to an answer, nobody
\* misbehaved and no call was repeated gets a PASS for its intact trace.
THEOREM CleanRunsPass == UniqueIds /\ PipelineSpec => []CleanRunPasses
<1>1. UniqueIds /\ PipelineInv => CleanRunPasses
  <2> SUFFICES ASSUME UniqueIds, PipelineInv, Reported({"none"}),
                      ~Misbehaved, ~Repetitive, AllAnswered
               PROVE  report.verdict = "PASS"
      BY DEF CleanRunPasses, AllAnswered
  <2>1. report # NoReport /\ report.fault = "none"
        BY DEF Reported
  <2>2. EvidenceInv /\ phase = "closed"
        BY <2>1 DEF PipelineInv, ReportInv
  <2>3. Exported("none")
    <3>1. ASSUME NEW k, Halved(k) PROVE FALSE
          BY <2>1, <3>1 DEF Halved
    <3>2. \E fault \in Faults : Exported(fault)
          BY <2>1, <3>1 DEF PipelineInv, ReportInv
    <3> QED
        BY <2>1, <3>2 DEF Exported
  <2>4. export("none", batch) = batch
        BY DEF export
  <2>5. report.verdict = verdictOf(batch)
        BY <2>3, <2>4 DEF Exported
  <2> QED
      BY <2>2, <2>5, CleanPasses
<1> QED
    BY <1>1, UniquePipeline, PTL

=============================================================================
