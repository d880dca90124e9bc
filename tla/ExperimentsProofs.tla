------------------------- MODULE ExperimentsProofs --------------------------
(***************************************************************************)
(* Proofs about module Experiments, for all grids and findings, all traces  *)
(* and orders of arrival, and all answers of the judges.                    *)
(***************************************************************************)
EXTENDS Experiments, ListProofs

-----------------------------------------------------------------------------
\* Spans that can be told apart and put in an order.
Numbered(V) == \A s \in V : s.id \in Nat \ {NoSpan} /\ s.start \in Nat

\* What has arrived are spans of the trace, each once; the trace is one of
\* those that were generated, after a fault.
CausalInv ==
    /\ fault \in CausalFault
    /\ trace = <<>> \/ \E spans \in Traces : trace = apply_fault(spans, fault)
    /\ arrived \in Seq(ToSet(trace))
    /\ Distinct(arrived)

\* The causal faults leave every span in its place with its id, its start,
\* its parent and its answer; they change the marker or the links.
Faulted(t, spans, f) ==
    /\ DOMAIN t = DOMAIN spans /\ Len(t) = Len(spans)
    /\ t \in Seq(ToSet(t))
    /\ \A i \in DOMAIN spans :
          /\ t[i].id = spans[i].id /\ t[i].start = spans[i].start
          /\ t[i].parent = spans[i].parent
          /\ t[i].final = spans[i].final /\ t[i].output = spans[i].output
          /\ t[i].closed <=> f # "truncate_closed" /\ spans[i].closed
          /\ t[i].links = CASE f = "drop_link" -> <<>>
                            [] f = "orphan_link_target" /\ spans[i].links # <<>> ->
                                  [spans[i].links EXCEPT ![1] = ForeignSpan]
                            [] OTHER -> spans[i].links

\* A change of the marker leaves the other fields.
LEMMA MarkerChanged ==
    ASSUME NEW s \in CausalSpan, NEW r, r = [s EXCEPT !.closed = FALSE]
    PROVE  /\ r.id = s.id /\ r.start = s.start /\ r.parent = s.parent
           /\ r.final = s.final /\ r.output = s.output
           /\ r.closed = FALSE /\ r.links = s.links
BY DEF CausalSpan

\* So does a change of the links.
LEMMA LinksChanged ==
    ASSUME NEW s \in CausalSpan, NEW l, NEW r, r = [s EXCEPT !.links = l]
    PROVE  /\ r.id = s.id /\ r.start = s.start /\ r.parent = s.parent
           /\ r.final = s.final /\ r.output = s.output
           /\ r.closed = s.closed /\ r.links = l
BY DEF CausalSpan

\* Each fault does that.
LEMMA FaultKeeps ==
    ASSUME NEW spans \in Seq(CausalSpan), NEW f \in CausalFault,
           NEW t, t = apply_fault(spans, f)
    PROVE  Faulted(t, spans, f)
<1>1. PICK n \in Nat : n = Len(spans) /\ DOMAIN spans = 1..n
      OBVIOUS
<1>2. \A i \in 1..n : spans[i] \in CausalSpan
      BY <1>1
<1>3. f \in {"none", "truncate_closed", "drop_link", "orphan_link_target"}
  <2>1. f = "none" \/ f \in ToSet(CAUSAL_FAULTS)
        BY DEF CausalFault, None
  <2>2. DOMAIN CAUSAL_FAULTS = {1, 2, 3}
        BY DEF CAUSAL_FAULTS
  <2>3. f # "none" => \E i \in {1, 2, 3} : f = CAUSAL_FAULTS[i]
        BY <2>1, <2>2 DEF ToSet
  <2> QED
      BY <2>1, <2>3 DEF CAUSAL_FAULTS
<1>4. ASSUME NEW u, u = [i \in 1..n |-> u[i]], \A i \in 1..n : u[i] \in ToSet(u)
      PROVE  DOMAIN u = 1..n /\ Len(u) = n /\ u \in Seq(ToSet(u))
  <2>1. PICK U : U = ToSet(u)
        OBVIOUS
  <2>2. u \in [1..n -> U]
        BY <1>4, <2>1
  <2>3. u \in Seq(U) /\ Len(u) = n
        BY <2>2
  <2> QED
      BY <2>1, <2>2, <2>3
<1>5. ASSUME NEW u, u = [i \in 1..n |-> u[i]]
      PROVE  DOMAIN u = 1..n /\ Len(u) = n /\ u \in Seq(ToSet(u))
  <2>1. \A i \in 1..n : u[i] \in ToSet(u)
    <3>1. DOMAIN u = 1..n
          BY <1>5
    <3> QED
        BY <3>1 DEF ToSet
  <2> QED
      BY <1>4, <1>5, <2>1
<1>10. \A i \in 1..n : spans[i].closed \in BOOLEAN
       BY <1>2 DEF CausalSpan
<1>6. CASE f = "none"
  <2>1. t = spans
        BY <1>6 DEF apply_fault, None
  <2>2. spans = [i \in 1..n |-> spans[i]]
        BY <1>1
  <2>3. t \in Seq(ToSet(t))
        BY <1>5, <2>1, <2>2
  <2>4. \A i \in 1..n : spans[i].closed <=> f # "truncate_closed" /\ spans[i].closed
        BY <1>6, <1>10
  <2> QED
      BY <1>1, <1>6, <2>1, <2>3, <2>4 DEF Faulted
<1>7. CASE f = "truncate_closed"
  <2>1. t = [i \in 1..n |-> [spans[i] EXCEPT !.closed = FALSE]]
        BY <1>1, <1>7 DEF apply_fault, None, strip_closed
  <2>2. DOMAIN t = 1..n /\ Len(t) = n /\ t \in Seq(ToSet(t))
        BY <1>5, <2>1
  <2>3. \A i \in 1..n :
            /\ t[i].id = spans[i].id /\ t[i].start = spans[i].start
            /\ t[i].parent = spans[i].parent
            /\ t[i].final = spans[i].final /\ t[i].output = spans[i].output
            /\ t[i].closed = FALSE
            /\ t[i].links = spans[i].links
        BY <1>2, <2>1, MarkerChanged
  <2> QED
      BY <1>1, <1>7, <2>2, <2>3 DEF Faulted
<1>8. CASE f = "drop_link"
  <2>1. t = [i \in 1..n |-> [spans[i] EXCEPT !.links = <<>>]]
        BY <1>1, <1>8 DEF apply_fault, None, strip_links
  <2>2. DOMAIN t = 1..n /\ Len(t) = n /\ t \in Seq(ToSet(t))
        BY <1>5, <2>1
  <2>3. \A i \in 1..n :
            /\ t[i].id = spans[i].id /\ t[i].start = spans[i].start
            /\ t[i].parent = spans[i].parent
            /\ t[i].final = spans[i].final /\ t[i].output = spans[i].output
            /\ t[i].closed <=> f # "truncate_closed" /\ spans[i].closed
            /\ t[i].links = <<>>
    <3> SUFFICES ASSUME NEW i \in 1..n
                 PROVE  /\ t[i].id = spans[i].id /\ t[i].start = spans[i].start
                        /\ t[i].parent = spans[i].parent
                        /\ t[i].final = spans[i].final
                        /\ t[i].output = spans[i].output
                        /\ t[i].closed <=> spans[i].closed
                        /\ t[i].links = <<>>
        BY <1>8
    <3>1. t[i] = [spans[i] EXCEPT !.links = <<>>] /\ spans[i] \in CausalSpan
          BY <1>2, <2>1
    <3> QED
        BY <3>1, LinksChanged
  <2> QED
      BY <1>1, <1>8, <2>2, <2>3 DEF Faulted
<1>9. CASE f = "orphan_link_target"
  <2>1. t = [i \in 1..n |->
                IF spans[i].links = <<>> THEN spans[i]
                ELSE [spans[i] EXCEPT !.links = [@ EXCEPT ![1] = ForeignSpan]]]
        BY <1>1, <1>9 DEF apply_fault, None, orphan_first_link
  <2>2. DOMAIN t = 1..n /\ Len(t) = n /\ t \in Seq(ToSet(t))
        BY <1>5, <2>1
  <2>3. \A i \in 1..n :
            /\ t[i].id = spans[i].id /\ t[i].start = spans[i].start
            /\ t[i].parent = spans[i].parent
            /\ t[i].final = spans[i].final /\ t[i].output = spans[i].output
            /\ t[i].closed <=> f # "truncate_closed" /\ spans[i].closed
            /\ spans[i].links = <<>> => t[i].links = spans[i].links
            /\ spans[i].links # <<>> =>
                  t[i].links = [spans[i].links EXCEPT ![1] = ForeignSpan]
    <3> SUFFICES ASSUME NEW i \in 1..n
                 PROVE  /\ t[i].id = spans[i].id /\ t[i].start = spans[i].start
                        /\ t[i].parent = spans[i].parent
                        /\ t[i].final = spans[i].final
                        /\ t[i].output = spans[i].output
                        /\ t[i].closed <=> spans[i].closed
                        /\ spans[i].links = <<>> => t[i].links = spans[i].links
                        /\ spans[i].links # <<>> =>
                              t[i].links = [spans[i].links EXCEPT ![1] = ForeignSpan]
        BY <1>9
    <3>1. CASE spans[i].links = <<>>
          BY <2>1, <3>1
    <3>2. CASE spans[i].links # <<>>
      <4>1. PICK l : l = [spans[i].links EXCEPT ![1] = ForeignSpan]
            OBVIOUS
      <4>2. t[i] = [spans[i] EXCEPT !.links = l] /\ spans[i] \in CausalSpan
            BY <1>2, <2>1, <3>2, <4>1
      <4> QED
          BY <3>2, <4>1, <4>2, LinksChanged
    <3> QED
        BY <3>1, <3>2
  <2> QED
      BY <1>1, <1>9, <2>2, <2>3 DEF Faulted
<1> QED
    BY <1>3, <1>6, <1>7, <1>8, <1>9

\* So the spans of every trace are numbered and have ids of their own.
LEMMA TraceFacts ==
    ASSUME CausalInv
    PROVE  /\ trace \in Seq(ToSet(trace)) /\ DistinctIds(trace)
           /\ Numbered(ToSet(trace))
<1>1. CASE trace = <<>>
  <2>1. DOMAIN trace = {} /\ ToSet(trace) = {} /\ trace \in Seq({})
        BY <1>1 DEF ToSet
  <2> QED
      BY <2>1 DEF DistinctIds, Numbered
<1>2. CASE trace # <<>>
  <2>1. PICK spans \in Traces : trace = apply_fault(spans, fault)
        BY <1>2 DEF CausalInv
  <2>2. /\ spans \in Seq(CausalSpan)
        /\ \A i, j \in DOMAIN spans : spans[i].id = spans[j].id => i = j
        BY TracesAssumption
  <2>3. Faulted(trace, spans, fault)
        BY <2>1, <2>2, FaultKeeps DEF CausalInv
  <2>4. \A i \in DOMAIN spans : spans[i] \in CausalSpan
        BY <2>2
  <2>5. \A i \in DOMAIN spans : spans[i].id \in Nat \ {NoSpan} /\ spans[i].start \in Nat
        BY <2>4 DEF CausalSpan
  <2>6. DistinctIds(trace)
    <3>1. /\ DOMAIN trace = DOMAIN spans
          /\ \A i \in DOMAIN spans : trace[i].id = spans[i].id
          BY <2>3 DEF Faulted
    <3> QED
        BY <2>2, <3>1 DEF DistinctIds
  <2>7. \A i \in DOMAIN trace : trace[i].id \in Nat \ {NoSpan} /\ trace[i].start \in Nat
        BY <2>3, <2>5 DEF Faulted
  <2>8. Numbered(ToSet(trace))
        BY <2>7 DEF Numbered, ToSet
  <2> QED
      BY <2>3, <2>6, <2>8 DEF Faulted
<1> QED
    BY <1>1, <1>2

\* Spans that have arrived are spans of the trace.
LEMMA ArrivedFacts ==
    ASSUME CausalInv
    PROVE  /\ arrived \in Seq(ToSet(trace)) /\ arrived \in Seq(ToSet(arrived))
           /\ ToSet(arrived) \subseteq ToSet(trace)
           /\ DistinctIds(arrived) /\ Numbered(ToSet(arrived))
<1>1. arrived \in Seq(ToSet(trace)) /\ Distinct(arrived)
      BY DEF CausalInv
<1>2. ToSet(arrived) \subseteq ToSet(trace)
  <2>1. \A k \in DOMAIN arrived : arrived[k] \in ToSet(trace)
        BY <1>1
  <2> QED
      BY <2>1 DEF ToSet
<1>3. DistinctIds(trace) /\ Numbered(ToSet(trace))
      BY TraceFacts
<1>4. IdsTell(ToSet(trace))
      BY <1>3, DistinctIdsAre
<1>5. IdsTell(ToSet(arrived))
      BY <1>2, <1>4 DEF IdsTell
<1>6. DistinctIds(arrived)
      BY <1>1, <1>5, DistinctIdsAre
<1>7. Numbered(ToSet(arrived))
      BY <1>2, <1>3 DEF Numbered
<1>8. arrived \in Seq(ToSet(arrived))
  <2>1. PICK A : A = ToSet(arrived)
        OBVIOUS
  <2>2. \A k \in DOMAIN arrived : arrived[k] \in A
        BY <2>1 DEF ToSet
  <2> QED
      BY <1>1, <2>1, <2>2
<1> QED
    BY <1>1, <1>2, <1>6, <1>7, <1>8

\* The invariant holds at the start.
LEMMA CausalInit == Init => CausalInv
<1> SUFFICES ASSUME Init PROVE CausalInv
    OBVIOUS
<1>1. arrived = <<>>
      BY DEF Init
<1>2. arrived \in Seq(ToSet(trace)) /\ Distinct(arrived)
      BY <1>1 DEF Distinct
<1>3. fault \in CausalFault /\ (trace = <<>> \/ \E spans \in Traces :
                                    trace = apply_fault(spans, fault))
      BY DEF Init, CausalFault
<1> QED
    BY <1>2, <1>3 DEF CausalInv

\* Only an arrival changes what it is about.
LEMMA CausalNext == CausalInv /\ [Next]_vars => CausalInv'
<1> SUFFICES ASSUME CausalInv, [Next]_vars PROVE CausalInv'
    OBVIOUS
<1>1. CASE UNCHANGED causalVars
      BY <1>1 DEF CausalInv, causalVars
<1>2. ASSUME NEW s \in ToSet(trace), Arrive(s) PROVE CausalInv'
  <2>1. /\ s \notin ToSet(arrived) /\ arrived' = Append(arrived, s)
        /\ trace' = trace /\ fault' = fault
        BY <1>2 DEF Arrive
  <2>2. PICK T : T = ToSet(trace)
        OBVIOUS
  <2>3. PICK p, q : p = arrived /\ q = arrived'
        OBVIOUS
  <2>4. PICK m : m = Len(p)
        OBVIOUS
  <2>5. p \in Seq(T) /\ s \in T /\ q = Append(p, s)
        BY <1>2, <2>1, <2>2, <2>3 DEF CausalInv
  <2>6. /\ m \in Nat /\ q \in Seq(T) /\ Len(q) = m + 1 /\ q[m + 1] = s
        /\ \A k \in 1..m : q[k] = p[k]
        BY <2>4, <2>5, Appended
  <2>7. DOMAIN p = 1..m /\ DOMAIN q = 1..m + 1
        BY <2>4, <2>5, <2>6
  <2>8. \A k \in 1..m : p[k] # s
        BY <2>1, <2>3, <2>7 DEF ToSet
  <2>9. \A k, l \in 1..m : p[k] = p[l] => k = l
        BY <2>3, <2>7 DEF CausalInv, Distinct
  <2>10. \A k \in 1..m + 1 : k \in 1..m \/ k = m + 1
         BY <2>6
  <2>11. \A k, l \in 1..m + 1 : q[k] = q[l] => k = l
         BY <2>6, <2>8, <2>9, <2>10
  <2>12. Distinct(q)
         BY <2>7, <2>11 DEF Distinct
  <2> QED
      BY <2>1, <2>2, <2>3, <2>6, <2>12 DEF CausalInv
<1>3. ASSUME NEW outcome \in Outcomes, RunCell(outcome) PROVE UNCHANGED causalVars
      BY <1>3 DEF RunCell
<1>4. ASSUME NEW first, NEW second, JudgeCell(first, second)
      PROVE  UNCHANGED causalVars
      BY <1>4 DEF JudgeCell
<1> QED
    BY <1>1, <1>2, <1>3, <1>4 DEF Next, vars

\* So it is an invariant.
THEOREM CausalInvariant == Spec => []CausalInv
BY CausalInit, CausalNext, PTL DEF Spec

-----------------------------------------------------------------------------
\* The order by start and id.
ByTime(T) == {e \in T \X T : StartsSooner(e[1], e[2])}

\* time_sorted sorts the spans by it.
LEMMA SortedByTime ==
    ASSUME NEW T, NEW seq \in Seq(T), NEW p, p = Sorted(seq, StartsSooner)
    PROVE  SortOf(p, seq, T, ByTime(T))
<1> PICK N \in Nat : N = Len(seq) /\ DOMAIN seq = 1..N
    OBVIOUS
<1> PICK R : R = ByTime(T)
    OBVIOUS
<1> DEFINE Place(s, x) == Cardinality({k \in DOMAIN s : ~StartsSooner(x, s[k])})
           IsUpto(F) == F = [n \in 0..N |->
                IF n = 0 THEN <<>>
                ELSE InsertAt(F[n - 1], Place(F[n - 1], seq[n]) + 1, seq[n])]
<1>1. \A n \in 1..N : seq[n] \in T
      OBVIOUS
<1>2. Sorted(seq, StartsSooner) = (CHOOSE F : IsUpto(F))[N]
      BY DEF Sorted
<1>3. ASSUME NEW s \in Seq(T), NEW x \in T
      PROVE  InsertAt(s, Place(s, x) + 1, x) = InsertSorted(s, x, R)
  <2>1. \A k \in DOMAIN s : s[k] \in T
        OBVIOUS
  <2>2. \A k \in DOMAIN s : ~StartsSooner(x, s[k]) <=> <<x, s[k]>> \notin R
        BY <2>1 DEF ByTime
  <2>3. {k \in DOMAIN s : ~StartsSooner(x, s[k])} = Ahead(s, x, R)
        BY <2>2 DEF Ahead
  <2> QED
      BY <2>3 DEF InsertSorted
<1> HIDE DEF Place
<1>4. PICK G : SortsUpto(G, T, N, seq, R)
      BY <1>1, SortExists
<1>5. /\ G \in [0..N -> Seq(T)] /\ G[0] = <<>>
      /\ \A n \in 1..N : G[n] = InsertSorted(G[n - 1], seq[n], R)
      BY <1>4 DEF SortsUpto
<1>6. IsUpto(G)
  <2>1. \A n \in 1..N : G[n - 1] \in Seq(T)
        BY <1>5
  <2>2. \A n \in 1..N :
            G[n] = InsertAt(G[n - 1], Place(G[n - 1], seq[n]) + 1, seq[n])
        BY <1>1, <1>3, <1>5, <2>1
  <2>3. \A n \in 0..N : n # 0 => n \in 1..N
        OBVIOUS
  <2>4. \A n \in 0..N : G[n] = IF n = 0 THEN <<>>
                ELSE InsertAt(G[n - 1], Place(G[n - 1], seq[n]) + 1, seq[n])
        BY <1>5, <2>2, <2>3
  <2>5. G = [n \in 0..N |-> G[n]]
        BY <1>5
  <2> QED
      BY <2>4, <2>5, Zenon
<1>7. PICK F : IsUpto(F) /\ p = F[N]
      BY <1>2, <1>6, Zenon
<1>8. \A n \in 0..N : F[n] = IF n = 0 THEN <<>>
                ELSE InsertAt(F[n - 1], Place(F[n - 1], seq[n]) + 1, seq[n])
      BY <1>7, Zenon
<1> HIDE DEF IsUpto
<1>9. F[0] = <<>>
      BY <1>8
<1>10. \A n \in 1..N : F[n - 1] \in Seq(T) =>
                           F[n] = InsertSorted(F[n - 1], seq[n], R)
  <2> SUFFICES ASSUME NEW n \in 1..N, F[n - 1] \in Seq(T)
               PROVE  F[n] = InsertSorted(F[n - 1], seq[n], R)
      OBVIOUS
  <2>1. n \in 0..N /\ n # 0
        OBVIOUS
  <2>2. F[n] = InsertAt(F[n - 1], Place(F[n - 1], seq[n]) + 1, seq[n])
        BY <1>8, <2>1
  <2> QED
      BY <1>1, <1>3, <2>2
<1>11. F[N] = G[N]
       BY <1>4, <1>9, <1>10, SortsAgree
<1>12. SortOf(G[N], seq, T, R)
       BY <1>4, SortResult
<1> QED
    BY <1>7, <1>11, <1>12

\* It is strict and total on spans that ids tell apart.
LEMMA TimeOrders ==
    ASSUME NEW T, NEW V, V \subseteq T, Numbered(V), IdsTell(V)
    PROVE  Orders(ByTime(T), V)
<1>1. \A s, t \in V : <<s, t>> \in ByTime(T) <=>
          s.start < t.start \/ (s.start = t.start /\ s.id < t.id)
      BY DEF ByTime, StartsSooner
<1>2. \A s \in V : s.start \in Int /\ s.id \in Int
      BY DEF Numbered
<1>3. \A x \in V : <<x, x>> \notin ByTime(T)
      BY <1>1, <1>2
<1>4. \A x, y, z \in V : <<x, y>> \in ByTime(T) /\ <<y, z>> \in ByTime(T)
                             => <<x, z>> \in ByTime(T)
      BY <1>1, <1>2
<1>5. \A x, y \in V : x = y \/ <<x, y>> \in ByTime(T) \/ <<y, x>> \in ByTime(T)
  <2> SUFFICES ASSUME NEW x \in V, NEW y \in V, x # y
               PROVE  <<x, y>> \in ByTime(T) \/ <<y, x>> \in ByTime(T)
      OBVIOUS
  <2>1. x.id # y.id
        BY DEF IdsTell
  <2> QED
      BY <1>1, <1>2, <2>1
<1> QED
    BY <1>3, <1>4, <1>5 DEF Orders

\* So two lists of the same spans are sorted to the same list.
LEMMA TimeSortsAlike ==
    ASSUME NEW T, NEW p \in Seq(T), NEW q \in Seq(T), ToSet(p) = ToSet(q),
           DistinctIds(p), DistinctIds(q), Numbered(ToSet(p))
    PROVE  /\ time_sorted(p) = time_sorted(q)
           /\ DOMAIN time_sorted(p) = DOMAIN p
           /\ ToSet(time_sorted(p)) = ToSet(p)
<1>1. /\ Distinct(p) /\ Distinct(q) /\ IdsTell(ToSet(p))
      /\ ToSet(p) \subseteq T
      BY DistinctIdsAre, SeqPart
<1>2. Orders(ByTime(T), ToSet(p))
      BY <1>1, TimeOrders
<1>3. /\ SortOf(time_sorted(p), p, T, ByTime(T))
      /\ SortOf(time_sorted(q), q, T, ByTime(T))
      BY SortedByTime DEF time_sorted
<1>4. time_sorted(p) = time_sorted(q)
      BY <1>1, <1>2, <1>3, SortsEqual
<1>5. /\ time_sorted(p) \in Seq(T) /\ Len(time_sorted(p)) = Len(p)
      /\ ToSet(time_sorted(p)) = ToSet(p)
      BY <1>3 DEF SortOf
<1>6. DOMAIN time_sorted(p) = DOMAIN p
      BY <1>5
<1> QED
    BY <1>4, <1>5, <1>6

-----------------------------------------------------------------------------
\* Each id of a list without repeated ids is the node of its span.
LEMMA NodeOfSpan ==
    ASSUME NEW T, NEW p \in Seq(T), DistinctIds(p), NEW s \in ToSet(p)
    PROVE  /\ s.id \in Ids(p)
           /\ build_dag(p).nodes[s.id] = s
<1>1. PICK i \in DOMAIN p : s = p[i]
      BY DEF ToSet
<1>2. s.id \in Ids(p)
      BY DEF Ids
<1>3. PICK n \in Nat : n = Len(p) /\ DOMAIN p = 1..n
      OBVIOUS
<1>4. {j \in 1..n : p[j].id = s.id} = {i}
      BY <1>1, <1>3 DEF DistinctIds
<1>5. Max({i}) = i
  <2>1. i \in Int /\ i >= i
        BY <1>1, <1>3
  <2> QED
      BY <2>1 DEF Max
<1>6. SelectLastInSeq(p, LAMBDA t : t.id = s.id) = i
      BY <1>3, <1>4, <1>5 DEF SelectLastInSeq
<1>7. build_dag(p).nodes[s.id] = p[SelectLastInSeq(p, LAMBDA t : t.id = s.id)]
      BY <1>2 DEF build_dag
<1> QED
    BY <1>1, <1>2, <1>6, <1>7

\* The graph of a list does not depend on its order.
LEMMA SameGraph ==
    ASSUME NEW T, NEW p \in Seq(T), NEW q \in Seq(T), ToSet(p) = ToSet(q),
           DistinctIds(p), DistinctIds(q)
    PROVE  build_dag(p) = build_dag(q)
<1>1. Ids(p) = Ids(q)
      BY DEF Ids
<1>2. Edges(p) = Edges(q)
      BY <1>1 DEF Edges
<1>3. PICK here, there : here = build_dag(p).nodes /\ there = build_dag(q).nodes
      OBVIOUS
<1>4. /\ here = [n \in Ids(p) |-> p[SelectLastInSeq(p, LAMBDA s : s.id = n)]]
      /\ there = [n \in Ids(q) |-> q[SelectLastInSeq(q, LAMBDA s : s.id = n)]]
      BY <1>3 DEF build_dag
<1>5. /\ here = [n \in Ids(p) |-> here[n]]
      /\ there = [n \in Ids(q) |-> there[n]]
  <2>1. DOMAIN here = Ids(p) /\ DOMAIN there = Ids(q)
        BY <1>4
  <2> QED
      BY <1>4, <2>1
<1>6. ASSUME NEW n \in Ids(p) PROVE here[n] = there[n]
  <2>1. PICK s \in ToSet(p) : s.id = n
        BY DEF Ids
  <2>2. here[n] = s /\ there[n] = s
        BY <1>3, <2>1, NodeOfSpan
  <2> QED
      BY <2>2
<1>7. here = there
      BY <1>1, <1>5, <1>6
<1>8. build_dag(p) = [nodes |-> here, edges |-> Edges(p)]
      BY <1>3 DEF build_dag
<1>9. build_dag(q) = [nodes |-> there, edges |-> Edges(q)]
      BY <1>3 DEF build_dag
<1> QED
    BY <1>2, <1>7, <1>8, <1>9

\* The sweep of a list does not depend on its order either.
LEMMA SameSweep ==
    ASSUME NEW T, NEW p \in Seq(T), NEW q \in Seq(T), ToSet(p) = ToSet(q),
           DistinctIds(p), DistinctIds(q), NEW limit
    PROVE  sweep(p, limit) = sweep(q, limit)
<1>1. build_dag(p) = build_dag(q)
      BY SameGraph
<1>2. p = <<>> <=> q = <<>>
  <2>1. p = <<>> <=> ToSet(p) = {}
        BY DEF ToSet
  <2>2. q = <<>> <=> ToSet(q) = {}
        BY DEF ToSet
  <2> QED
      BY <2>1, <2>2
<1>3. topo_orders(p, limit) = topo_orders(q, limit)
      BY <1>1, <1>2 DEF topo_orders
<1>4. canonical_render(p) = canonical_render(q)
      BY <1>1 DEF canonical_render
<1>5. trace_closed(p) = trace_closed(q)
      BY DEF trace_closed
<1> QED
    BY <1>1, <1>3, <1>4, <1>5 DEF sweep

\* What the judges are shown of it differs in the order of one rendering; all
\* three are about the same facts.
LEMMA SameRenderings ==
    ASSUME NEW T, NEW p \in Seq(T), NEW q \in Seq(T), ToSet(p) = ToSet(q),
           DistinctIds(p), DistinctIds(q), Numbered(ToSet(p)),
           NEW here, here = judge_renderings(p),
           NEW there, there = judge_renderings(q)
    PROVE  /\ here.canonical = there.canonical
           /\ here.time_sorted = there.time_sorted
           /\ ToSet(here.text) = here.canonical.nodes
           /\ ToSet(here.time_sorted) = here.canonical.nodes
<1>1. build_dag(p) = build_dag(q)
      BY SameGraph
<1>2. /\ time_sorted(p) = time_sorted(q)
      /\ DOMAIN time_sorted(p) = DOMAIN p /\ DOMAIN time_sorted(q) = DOMAIN q
      /\ ToSet(time_sorted(p)) = ToSet(p)
      BY TimeSortsAlike
<1>3. here.canonical = there.canonical
      BY <1>1 DEF judge_renderings
<1>4. here.time_sorted = there.time_sorted
  <2>1. PICK timed : timed = time_sorted(p)
        OBVIOUS
  <2>2. /\ here.time_sorted = [i \in DOMAIN p |-> fact_line(timed[i])]
        /\ there.time_sorted = [i \in DOMAIN q |-> fact_line(timed[i])]
        BY <1>2, <2>1 DEF judge_renderings
  <2> QED
      BY <1>2, <2>2
<1>5. here.canonical.nodes = {fact_line(s) : s \in ToSet(p)}
  <2>1. here.canonical.nodes = {fact_line(build_dag(p).nodes[n]) :
                                  n \in DOMAIN build_dag(p).nodes}
        BY DEF judge_renderings
  <2>2. DOMAIN build_dag(p).nodes = {s.id : s \in ToSet(p)}
        BY DEF build_dag, Ids
  <2>3. \A s \in ToSet(p) : build_dag(p).nodes[s.id] = s
        BY NodeOfSpan
  <2> QED
      BY <2>1, <2>2, <2>3
<1>6. ToSet(here.text) = {fact_line(s) : s \in ToSet(p)}
  <2>1. here.text = [i \in DOMAIN p |-> fact_line(p[i])]
        BY DEF judge_renderings
  <2> QED
      BY <2>1 DEF ToSet
<1>7. ToSet(here.time_sorted) = {fact_line(s) : s \in ToSet(p)}
  <2>1. PICK timed : timed = time_sorted(p)
        OBVIOUS
  <2>2. here.time_sorted = [i \in DOMAIN timed |-> fact_line(timed[i])]
        BY <1>2, <2>1 DEF judge_renderings
  <2>3. ToSet(timed) = ToSet(p)
        BY <1>2, <2>1
  <2>4. ToSet(here.time_sorted) = {fact_line(s) : s \in ToSet(timed)}
        BY <2>2 DEF ToSet
  <2> QED
      BY <2>3, <2>4
<1> QED
    BY <1>3, <1>4, <1>5, <1>6, <1>7

\* The spans that have arrived, in the order in which they were made.
LEMMA MadeFacts ==
    ASSUME CausalInv,
           NEW made, made = Picked(trace, {i \in DOMAIN trace :
                                              trace[i] \in ToSet(arrived)})
    PROVE  /\ made \in Seq(ToSet(trace)) /\ DistinctIds(made)
           /\ ToSet(made) = ToSet(arrived)
<1>1. trace \in Seq(ToSet(trace)) /\ DistinctIds(trace)
      BY TraceFacts
<1>2. ToSet(arrived) \subseteq ToSet(trace)
      BY ArrivedFacts
<1>3. PICK S : S = {i \in DOMAIN trace : trace[i] \in ToSet(arrived)}
      OBVIOUS
<1>4. /\ made \in Seq(ToSet(trace)) /\ DistinctIds(made)
      /\ ToSet(made) = {trace[i] : i \in S \cap DOMAIN trace}
      BY <1>1, <1>3, PickedIds
<1>5. {trace[i] : i \in S \cap DOMAIN trace} = ToSet(arrived)
      BY <1>2, <1>3 DEF ToSet
<1> QED
    BY <1>4, <1>5

\* For every trace and fault, every prefix of every order of arrival and
\* every limit, the sweep and the canonical and the sorted rendering are those
\* of the spans in the order in which they were made.
THEOREM ArrivalIsForgotten == Spec => []OrderIsForgotten
<1>1. CausalInv => OrderIsForgotten
  <2> SUFFICES ASSUME CausalInv PROVE OrderIsForgotten
      OBVIOUS
  <2>1. PICK made : made = Picked(trace, {i \in DOMAIN trace :
                                             trace[i] \in ToSet(arrived)})
        OBVIOUS
  <2>2. /\ made \in Seq(ToSet(trace)) /\ DistinctIds(made)
        /\ ToSet(arrived) = ToSet(made)
        BY <2>1, MadeFacts
  <2>3. /\ arrived \in Seq(ToSet(trace)) /\ DistinctIds(arrived)
        /\ Numbered(ToSet(arrived))
        BY ArrivedFacts
  <2>4. PICK here, there :
            here = judge_renderings(arrived) /\ there = judge_renderings(made)
        OBVIOUS
  <2>5. sweep(arrived, Min(TopoLimits)) = sweep(made, Min(TopoLimits))
        BY <2>2, <2>3, SameSweep
  <2>6. /\ here.canonical = there.canonical
        /\ here.time_sorted = there.time_sorted
        /\ ToSet(here.text) = here.canonical.nodes
        /\ ToSet(here.time_sorted) = here.canonical.nodes
        BY <2>2, <2>3, <2>4, SameRenderings
  <2> QED
      BY <2>1, <2>4, <2>5, <2>6 DEF OrderIsForgotten
<1> QED
    BY <1>1, CausalInvariant, PTL

-----------------------------------------------------------------------------
\* A finite set of numbers has a bound.
LEMMA FiniteHasBound ==
    ASSUME NEW S \in SUBSET Nat, IsFiniteSet(S)
    PROVE  \E top \in Nat : \A x \in S : x <= top
<1> PICK N \in Nat : N = Cardinality(S)
    BY FS_CardinalityType
<1> DEFINE Bounded(T) == \E top \in Nat : \A x \in T : x <= top
           H == {n \in 0..N : \A T \in SUBSET S : Cardinality(T) = n => Bounded(T)}
<1>1. 0 \in H
  <2>1. ASSUME NEW T \in SUBSET S, Cardinality(T) = 0 PROVE Bounded(T)
    <3>1. T = {}
          BY <2>1, FS_Subset, FS_EmptySet
    <3> QED
        BY <3>1
  <2> QED
      BY <2>1
<1>2. ASSUME NEW n \in 1..N, n - 1 \in H PROVE n \in H
  <2> SUFFICES ASSUME NEW T \in SUBSET S, Cardinality(T) = n PROVE Bounded(T)
      OBVIOUS
  <2>1. IsFiniteSet(T)
        BY FS_Subset
  <2>2. PICK x \in T : TRUE
    <3>1. T # {}
      <4>1. Cardinality({}) = 0
            BY FS_EmptySet
      <4> QED
          BY <4>1
    <3> QED
        BY <3>1
  <2>3. Cardinality(T \ {x}) = n - 1
        BY <2>1, <2>2, FS_RemoveElement
  <2>4. PICK top \in Nat : \A y \in T \ {x} : y <= top
        BY <1>2, <2>3
  <2>5. x \in Nat
        OBVIOUS
  <2>6. \A y \in T : y <= top + x
        BY <2>4, <2>5
  <2>7. top + x \in Nat
        BY <2>4, <2>5
  <2> QED
      BY <2>6, <2>7
<1>3. \A n \in 0..N : n \in H
  <2> HIDE DEF H
  <2> QED
      BY <1>1, <1>2, UpTo
<1> QED
    BY <1>3

\* So Max finds the largest one.
LEMMA MaxFacts ==
    ASSUME NEW S \in SUBSET Nat, IsFiniteSet(S), S # {}
    PROVE  Max(S) \in S /\ \A x \in S : x <= Max(S)
<1> DEFINE U == {top \in Nat : \A x \in S : x <= top}
<1>1. U # {}
      BY FiniteHasBound
<1>2. PICK top \in U : \A c \in U : top <= c
      BY <1>1, LeastNumber
<1>3. top \in S
  <2> SUFFICES ASSUME top \notin S PROVE FALSE
      OBVIOUS
  <2>1. PICK x \in S : TRUE
        OBVIOUS
  <2>2. top \in Nat /\ \A y \in S : y \in Nat /\ y <= top /\ y # top
        BY <1>2
  <2>3. top - 1 \in Nat /\ \A y \in S : y <= top - 1
        BY <2>1, <2>2
  <2>4. top <= top - 1
        BY <1>2, <2>3
  <2> QED
      BY <2>2, <2>4
<1>4. \E m \in S : \A y \in S : m >= y
      BY <1>2, <1>3
<1>5. Max(S) \in S /\ \A y \in S : Max(S) >= y
      BY <1>4 DEF Max
<1> QED
    BY <1>5

\* Ascending lists the set.
LEMMA AscendingFacts ==
    ASSUME NEW S \in SUBSET (Nat \ {0}), IsFiniteSet(S), NEW p, p = Ascending(S)
    PROVE  p \in Seq(S) /\ ToSet(p) = S /\ Distinct(p)
<1>1. S \cup {0} \in SUBSET Nat /\ IsFiniteSet(S \cup {0}) /\ S \cup {0} # {}
      BY FS_AddElement
<1>2. PICK m : m = Max(S \cup {0})
      OBVIOUS
<1>3. m \in Nat /\ \A x \in S : x \in 1..m
  <2>1. m \in S \cup {0} /\ \A x \in S \cup {0} : x <= m
        BY <1>1, <1>2, MaxFacts
  <2> QED
      BY <2>1
<1>4. PICK seq : seq = [n \in 1..m |-> n]
      OBVIOUS
<1>5. seq \in Seq(Nat) /\ DOMAIN seq = 1..m /\ \A n \in 1..m : seq[n] = n
      BY <1>3, <1>4
<1>6. p = Picked(seq, S)
      BY <1>2, <1>4 DEF Ascending
<1>7. S \cap DOMAIN seq = S
      BY <1>3, <1>5
<1>8. p \in Seq(Nat) /\ ToSet(p) = {seq[i] : i \in S}
  <2>1. PICK A : A = S \cap DOMAIN seq
        OBVIOUS
  <2>2. p \in Seq(Nat) /\ ToSet(p) = {seq[i] : i \in S \cap DOMAIN seq}
    <3>1. PICK T : T = Nat
          OBVIOUS
    <3>2. seq \in Seq(T)
          BY <1>5, <3>1
    <3>3. p \in Seq(T) /\ ToSet(p) = {seq[i] : i \in S \cap DOMAIN seq}
          BY <1>6, <3>2, PickedFacts
    <3> QED
        BY <3>1, <3>3
  <2> QED
      BY <1>7, <2>2
<1>9. ToSet(p) = S
      BY <1>3, <1>5, <1>8
<1>10. Distinct(p)
  <2>1. PICK A : A = S \cap DOMAIN seq
        OBVIOUS
  <2>2. \A i, j \in A : seq[i] = seq[j] => i = j
        BY <1>5, <2>1
  <2>3. PICK T : T = Nat
        OBVIOUS
  <2>4. seq \in Seq(T)
        BY <1>5, <2>3
  <2>5. Distinct(Picked(seq, S))
        BY <2>1, <2>2, <2>4, PickedDistinct
  <2> QED
      BY <1>6, <2>5
<1>11. p \in Seq(S)
  <2>1. \A k \in DOMAIN p : p[k] \in S
        BY <1>9 DEF ToSet
  <2> QED
      BY <1>8, <2>1
<1> QED
    BY <1>9, <1>10, <1>11

\* A list without repetitions is as long as its set is large.
LEMMA DistinctCount ==
    ASSUME NEW T, NEW p \in Seq(T), Distinct(p)
    PROVE  IsFiniteSet(ToSet(p)) /\ Cardinality(ToSet(p)) = Len(p)
<1>1. PICK n \in Nat : n = Len(p) /\ DOMAIN p = 1..n
      OBVIOUS
<1>2. PICK S : S = ToSet(p)
      OBVIOUS
<1>3. p \in Bijection(1..n, S)
  <2>1. p \in [1..n -> S]
    <3>1. \A k \in 1..n : p[k] \in S
          BY <1>1, <1>2 DEF ToSet
    <3>2. p = [k \in 1..n |-> p[k]]
          BY <1>1
    <3> QED
        BY <3>1, <3>2
  <2>2. \A s \in S : \E k \in 1..n : p[k] = s
        BY <1>1, <1>2 DEF ToSet
  <2>3. \A k, l \in 1..n : p[k] = p[l] => k = l
        BY <1>1 DEF Distinct
  <2> QED
      BY <2>1, <2>2, <2>3 DEF Bijection, Injection, Surjection, IsInjective
<1>4. ExistsBijection(1..n, S)
      BY <1>3 DEF ExistsBijection
<1>5. Cardinality(S) = n /\ IsFiniteSet(S)
      BY <1>4, FS_CountingElements, FS_NatBijection
<1> QED
    BY <1>1, <1>2, <1>5

\* The values of a function on a finite set are finitely many.
LEMMA ValuesFinite ==
    ASSUME NEW S, IsFiniteSet(S), NEW f
    PROVE  IsFiniteSet({f[x] : x \in S})
<1>1. PICK T : T = {f[x] : x \in S}
      OBVIOUS
<1>2. PICK g : g = [x \in S |-> f[x]]
      OBVIOUS
<1>3. g \in Surjection(S, T)
      BY <1>1, <1>2 DEF Surjection
<1> QED
    BY <1>1, <1>3, FS_Surjection

-----------------------------------------------------------------------------
\* The orders of a graph.
Nodes(dag) == DOMAIN dag.nodes

\* A graph as build_dag makes it: no edge leads back to where it starts.
IsGraph(dag) ==
    /\ Nodes(dag) \in SUBSET (Nat \ {0}) /\ IsFiniteSet(Nodes(dag))
    /\ IsFiniteSet(dag.edges)
    /\ \A e \in dag.edges : e[1] # e[2]

\* The edges into a node whose source has not come yet.
Open(dag, o, n) ==
    {e \in dag.edges : e[1] \in Nodes(dag) \ ToSet(o) /\ e[2] = n}

\* o begins an order: the causes of what has come have come before.
Legal(dag, o) ==
    /\ o \in Seq(Nodes(dag)) /\ Distinct(o)
    /\ \A i \in DOMAIN o : \A e \in dag.edges :
          e[1] \in Nodes(dag) /\ e[2] = o[i] => \E j \in 1..i - 1 : o[j] = e[1]

\* What may come next.
Ready(dag, o) == {n \in Nodes(dag) \ ToSet(o) : Open(dag, o, n) = {}}

Whole(dag, o) == Legal(dag, o) /\ Len(o) = Cardinality(Nodes(dag))

\* s is a beginning of t.
Begins(s, t) == Len(s) <= Len(t) /\ \A k \in 1..Len(s) : s[k] = t[k]

\* One more node is one more in the set.
LEMMA AppendedSet ==
    ASSUME NEW T, NEW p \in Seq(T), NEW x \in T
    PROVE  ToSet(Append(p, x)) = ToSet(p) \cup {x}
<1> PICK q : q = Append(p, x)
    OBVIOUS
<1>1. PICK m : m = Len(p)
      OBVIOUS
<1>2. /\ m \in Nat /\ q \in Seq(T) /\ Len(q) = m + 1 /\ q[m + 1] = x
      /\ \A k \in 1..m : q[k] = p[k]
      BY <1>1, Appended
<1>3. DOMAIN p = 1..m /\ DOMAIN q = 1..m + 1
      BY <1>1, <1>2
<1>4. \A k \in 1..m + 1 : k \in 1..m \/ k = m + 1
      BY <1>2
<1>5. 1..m \subseteq 1..m + 1 /\ m + 1 \in 1..m + 1
      BY <1>2
<1>6. ToSet(p) = {p[k] : k \in 1..m} /\ ToSet(q) = {q[k] : k \in 1..m + 1}
      BY <1>3 DEF ToSet
<1> QED
    BY <1>2, <1>4, <1>5, <1>6

\* When a node comes, the edges out of it are open no more.
LEMMA OpenShrinks ==
    ASSUME NEW dag, IsGraph(dag), NEW o \in Seq(Nodes(dag)),
           NEW n \in Nodes(dag) \ ToSet(o), NEW q, q = Append(o, n), NEW m
    PROVE  /\ Adjacent(dag, n, m) \in Nat
           /\ IsFiniteSet(Open(dag, o, m))
           /\ Cardinality(Open(dag, o, m)) \in Nat
           /\ Cardinality(Open(dag, q, m))
                = Cardinality(Open(dag, o, m)) - Adjacent(dag, n, m)
<1>1. PICK A : A = {e \in dag.edges : e[1] = n /\ e[2] = m}
      OBVIOUS
<1>2. PICK B, C : B = Open(dag, o, m) /\ C = Open(dag, q, m)
      OBVIOUS
<1>3. IsFiniteSet(dag.edges) /\ A \in SUBSET dag.edges /\ B \in SUBSET dag.edges
      BY <1>1, <1>2 DEF Open, IsGraph
<1>4. IsFiniteSet(A) /\ IsFiniteSet(B)
      BY <1>3, FS_Subset
<1>5. Cardinality(A) \in Nat /\ Cardinality(B) \in Nat
      BY <1>4, FS_CardinalityType
<1>6. ToSet(q) = ToSet(o) \cup {n}
  <2>1. PICK N : N = Nodes(dag)
        OBVIOUS
  <2>2. o \in Seq(N) /\ n \in N
        BY <2>1
  <2>3. ToSet(Append(o, n)) = ToSet(o) \cup {n}
        BY <2>2, AppendedSet
  <2> QED
      BY <2>3
<1>7. C = B \ A /\ B \cap A = A
      BY <1>1, <1>2, <1>6 DEF Open
<1>8. Cardinality(C) = Cardinality(B) - Cardinality(A)
  <2>1. Cardinality(B \ A) = Cardinality(B) - Cardinality(B \cap A)
        BY <1>4, FS_Difference
  <2> QED
      BY <1>7, <2>1
<1>9. Adjacent(dag, n, m) = Cardinality(A)
      BY <1>1 DEF Adjacent
<1> QED
    BY <1>2, <1>4, <1>5, <1>8, <1>9

\* How long a beginning can be.
LEMMA LegalLength ==
    ASSUME NEW dag, IsGraph(dag), NEW o, Legal(dag, o)
    PROVE  /\ Len(o) \in Nat /\ Cardinality(Nodes(dag)) \in Nat
           /\ Len(o) <= Cardinality(Nodes(dag))
           /\ Len(o) = Cardinality(Nodes(dag)) <=> ToSet(o) = Nodes(dag)
<1>1. PICK N : N = Nodes(dag)
      OBVIOUS
<1>2. IsFiniteSet(N) /\ o \in Seq(N) /\ Distinct(o)
      BY <1>1 DEF IsGraph, Legal
<1>3. PICK S : S = ToSet(o)
      OBVIOUS
<1>4. S \in SUBSET N
      BY <1>2, <1>3, SeqPart
<1>5. Cardinality(S) = Len(o) /\ IsFiniteSet(S)
      BY <1>2, <1>3, DistinctCount
<1>6. Cardinality(S) <= Cardinality(N) /\ (Cardinality(N) = Cardinality(S) => N = S)
      BY <1>2, <1>4, FS_Subset
<1>7. Cardinality(N) \in Nat /\ Len(o) \in Nat
      BY <1>2, FS_CardinalityType
<1> QED
    BY <1>1, <1>3, <1>5, <1>6, <1>7

\* A beginning goes on with whatever is ready.
LEMMA LegalGrows ==
    ASSUME NEW dag, IsGraph(dag), NEW o, Legal(dag, o), NEW n \in Ready(dag, o),
           NEW q, q = Append(o, n)
    PROVE  Legal(dag, q)
<1>1. PICK N : N = Nodes(dag)
      OBVIOUS
<1>2. o \in Seq(N) /\ n \in N /\ n \notin ToSet(o) /\ Open(dag, o, n) = {}
      BY <1>1 DEF Legal, Ready
<1>3. PICK m : m = Len(o)
      OBVIOUS
<1>4. /\ m \in Nat /\ q \in Seq(N) /\ Len(q) = m + 1 /\ q[m + 1] = n
      /\ \A k \in 1..m : q[k] = o[k]
      BY <1>2, <1>3, Appended
<1>5. DOMAIN o = 1..m /\ DOMAIN q = 1..m + 1
      BY <1>2, <1>3, <1>4
<1>6. \A k \in 1..m + 1 : k \in 1..m \/ k = m + 1
      BY <1>4
<1>7. Distinct(q)
  <2>1. \A k \in 1..m : o[k] # n
        BY <1>2, <1>5 DEF ToSet
  <2>2. \A k, l \in 1..m : o[k] = o[l] => k = l
        BY <1>5 DEF Legal, Distinct
  <2>3. \A k, l \in 1..m + 1 : q[k] = q[l] => k = l
        BY <1>4, <1>6, <2>1, <2>2
  <2> QED
      BY <1>5, <2>3 DEF Distinct
<1>8. ASSUME NEW i \in 1..m + 1, NEW e \in dag.edges, e[1] \in N, e[2] = q[i]
      PROVE  \E j \in 1..i - 1 : q[j] = e[1]
  <2>1. CASE i = m + 1
    <3>1. e[2] = n
          BY <1>4, <1>8, <2>1
    <3>2. e[1] \in ToSet(o)
          BY <1>1, <1>2, <1>8, <3>1 DEF Open
    <3>3. PICK j \in 1..m : o[j] = e[1]
          BY <1>5, <3>2 DEF ToSet
    <3> QED
        BY <1>4, <2>1, <3>3
  <2>2. CASE i \in 1..m
    <3>1. e[2] = o[i]
          BY <1>4, <1>8, <2>2
    <3>2. PICK j \in 1..i - 1 : o[j] = e[1]
          BY <1>1, <1>5, <1>8, <2>2, <3>1 DEF Legal
    <3>3. j \in 1..m
          BY <1>4, <2>2, <3>2
    <3> QED
        BY <1>4, <3>2, <3>3
  <2> QED
      BY <1>6, <2>1, <2>2
<1> QED
    BY <1>1, <1>4, <1>5, <1>7, <1>8 DEF Legal

\* What comes next in an order is ready when its beginning has come.
LEMMA NextIsReady ==
    ASSUME NEW dag, IsGraph(dag), NEW w, Legal(dag, w), NEW o, Legal(dag, o),
           Begins(o, w), Len(o) < Len(w)
    PROVE  w[Len(o) + 1] \in Ready(dag, o)
<1>1. PICK m, l : m = Len(o) /\ l = Len(w)
      OBVIOUS
<1>2. PICK n : n = w[m + 1]
      OBVIOUS
<1>3. /\ o \in Seq(Nodes(dag)) /\ w \in Seq(Nodes(dag))
      BY DEF Legal
<1>4. /\ m \in Nat /\ l \in Nat /\ m < l
      /\ DOMAIN o = 1..m /\ DOMAIN w = 1..l
      BY <1>1, <1>3
<1>5. /\ m + 1 \in 1..l /\ n \in Nodes(dag)
      /\ \A k \in 1..m : k \in 1..l /\ k # m + 1 /\ o[k] = w[k]
      BY <1>1, <1>2, <1>3, <1>4 DEF Begins
<1>6. n \notin ToSet(o)
  <2>1. \A k \in 1..m : o[k] # n
        BY <1>2, <1>4, <1>5 DEF Legal, Distinct
  <2> QED
      BY <1>4, <2>1 DEF ToSet
<1>7. Open(dag, o, n) = {}
  <2> SUFFICES ASSUME NEW e \in dag.edges, e[1] \in Nodes(dag) \ ToSet(o), e[2] = n
               PROVE  FALSE
      BY DEF Open
  <2>1. PICK j \in 1..(m + 1) - 1 : w[j] = e[1]
        BY <1>2, <1>4, <1>5 DEF Legal
  <2>2. j \in 1..m
        BY <1>4, <2>1
  <2>3. o[j] = e[1]
        BY <1>5, <2>1, <2>2
  <2> QED
      BY <1>4, <2>2, <2>3 DEF ToSet
<1> QED
    BY <1>1, <1>2, <1>5, <1>6, <1>7 DEF Ready

\* Where there is an order, every beginning goes on.
LEMMA SomeReady ==
    ASSUME NEW dag, IsGraph(dag), NEW w, Whole(dag, w), NEW o, Legal(dag, o),
           Len(o) # Cardinality(Nodes(dag))
    PROVE  Ready(dag, o) # {}
<1>1. PICK l \in Nat : l = Len(w) /\ DOMAIN w = 1..l
  <2>1. w \in Seq(Nodes(dag))
        BY DEF Whole, Legal
  <2> QED
      BY <2>1
<1>2. Legal(dag, w) /\ ToSet(w) = Nodes(dag)
      BY LegalLength DEF Whole
<1>3. PICK n \in Nodes(dag) : n \notin ToSet(o)
  <2>1. ToSet(o) # Nodes(dag)
        BY LegalLength
  <2>2. ToSet(o) \subseteq Nodes(dag)
    <3>1. o \in Seq(Nodes(dag))
          BY DEF Legal
    <3> QED
        BY <3>1, SeqPart
  <2> QED
      BY <2>1, <2>2
<1>4. PICK P : P = {k \in 1..l : w[k] \notin ToSet(o)}
      OBVIOUS
<1>5. P \in SUBSET Nat /\ P # {}
  <2>1. \E k \in 1..l : w[k] = n
        BY <1>1, <1>2 DEF ToSet
  <2> QED
      BY <1>3, <1>4, <2>1
<1>6. PICK k \in P : \A i \in P : k <= i
      BY <1>5, LeastNumber
<1>7. k \in 1..l /\ w[k] \notin ToSet(o) /\ w[k] \in Nodes(dag)
      BY <1>1, <1>2, <1>4 DEF ToSet
<1>8. Open(dag, o, w[k]) = {}
  <2> SUFFICES ASSUME NEW e \in dag.edges, e[1] \in Nodes(dag) \ ToSet(o),
                      e[2] = w[k]
               PROVE  FALSE
      BY DEF Open
  <2>1. PICK j \in 1..k - 1 : w[j] = e[1]
        BY <1>1, <1>2, <1>7 DEF Legal
  <2>2. j \in P
        BY <1>1, <1>4, <1>7, <2>1
  <2> QED
      BY <1>1, <1>6, <1>7, <2>1, <2>2
<1> QED
    BY <1>7, <1>8 DEF Ready

-----------------------------------------------------------------------------
\* Spans whose links are lists.
Linked(V) == \A s \in V : s.links \in Seq(Int)

\* The spans of every trace are.
LEMMA TraceLinked ==
    ASSUME CausalInv
    PROVE  Linked(ToSet(trace)) /\ Linked(ToSet(arrived))
<1>1. Linked(ToSet(trace))
  <2>1. CASE trace = <<>>
    <3>1. ToSet(trace) = {}
          BY <2>1 DEF ToSet
    <3> QED
        BY <3>1 DEF Linked
  <2>2. CASE trace # <<>>
    <3>1. PICK spans \in Traces : trace = apply_fault(spans, fault)
          BY <2>2 DEF CausalInv
    <3>2. spans \in Seq(CausalSpan)
          BY TracesAssumption
    <3>3. Faulted(trace, spans, fault)
          BY <3>1, <3>2, FaultKeeps DEF CausalInv
    <3>4. ASSUME NEW i \in DOMAIN spans PROVE trace[i].links \in Seq(Int)
      <4>1. spans[i] \in CausalSpan
            BY <3>2
      <4>2. spans[i].links \in Seq(Nat)
            BY <4>1 DEF CausalSpan
      <4>3. PICK l : l = spans[i].links
            OBVIOUS
      <4>4. l \in Seq(Int) /\ <<>> \in Seq(Int)
            BY <4>2, <4>3
      <4>5. l # <<>> => [l EXCEPT ![1] = ForeignSpan] \in Seq(Int)
            BY <4>4 DEF ForeignSpan
      <4>6. \/ trace[i].links = <<>> \/ trace[i].links = l
            \/ l # <<>> /\ trace[i].links = [l EXCEPT ![1] = ForeignSpan]
            BY <3>3, <4>3 DEF Faulted
      <4> QED
          BY <4>4, <4>5, <4>6
    <3>5. DOMAIN trace = DOMAIN spans
          BY <3>3 DEF Faulted
    <3> QED
        BY <3>4, <3>5 DEF Linked, ToSet
  <2> QED
      BY <2>1, <2>2
<1>2. ToSet(arrived) \subseteq ToSet(trace)
      BY ArrivedFacts
<1> QED
    BY <1>1, <1>2 DEF Linked

\* A list of spans has finitely many edges.
LEMMA EdgesFinite ==
    ASSUME NEW T, NEW p \in Seq(T), Linked(ToSet(p))
    PROVE  IsFiniteSet(Edges(p)) /\ IsFiniteSet(Ids(p))
<1>1. PICK n \in Nat : n = Len(p) /\ DOMAIN p = 1..n
      OBVIOUS
<1>2. IsFiniteSet(1..n)
      BY FS_Interval
<1>3. ToSet(p) = {p[i] : i \in 1..n}
      BY <1>1 DEF ToSet
<1>4. PICK I : I = Ids(p)
      OBVIOUS
<1>5. IsFiniteSet(I)
  <2>1. PICK f : f = [i \in 1..n |-> p[i].id]
        OBVIOUS
  <2>2. I = {f[i] : i \in 1..n}
        BY <1>3, <1>4, <2>1 DEF Ids
  <2> QED
      BY <1>2, <2>2, ValuesFinite
<1>6. PICK f : f = [i \in 1..n |-> ToSet(p[i].links)]
      OBVIOUS
<1>7. PICK L : L = UNION {f[i] : i \in 1..n}
      OBVIOUS
<1>8. IsFiniteSet(L)
  <2>1. ASSUME NEW i \in 1..n PROVE IsFiniteSet(f[i])
    <3>1. PICK l : l = p[i].links
          OBVIOUS
    <3>2. l \in Seq(Int)
          BY <1>3, <3>1 DEF Linked
    <3>3. PICK m \in Nat : m = Len(l) /\ DOMAIN l = 1..m
          BY <3>2
    <3>4. f[i] = {l[k] : k \in 1..m}
          BY <1>6, <3>1, <3>3 DEF ToSet
    <3>5. IsFiniteSet(1..m)
          BY <3>3, FS_Interval
    <3>6. IsFiniteSet({l[k] : k \in 1..m})
          BY <3>5, ValuesFinite
    <3> QED
        BY <3>4, <3>6
  <2>2. IsFiniteSet({f[i] : i \in 1..n})
        BY <1>2, ValuesFinite
  <2> QED
      BY <1>7, <2>1, <2>2, FS_UNION
<1>9. PICK X : X = I \cup L
      OBVIOUS
<1>10. IsFiniteSet(X)
       BY <1>5, <1>8, <1>9, FS_Union
<1>11. PICK P : P = (X \X I) \X {"parent", "link"}
       OBVIOUS
<1>12. IsFiniteSet(P)
  <2>1. IsFiniteSet({"parent"})
        BY FS_Singleton
  <2>2. {"parent", "link"} = {"parent"} \cup {"link"}
        OBVIOUS
  <2>3. IsFiniteSet({"parent", "link"})
        BY <2>1, <2>2, FS_AddElement
  <2>4. IsFiniteSet(X \X I)
        BY <1>5, <1>10, FS_Product
  <2> QED
      BY <1>11, <2>3, <2>4, FS_Product
<1>13. PICK g : g = [w \in P |-> <<w[1][1], w[1][2], w[2]>>]
       OBVIOUS
<1>14. \A x \in X, y \in I, k \in {"parent", "link"} :
           <<x, y, k>> \in {g[w] : w \in P}
  <2> SUFFICES ASSUME NEW x \in X, NEW y \in I, NEW k \in {"parent", "link"}
               PROVE  <<x, y, k>> \in {g[w] : w \in P}
      OBVIOUS
  <2>1. PICK w : w = <<<<x, y>>, k>>
        OBVIOUS
  <2>2. w \in P
        BY <1>11, <2>1
  <2>3. g[w] = <<x, y, k>>
        BY <1>13, <2>1, <2>2
  <2> QED
      BY <2>2, <2>3
<1>15. Edges(p) \subseteq {g[w] : w \in P}
  <2>1. ASSUME NEW s \in ToSet(p)
        PROVE  s.id \in I /\ \A t \in ToSet(s.links) : t \in X
    <3>1. PICK i \in 1..n : s = p[i]
          BY <1>3
    <3>2. f[i] = ToSet(s.links)
          BY <1>6, <3>1
    <3>3. f[i] \subseteq L
          BY <1>7
    <3> QED
        BY <1>4, <1>9, <3>2, <3>3 DEF Ids
  <2>2. \A y \in I : y \in X
        BY <1>9
  <2>3. ASSUME NEW e \in Edges(p)
        PROVE  \E x \in X, y \in I, k \in {"parent", "link"} : e = <<x, y, k>>
    <3>1. PICK s \in ToSet(p) :
              \/ \E x \in ({s.parent} \ {s.id}) \cap Ids(p) : e = <<x, s.id, "parent">>
              \/ \E t \in ToSet(s.links) \ {s.id} : e = <<t, s.id, "link">>
          BY DEF Edges
    <3> QED
        BY <1>4, <2>1, <2>2, <3>1
  <2>4. ASSUME NEW e \in Edges(p) PROVE e \in {g[w] : w \in P}
    <3>1. PICK x \in X, y \in I, k \in {"parent", "link"} : e = <<x, y, k>>
          BY <2>3
    <3> QED
        BY <1>14, <3>1
  <2> QED
      BY <2>4
<1>16. IsFiniteSet({g[w] : w \in P})
       BY <1>12, ValuesFinite
<1>17. IsFiniteSet(Edges(p))
       BY <1>15, <1>16, FS_Subset
<1> QED
    BY <1>4, <1>5, <1>17

\* So the graph of a list of spans is a graph.
LEMMA GraphOf ==
    ASSUME NEW T, NEW p \in Seq(T), Numbered(ToSet(p)), Linked(ToSet(p)),
           NEW dag, dag = build_dag(p)
    PROVE  IsGraph(dag) /\ Nodes(dag) = Ids(p) /\ dag.edges = Edges(p)
<1>1. Nodes(dag) = Ids(p) /\ dag.edges = Edges(p)
      BY DEF Nodes, build_dag
<1>2. Ids(p) \in SUBSET (Nat \ {0})
      BY DEF Ids, Numbered, NoSpan
<1>3. \A e \in Edges(p) : e[1] # e[2]
  <2> SUFFICES ASSUME NEW e \in Edges(p) PROVE e[1] # e[2]
      OBVIOUS
  <2>1. PICK s \in ToSet(p) :
            \/ \E x \in ({s.parent} \ {s.id}) \cap Ids(p) : e = <<x, s.id, "parent">>
            \/ \E t \in ToSet(s.links) \ {s.id} : e = <<t, s.id, "link">>
        BY DEF Edges
  <2> QED
      BY <2>1
<1> QED
    BY <1>1, <1>2, <1>3, EdgesFinite DEF IsGraph

-----------------------------------------------------------------------------
\* A list is a beginning of itself.
LEMMA BeginsItself ==
    ASSUME NEW T, NEW s \in Seq(T)
    PROVE  Begins(s, s)
BY DEF Begins

\* What a longer list begins, the shorter one begins.
LEMMA BeginsSooner ==
    ASSUME NEW T, NEW o \in Seq(T), NEW n \in T, NEW t \in Seq(T),
           NEW q, q = Append(o, n), Begins(q, t)
    PROVE  Begins(o, t)
<1>1. PICK m, l : m = Len(o) /\ l = Len(t)
      OBVIOUS
<1>2. /\ m \in Nat /\ l \in Nat /\ Len(q) = m + 1
      /\ \A k \in 1..m : q[k] = o[k]
      BY <1>1, Appended
<1>3. m + 1 <= l /\ \A k \in 1..m + 1 : q[k] = t[k]
      BY <1>1, <1>2 DEF Begins
<1>4. \A k \in 1..m : k \in 1..m + 1
      BY <1>2
<1>5. m <= l /\ \A k \in 1..m : o[k] = t[k]
      BY <1>2, <1>3, <1>4
<1> QED
    BY <1>1, <1>5 DEF Begins

\* What begins the longer list begins the shorter one, or goes on from it.
LEMMA BeginsEither ==
    ASSUME NEW T, NEW o \in Seq(T), NEW n \in T, NEW s \in Seq(T),
           NEW q, q = Append(o, n), Begins(s, q)
    PROVE  Begins(s, o) \/ Begins(o, s)
<1>1. PICK m, l : m = Len(o) /\ l = Len(s)
      OBVIOUS
<1>2. /\ m \in Nat /\ l \in Nat /\ Len(q) = m + 1
      /\ \A k \in 1..m : q[k] = o[k]
      BY <1>1, Appended
<1>3. l <= m + 1 /\ \A k \in 1..l : s[k] = q[k]
      BY <1>1, <1>2 DEF Begins
<1>4. CASE l <= m
  <2>1. \A k \in 1..l : s[k] = o[k]
        BY <1>2, <1>3, <1>4
  <2> QED
      BY <1>1, <1>4, <2>1 DEF Begins
<1>5. CASE l = m + 1
  <2>1. m <= l /\ \A k \in 1..m : o[k] = s[k]
        BY <1>2, <1>3, <1>5
  <2> QED
      BY <1>1, <2>1 DEF Begins
<1> QED
    BY <1>2, <1>3, <1>4, <1>5

\* Lists that go on differently do not begin each other.
LEMMA BranchesApart ==
    ASSUME NEW T, NEW o \in Seq(T), NEW n \in T, NEW m \in T, n # m,
           NEW q, q = Append(o, n), NEW r, r = Append(o, m)
    PROVE  ~Begins(q, r)
<1>1. PICK l : l = Len(o)
      OBVIOUS
<1>2. l \in Nat /\ Len(q) = l + 1 /\ q[l + 1] = n
      BY <1>1, Appended
<1>3. r[l + 1] = m
      BY <1>1, Appended
<1>4. l + 1 \in 1..Len(q)
      BY <1>2
<1> QED
    BY <1>2, <1>3, <1>4 DEF Begins

\* An order that goes on like another from where that has come to.
LEMMA BeginsLater ==
    ASSUME NEW T, NEW o \in Seq(T), NEW t \in Seq(T), Begins(o, t),
           Len(o) < Len(t), NEW q, q = Append(o, t[Len(o) + 1])
    PROVE  Begins(q, t)
<1>1. PICK m, l : m = Len(o) /\ l = Len(t)
      OBVIOUS
<1>2. m \in Nat /\ l \in Nat /\ m < l
      BY <1>1
<1>3. m + 1 \in 1..l
      BY <1>2
<1>4. t[m + 1] \in T
      BY <1>1, <1>3
<1>5. /\ Len(q) = m + 1 /\ q[m + 1] = t[m + 1]
      /\ \A k \in 1..m : q[k] = o[k]
      BY <1>1, <1>4, Appended
<1>6. \A k \in 1..m : o[k] = t[k]
      BY <1>1 DEF Begins
<1>7. \A k \in 1..m + 1 : k \in 1..m \/ k = m + 1
      BY <1>2
<1>8. \A k \in 1..m + 1 : q[k] = t[k]
      BY <1>5, <1>6, <1>7
<1>9. m + 1 <= l
      BY <1>2
<1> QED
    BY <1>1, <1>5, <1>8, <1>9 DEF Begins

\* A list turned around repeats nothing if the list did not.
LEMMA ReverseDistinct ==
    ASSUME NEW T, NEW s \in Seq(T), Distinct(s)
    PROVE  Distinct(Reverse(s))
<1>1. PICK N \in Nat : N = Len(s) /\ DOMAIN s = 1..N
      OBVIOUS
<1>2. PICK r : r = Reverse(s)
      OBVIOUS
<1>3. r = [i \in 1..N |-> s[(N - i) + 1]]
      BY <1>1, <1>2 DEF Reverse
<1>4. ASSUME NEW k \in 1..N, NEW l \in 1..N, r[k] = r[l] PROVE k = l
  <2>1. (N - k) + 1 \in 1..N /\ (N - l) + 1 \in 1..N
        BY <1>1
  <2>2. s[(N - k) + 1] = s[(N - l) + 1]
        BY <1>3, <1>4
  <2>3. (N - k) + 1 = (N - l) + 1
        BY <1>1, <2>1, <2>2 DEF Distinct
  <2> QED
      BY <1>1, <2>3
<1>5. DOMAIN r = 1..N
      BY <1>3
<1> QED
    BY <1>2, <1>4, <1>5 DEF Distinct

-----------------------------------------------------------------------------
\* ind counts what is still open of each node that has not come.
Tracks(dag, o, ind) ==
    /\ ind \in [Nodes(dag) -> Int]
    /\ \A n \in Nodes(dag) : IF n \in ToSet(o) THEN ind[n] < 0
                             ELSE ind[n] = Cardinality(Open(dag, o, n))

\* At the start nothing has come, and the indegrees count what is open.
LEMMA StartTracks ==
    ASSUME NEW dag, IsGraph(dag), NEW o, o = <<>>
    PROVE  /\ Legal(dag, o) /\ ToSet(o) = {} /\ Len(o) = 0
           /\ Tracks(dag, o, Indegrees(dag))
           /\ \A n \in Nodes(dag) :
                Indegrees(dag)[n] = Cardinality(Open(dag, o, n))
<1>1. ToSet(o) = {} /\ o \in Seq(Nodes(dag)) /\ DOMAIN o = {} /\ Len(o) = 0
      BY DEF ToSet
<1>2. Legal(dag, o)
      BY <1>1 DEF Legal, Distinct
<1>3. ASSUME NEW n \in Nodes(dag)
      PROVE  /\ Indegrees(dag)[n] = Cardinality(Open(dag, o, n))
             /\ Indegrees(dag)[n] \in Int
  <2>1. PICK B : B = Open(dag, o, n)
        OBVIOUS
  <2>2. B = {e \in dag.edges : e[1] \in DOMAIN dag.nodes /\ e[2] = n}
        BY <1>1, <2>1 DEF Open, Nodes
  <2>3. Indegrees(dag)[n] = Cardinality(B)
        BY <2>2 DEF Indegrees, Nodes
  <2>4. IsFiniteSet(B)
    <3>1. B \in SUBSET dag.edges
          BY <2>2
    <3> QED
        BY <3>1, FS_Subset DEF IsGraph
  <2> QED
      BY <2>1, <2>3, <2>4, FS_CardinalityType
<1>4. Indegrees(dag) \in [Nodes(dag) -> Int]
  <2>1. PICK ind : ind = Indegrees(dag)
        OBVIOUS
  <2>2. ind = [n \in Nodes(dag) |-> ind[n]]
        BY <2>1 DEF Indegrees, Nodes
  <2> QED
      BY <1>3, <2>1, <2>2
<1> QED
    BY <1>1, <1>2, <1>3, <1>4 DEF Tracks

\* The frontier is what is ready.
LEMMA FrontierFacts ==
    ASSUME NEW dag, IsGraph(dag), NEW o, NEW ind, Tracks(dag, o, ind)
    PROVE  /\ Frontier(ind) \in Seq(Ready(dag, o))
           /\ ToSet(Frontier(ind)) = Ready(dag, o)
           /\ Distinct(Frontier(ind))
<1>1. DOMAIN ind = Nodes(dag)
      BY DEF Tracks
<1>2. \A n \in Nodes(dag) \ ToSet(o) :
          ind[n] = Cardinality(Open(dag, o, n))
      BY DEF Tracks
<1>3. \A n \in Nodes(dag) \cap ToSet(o) : ind[n] \in Int /\ ind[n] < 0
      BY DEF Tracks
<1>4. \A n : IsFiniteSet(Open(dag, o, n))
  <2>1. \A n : Open(dag, o, n) \in SUBSET dag.edges
        BY DEF Open
  <2> QED
      BY <2>1, FS_Subset DEF IsGraph
<1>5. \A n : Cardinality(Open(dag, o, n)) = 0 <=> Open(dag, o, n) = {}
      BY <1>4, FS_EmptySet
<1>6. {n \in DOMAIN ind : ind[n] = 0} = Ready(dag, o)
      BY <1>1, <1>2, <1>3, <1>5 DEF Ready
<1>7. PICK R : R = Ready(dag, o)
      OBVIOUS
<1>8. R \in SUBSET (Nat \ {0}) /\ IsFiniteSet(R)
  <2>1. R \in SUBSET Nodes(dag)
        BY <1>7 DEF Ready
  <2> QED
      BY <2>1, FS_Subset DEF IsGraph
<1>9. Frontier(ind) = Ascending(R)
      BY <1>6, <1>7 DEF Frontier
<1> QED
    BY <1>7, <1>8, <1>9, AscendingFacts

-----------------------------------------------------------------------------
\* An order under way, as the search keeps it.
Item(dag) == [order : Seq(Nodes(dag)), ind : [Nodes(dag) -> Int]]

\* The counts go on with the order.
LEMMA TracksOn ==
    ASSUME NEW dag, IsGraph(dag), NEW o, Legal(dag, o),
           NEW ind, Tracks(dag, o, ind), NEW n \in Ready(dag, o),
           NEW q, q = Append(o, n),
           NEW on, on = [m \in DOMAIN ind |->
                           IF m = n THEN -1 ELSE ind[m] - Adjacent(dag, n, m)]
    PROVE  Tracks(dag, q, on)
<1>1. PICK N : N = Nodes(dag)
      OBVIOUS
<1>2. o \in Seq(N) /\ n \in N \ ToSet(o) /\ DOMAIN ind = N
      BY <1>1 DEF Legal, Ready, Tracks
<1>3. ToSet(q) = ToSet(o) \cup {n}
      BY <1>2, AppendedSet
<1>4. ASSUME NEW m \in N
      PROVE  /\ Adjacent(dag, n, m) \in Nat
             /\ Cardinality(Open(dag, o, m)) \in Nat
             /\ Cardinality(Open(dag, q, m))
                  = Cardinality(Open(dag, o, m)) - Adjacent(dag, n, m)
  <2>1. o \in Seq(Nodes(dag)) /\ n \in Nodes(dag) \ ToSet(o)
        BY <1>1, <1>2
  <2> QED
      BY <2>1, OpenShrinks
<1>5. ASSUME NEW m \in N
      PROVE  /\ on[m] \in Int
             /\ IF m \in ToSet(q) THEN on[m] < 0
                ELSE on[m] = Cardinality(Open(dag, q, m))
  <2>1. ind[m] \in Int
        BY <1>1 DEF Tracks
  <2>2. CASE m = n
        BY <1>2, <1>3, <2>2
  <2>3. CASE m # n /\ m \in ToSet(o)
    <3>1. ind[m] < 0
          BY <1>1, <2>3 DEF Tracks
    <3>2. on[m] = ind[m] - Adjacent(dag, n, m)
          BY <1>2, <2>3
    <3> QED
        BY <1>3, <1>4, <2>1, <2>3, <3>1, <3>2
  <2>4. CASE m # n /\ m \notin ToSet(o)
    <3>1. ind[m] = Cardinality(Open(dag, o, m))
          BY <1>1, <2>4 DEF Tracks
    <3>2. on[m] = ind[m] - Adjacent(dag, n, m)
          BY <1>2, <2>4
    <3>3. on[m] = Cardinality(Open(dag, q, m))
          BY <1>4, <3>1, <3>2
    <3> QED
        BY <1>3, <1>4, <2>1, <2>4, <3>2, <3>3
  <2> QED
      BY <2>2, <2>3, <2>4
<1>6. on \in [N -> Int]
  <2>1. on = [m \in N |-> on[m]]
        BY <1>2
  <2> QED
      BY <1>5, <2>1
<1> QED
    BY <1>1, <1>5, <1>6 DEF Tracks

\* c lists what is ready after top, and x continues it by each of these.
Branches(dag, top, c, x) ==
    /\ c \in Seq(Ready(dag, top.order)) /\ Distinct(c)
    /\ ToSet(c) = Ready(dag, top.order)
    /\ x \in Seq(Item(dag)) /\ Len(x) = Len(c)
    /\ \A i \in 1..Len(c) :
          /\ x[i].order = Append(top.order, c[i])
          /\ Legal(dag, x[i].order) /\ Tracks(dag, x[i].order, x[i].ind)

\* That is how an order is expanded.
LEMMA ExpandFacts ==
    ASSUME NEW dag, IsGraph(dag), NEW top, Legal(dag, top.order),
           Tracks(dag, top.order, top.ind)
    PROVE  \E c : Branches(dag, top, c, Expand(dag, top))
<1>1. PICK o, ind : o = top.order /\ ind = top.ind
      OBVIOUS
<1>2. PICK R : R = Ready(dag, o)
      OBVIOUS
<1>3. PICK f : f = Frontier(ind)
      OBVIOUS
<1>4. f \in Seq(R) /\ ToSet(f) = R /\ Distinct(f)
      BY <1>1, <1>2, <1>3, FrontierFacts
<1>5. PICK c : c = Reverse(f)
      OBVIOUS
<1>6. c \in Seq(R) /\ ToSet(c) = R /\ Distinct(c)
      BY <1>4, <1>5, ReverseFacts, ReverseDistinct
<1>7. PICK m \in Nat : m = Len(c) /\ DOMAIN c = 1..m
      BY <1>6
<1>8. PICK x : x = Expand(dag, top)
      OBVIOUS
<1>9. x = [i \in 1..m |->
             [order |-> Append(o, c[i]),
              ind |-> [n \in DOMAIN ind |-> IF n = c[i] THEN -1
                          ELSE ind[n] - Adjacent(dag, c[i], n)]]]
      BY <1>1, <1>3, <1>5, <1>7, <1>8 DEF Expand
<1>10. ASSUME NEW i \in 1..m
       PROVE  /\ x[i].order = Append(o, c[i])
              /\ Legal(dag, x[i].order) /\ Tracks(dag, x[i].order, x[i].ind)
              /\ x[i] \in Item(dag)
  <2>1. PICK q, on : q = Append(o, c[i]) /\ on = [n \in DOMAIN ind |->
                       IF n = c[i] THEN -1 ELSE ind[n] - Adjacent(dag, c[i], n)]
        OBVIOUS
  <2>2. x[i] = [order |-> q, ind |-> on]
        BY <1>9, <2>1
  <2>3. c[i] \in Ready(dag, o)
        BY <1>2, <1>6, <1>7
  <2>4. Legal(dag, q)
        BY <1>1, <2>1, <2>3, LegalGrows
  <2>5. Tracks(dag, q, on)
        BY <1>1, <2>1, <2>3, TracksOn
  <2>6. q \in Seq(Nodes(dag)) /\ on \in [Nodes(dag) -> Int]
        BY <2>4, <2>5 DEF Legal, Tracks
  <2> QED
      BY <2>1, <2>2, <2>4, <2>5, <2>6 DEF Item
<1>11. x \in Seq(Item(dag)) /\ Len(x) = m
  <2>1. PICK I : I = Item(dag)
        OBVIOUS
  <2>2. x = [i \in 1..m |-> x[i]]
        BY <1>9
  <2>3. x \in [1..m -> I]
        BY <1>10, <2>1, <2>2
  <2> QED
      BY <2>1, <2>3
<1>12. Branches(dag, top, c, x)
       BY <1>1, <1>2, <1>6, <1>7, <1>10, <1>11 DEF Branches
<1> QED
    BY <1>8, <1>12

\* The states of the search.
Search(dag) == [stack : Seq(Item(dag)), out : Seq(Seq(Nodes(dag)))]

\* Every order of the search is legal, and what it puts out is whole.
Sound(dag, search) ==
    /\ search \in Search(dag)
    /\ \A i \in DOMAIN search.stack :
          /\ Legal(dag, search.stack[i].order)
          /\ Tracks(dag, search.stack[i].order, search.stack[i].ind)
    /\ \A i \in DOMAIN search.out : Whole(dag, search.out[i])

\* No order of the search begins another one.
Disjoint(search) ==
    /\ Distinct(search.out)
    /\ \A i \in DOMAIN search.stack, j \in DOMAIN search.out :
          ~Begins(search.stack[i].order, search.out[j])
    /\ \A i, j \in DOMAIN search.stack : i # j =>
          ~Begins(search.stack[i].order, search.stack[j].order)

\* Every order there is has been put out or is under way.
Covers(dag, search) ==
    \A w : Whole(dag, w) =>
        \/ w \in ToSet(search.out)
        \/ \E i \in DOMAIN search.stack : Begins(search.stack[i].order, w)

\* The k iterations so far went into the orders put out and the one on top.
Fuel(dag, limit, search, k) ==
    /\ Len(search.out) <= limit
    /\ \/ search.stack = <<>> \/ Len(search.out) = limit
       \/ k <= Len(search.out) * (Cardinality(Nodes(dag)) + 1)
                 + Len(Last(search.stack).order)

\* What the search is about at the start.
LEMMA SearchStarts ==
    ASSUME NEW dag, IsGraph(dag), NEW limit \in Nat, NEW o, o = <<>>,
           NEW start, start = [order |-> o, ind |-> Indegrees(dag)],
           NEW search, search = [stack |-> <<start>>, out |-> <<>>]
    PROVE  /\ Sound(dag, search) /\ Disjoint(search) /\ Covers(dag, search)
           /\ Fuel(dag, limit, search, 0)
<1>1. Legal(dag, o) /\ Tracks(dag, o, Indegrees(dag)) /\ Len(o) = 0
      BY StartTracks
<1>2. start.order = o /\ start.ind = Indegrees(dag) /\ start \in Item(dag)
      BY <1>1 DEF Legal, Tracks, Item
<1>3. /\ search.stack = <<start>> /\ search.out = <<>>
      /\ DOMAIN search.stack = {1} /\ search.stack[1] = start
      /\ DOMAIN search.out = {} /\ ToSet(search.out) = {}
      BY DEF ToSet
<1>4. search \in Search(dag)
  <2>1. <<start>> \in Seq(Item(dag)) /\ <<>> \in Seq(Seq(Nodes(dag)))
        BY <1>2
  <2> QED
      BY <2>1 DEF Search
<1>5. Sound(dag, search)
      BY <1>1, <1>2, <1>3, <1>4 DEF Sound
<1>6. Disjoint(search)
      BY <1>3 DEF Disjoint, Distinct
<1>7. Covers(dag, search)
  <2> SUFFICES ASSUME NEW w, Whole(dag, w) PROVE Begins(search.stack[1].order, w)
      BY <1>3 DEF Covers
  <2>1. w \in Seq(Nodes(dag))
        BY DEF Whole, Legal
  <2>2. Len(w) \in Nat
        BY <2>1
  <2> QED
      BY <1>1, <1>2, <1>3, <2>2 DEF Begins
<1>8. Fuel(dag, limit, search, 0)
  <2>1. Cardinality(Nodes(dag)) \in Nat
        BY FS_CardinalityType DEF IsGraph
  <2>2. Last(search.stack) = start /\ Len(search.out) = 0
        BY <1>3 DEF Last
  <2>3. 0 <= 0 * (Cardinality(Nodes(dag)) + 1) + 0
        BY <2>1
  <2> QED
      BY <1>1, <1>2, <2>2, <2>3 DEF Fuel
<1> QED
    BY <1>5, <1>6, <1>7, <1>8

-----------------------------------------------------------------------------
\* r is what is below the top of s, the last of its m entries.
Below(r, s, m, I) ==
    /\ m \in Nat \ {0} /\ DOMAIN s = 1..m
    /\ Last(s) = s[m] /\ s[m] \in I
    /\ r \in Seq(I) /\ Len(r) = m - 1 /\ DOMAIN r = 1..m - 1
    /\ \A k \in 1..m - 1 : k \in 1..m /\ r[k] = s[k]

\* The top of a stack and what is below it.
LEMMA TopAndRest ==
    ASSUME NEW I, NEW s \in Seq(I), s # <<>>
    PROVE  Below(Front(s), s, Len(s), I)
<1>1. PICK m : m = Len(s)
      OBVIOUS
<1>2. m \in Nat \ {0} /\ DOMAIN s = 1..m /\ s \in [1..m -> I]
      BY <1>1
<1>3. Last(s) = s[m] /\ s[m] \in I
      BY <1>1, <1>2 DEF Last
<1>4. PICK r : r = Front(s)
      OBVIOUS
<1>5. r = SubSeq(s, 1, m - 1)
      BY <1>1, <1>4 DEF Front
<1>6. \A k \in 1..m - 1 : k \in 1..m /\ r[k] = s[k]
      BY <1>1, <1>2, <1>5
<1>7. r \in Seq(I) /\ Len(r) = m - 1 /\ DOMAIN r = 1..m - 1
      BY <1>1, <1>2, <1>5
<1> QED
    BY <1>1, <1>2, <1>3, <1>4, <1>6, <1>7 DEF Below

\* Products of numbers are numbers.
LEMMA Products ==
    ASSUME NEW x \in Nat, NEW y \in Nat
    PROVE  x * y \in Nat /\ (x + 1) * y \in Nat /\ (x + 1) * y = x * y + y
BY SMTT(60)

\* A whole order is put out.
LEMMA SearchPutsOut ==
    ASSUME NEW dag, IsGraph(dag), NEW limit \in Nat, NEW k \in Nat,
           NEW search, Sound(dag, search), Disjoint(search),
           Covers(dag, search), Fuel(dag, limit, search, k),
           search.stack # <<>>, Len(search.out) < limit,
           NEW top, top = Last(search.stack),
           Len(top.order) = Cardinality(Nodes(dag)),
           NEW next, next = [stack |-> Front(search.stack),
                             out |-> Append(search.out, top.order)]
    PROVE  /\ Sound(dag, next) /\ Disjoint(next) /\ Covers(dag, next)
           /\ Fuel(dag, limit, next, k + 1)
<1>1. PICK I, O : I = Item(dag) /\ O = Seq(Nodes(dag))
      OBVIOUS
<1>2. PICK s, r, m : s = search.stack /\ r = Front(s) /\ m = Len(s)
      OBVIOUS
<1>3. PICK p, q, l, o : /\ p = search.out /\ l = Len(p) /\ o = top.order
                        /\ q = Append(p, o)
      OBVIOUS
<1>4. s \in Seq(I) /\ p \in Seq(O)
      BY <1>1, <1>2, <1>3 DEF Sound, Search
<1>5. /\ m \in Nat \ {0} /\ DOMAIN s = 1..m /\ top = s[m]
      /\ r \in Seq(I) /\ Len(r) = m - 1 /\ DOMAIN r = 1..m - 1
      /\ \A i \in 1..m - 1 : i \in 1..m /\ r[i] = s[i]
  <2>1. Below(r, s, m, I)
        BY <1>2, <1>4, TopAndRest
  <2> QED
      BY <1>2, <2>1 DEF Below
<1>6. next.stack = r /\ next.out = q
      BY <1>2, <1>3
<1>7. Legal(dag, o) /\ o \in O /\ Whole(dag, o)
  <2>1. m \in DOMAIN search.stack /\ o = search.stack[m].order
        BY <1>2, <1>3, <1>5
  <2>2. Legal(dag, o)
        BY <2>1 DEF Sound
  <2> QED
      BY <1>1, <1>3, <2>2 DEF Legal, Whole
<1>8. /\ l \in Nat /\ q \in Seq(O) /\ Len(q) = l + 1 /\ q[l + 1] = o
      /\ \A i \in 1..l : q[i] = p[i]
      BY <1>3, <1>4, <1>7, Appended
<1>9. DOMAIN p = 1..l /\ DOMAIN q = 1..l + 1
      BY <1>3, <1>4, <1>8
<1>10. \A i \in 1..l + 1 : i \in 1..l \/ i = l + 1
       BY <1>8
<1>11. Sound(dag, next)
  <2>1. next \in Search(dag)
        BY <1>1, <1>2, <1>3, <1>5, <1>8 DEF Search
  <2>2. \A i \in 1..m - 1 : Legal(dag, r[i].order) /\ Tracks(dag, r[i].order, r[i].ind)
        BY <1>2, <1>5 DEF Sound
  <2>3. \A i \in 1..l + 1 : Whole(dag, q[i])
        BY <1>3, <1>7, <1>8, <1>9, <1>10 DEF Sound
  <2> QED
      BY <1>5, <1>6, <1>9, <2>1, <2>2, <2>3 DEF Sound
<1>12. \A i \in 1..m, j \in 1..l : ~Begins(s[i].order, p[j])
       BY <1>2, <1>3, <1>5, <1>9 DEF Disjoint
<1>13. \A i, j \in 1..m : i # j => ~Begins(s[i].order, s[j].order)
       BY <1>2, <1>5 DEF Disjoint
<1>14. Disjoint(next)
  <2>1. \A j \in 1..l : p[j] # o
    <3>1. Begins(o, o)
          BY <1>1, <1>7, BeginsItself
    <3> QED
        BY <1>3, <1>5, <1>12, <3>1
  <2>2. \A i, j \in 1..l : p[i] = p[j] => i = j
        BY <1>3, <1>9 DEF Disjoint, Distinct
  <2>3. \A i, j \in 1..l + 1 : q[i] = q[j] => i = j
        BY <1>8, <1>10, <2>1, <2>2
  <2>4. Distinct(q)
        BY <1>9, <2>3 DEF Distinct
  <2>5. \A i \in 1..m - 1, j \in 1..l + 1 : ~Begins(r[i].order, q[j])
    <3> SUFFICES ASSUME NEW i \in 1..m - 1, NEW j \in 1..l + 1
                 PROVE  ~Begins(r[i].order, q[j])
        OBVIOUS
    <3>1. i \in 1..m /\ m \in 1..m /\ i # m /\ r[i] = s[i]
          BY <1>5
    <3>2. ~Begins(s[i].order, o)
          BY <1>3, <1>5, <1>13, <3>1
    <3> QED
        BY <1>8, <1>10, <1>12, <3>1, <3>2
  <2>6. \A i, j \in 1..m - 1 : i # j => ~Begins(r[i].order, r[j].order)
        BY <1>5, <1>13
  <2> QED
      BY <1>5, <1>6, <1>9, <2>4, <2>5, <2>6 DEF Disjoint
<1>15. Covers(dag, next)
  <2> SUFFICES ASSUME NEW w, Whole(dag, w)
               PROVE  w \in ToSet(q) \/ \E i \in 1..m - 1 : Begins(r[i].order, w)
      BY <1>5, <1>6 DEF Covers
  <2>1. ToSet(q) = ToSet(p) \cup {o}
        BY <1>3, <1>4, <1>7, AppendedSet
  <2>2. w \in ToSet(p) \/ \E i \in 1..m : Begins(s[i].order, w)
        BY <1>2, <1>3, <1>5 DEF Covers
  <2>3. CASE w \in ToSet(p)
        BY <2>1, <2>3
  <2>4. CASE Begins(s[m].order, w)
    <3>1. w = o
      <4>1. Len(w) = Len(o) /\ w \in O
            BY <1>1, <1>3 DEF Whole, Legal
      <4>2. \A i \in 1..Len(o) : o[i] = w[i]
            BY <1>3, <1>5, <2>4 DEF Begins
      <4> QED
          BY <1>1, <1>7, <4>1, <4>2
    <3> QED
        BY <2>1, <3>1
  <2>5. CASE \E i \in 1..m : i # m /\ Begins(s[i].order, w)
    <3>1. PICK i \in 1..m : i # m /\ Begins(s[i].order, w)
          BY <2>5
    <3>2. i \in 1..m - 1
          BY <1>5, <3>1
    <3> QED
        BY <1>5, <3>1, <3>2
  <2> QED
      BY <2>2, <2>3, <2>4, <2>5
<1>16. Fuel(dag, limit, next, k + 1)
  <2>1. PICK c : c = Cardinality(Nodes(dag))
        OBVIOUS
  <2>2. c \in Nat
        BY <2>1, FS_CardinalityType DEF IsGraph
  <2>3. k <= l * (c + 1) + c
        BY <1>2, <1>3, <2>1 DEF Fuel
  <2>a. PICK e \in Nat : e = c + 1
        BY <2>2
  <2>b. l * e \in Nat /\ (l + 1) * e \in Nat /\ (l + 1) * e = l * e + e
        BY <1>8, Products
  <2>4. k + 1 <= (l + 1) * (c + 1)
    <3>1. PICK d \in Nat : d = l * e
          BY <2>b
    <3>2. k <= d + c
          BY <2>3, <2>a, <3>1
    <3>3. (l + 1) * e = d + e
          BY <2>b, <3>1
    <3>4. k + 1 <= d + e
          BY <2>2, <2>a, <3>1, <3>2
    <3> QED
        BY <2>a, <3>3, <3>4
  <2>5. l + 1 <= limit
        BY <1>3, <1>8
  <2>6. ASSUME r # <<>>
        PROVE  k + 1 <= (l + 1) * (c + 1) + Len(Last(r).order)
    <3>1. Below(Front(r), r, Len(r), I)
          BY <1>5, <2>6, TopAndRest
    <3>a. Last(r) \in I
          BY <3>1 DEF Below
    <3>2. Len(Last(r).order) \in Nat
          BY <1>1, <3>a DEF Item
    <3>3. (l + 1) * (c + 1) \in Nat
          BY <2>a, <2>b
    <3> QED
        BY <2>4, <3>2, <3>3
  <2> QED
      BY <1>6, <1>8, <2>1, <2>5, <2>6 DEF Fuel
<1> QED
    BY <1>11, <1>14, <1>15, <1>16

\* An order that is not whole gives way to those that continue it; there is
\* always one, since the graph has an order at all.
LEMMA SearchGoesOn ==
    ASSUME NEW dag, IsGraph(dag), NEW limit \in Nat, NEW k \in Nat,
           NEW search, Sound(dag, search), Disjoint(search),
           Covers(dag, search), Fuel(dag, limit, search, k),
           search.stack # <<>>, Len(search.out) < limit,
           NEW top, top = Last(search.stack),
           Len(top.order) # Cardinality(Nodes(dag)),
           NEW any, Whole(dag, any),
           NEW next, next = [stack |-> Front(search.stack) \o Expand(dag, top),
                             out |-> search.out]
    PROVE  /\ Sound(dag, next) /\ Disjoint(next) /\ Covers(dag, next)
           /\ Fuel(dag, limit, next, k + 1)
<1>1. PICK I, N : I = Item(dag) /\ N = Nodes(dag)
      OBVIOUS
<1>2. PICK s, r, m : s = search.stack /\ r = Front(s) /\ m = Len(s)
      OBVIOUS
<1>3. PICK p, o : p = search.out /\ o = top.order
      OBVIOUS
<1>4. s \in Seq(I) /\ p \in Seq(Seq(N))
      BY <1>1, <1>2, <1>3 DEF Sound, Search
<1>5. /\ m \in Nat \ {0} /\ DOMAIN s = 1..m /\ top = s[m]
      /\ r \in Seq(I) /\ Len(r) = m - 1 /\ DOMAIN r = 1..m - 1
      /\ \A i \in 1..m - 1 : i \in 1..m /\ r[i] = s[i]
  <2>1. Below(r, s, m, I)
        BY <1>2, <1>4, TopAndRest
  <2> QED
      BY <1>2, <2>1 DEF Below
<1>6. PICK x : x = Expand(dag, top)
      OBVIOUS
<1>7. Legal(dag, o) /\ Tracks(dag, o, top.ind) /\ o \in Seq(N)
  <2>1. m \in DOMAIN search.stack /\ top = search.stack[m]
        BY <1>2, <1>5
  <2>2. Legal(dag, o) /\ Tracks(dag, o, top.ind)
        BY <1>3, <2>1 DEF Sound
  <2> QED
      BY <1>1, <2>2 DEF Legal
<1>8. PICK c : Branches(dag, top, c, x)
      BY <1>3, <1>6, <1>7, ExpandFacts
<1>9. PICK n \in Nat : n = Len(c) /\ DOMAIN c = 1..n
      BY <1>8 DEF Branches
<1>10. /\ Distinct(c) /\ ToSet(c) = Ready(dag, o) /\ x \in Seq(I) /\ Len(x) = n
       /\ \A i \in 1..n : /\ x[i].order = Append(o, c[i])
                          /\ Legal(dag, x[i].order)
                          /\ Tracks(dag, x[i].order, x[i].ind)
       BY <1>1, <1>3, <1>8, <1>9 DEF Branches
<1>11. PICK t : t = r \o x
       OBVIOUS
<1>12. PICK h : h = m - 1
       OBVIOUS
<1>13. /\ h \in Nat /\ Len(r) = h /\ DOMAIN r = 1..h /\ m = h + 1
       /\ \A i \in 1..h : i \in 1..m /\ i # m /\ r[i] = s[i]
       BY <1>5, <1>12
<1>14. /\ t \in Seq(I) /\ Len(t) = h + n
       /\ \A i \in 1..h : t[i] = r[i]
       /\ \A i \in 1..n : t[h + i] = x[i]
  <2>1. IsJoin(t, r, x)
        BY <1>11 DEF IsJoin
  <2>2. /\ t \in Seq(I) /\ Len(t) = Len(r) + Len(x)
        /\ \A i \in 1..Len(r) : t[i] = r[i]
        /\ \A i \in 1..Len(x) : t[Len(r) + i] = x[i]
    <3>1. r \in Seq(I) /\ x \in Seq(I)
          BY <1>5, <1>10
    <3> QED
        BY <2>1, <3>1, JoinFacts
  <2> QED
      BY <1>10, <1>13, <2>2
<1>15. DOMAIN t = 1..h + n
       BY <1>9, <1>13, <1>14
<1>16. \A i \in 1..h + n : \/ i \in 1..h /\ t[i] = s[i] /\ i \in 1..m /\ i # m
                           \/ i - h \in 1..n /\ t[i] = x[i - h]
  <2> SUFFICES ASSUME NEW i \in 1..h + n
               PROVE  \/ i \in 1..h /\ t[i] = s[i] /\ i \in 1..m /\ i # m
                      \/ i - h \in 1..n /\ t[i] = x[i - h]
      OBVIOUS
  <2>1. CASE i \in 1..h
        BY <1>13, <1>14, <2>1
  <2>2. CASE i \notin 1..h
    <3>1. i - h \in 1..n /\ h + (i - h) = i
          BY <1>9, <1>13, <2>2
    <3> QED
        BY <1>14, <3>1
  <2> QED
      BY <2>1, <2>2
<1>17. next.stack = t /\ next.out = p
       BY <1>2, <1>3, <1>6, <1>11
<1>18. \A i \in 1..n : c[i] \in N /\ c[i] \in Ready(dag, o)
  <2>1. \A i \in 1..n : c[i] \in ToSet(c)
        BY <1>9 DEF ToSet
  <2> QED
      BY <1>1, <1>10, <2>1 DEF Ready
<1>19. \A i \in 1..m : s[i].order \in Seq(N)
  <2>1. \A i \in 1..m : s[i] \in I
        BY <1>4, <1>5
  <2>2. \A y \in I : y.order \in Seq(N)
        BY <1>1 DEF Item
  <2> QED
      BY <2>1, <2>2
<1>20. PICK l \in Nat : l = Len(p) /\ DOMAIN p = 1..l
       BY <1>4
<1>21. \A j \in 1..l : p[j] \in Seq(N)
       BY <1>4, <1>20
<1>22. \A i \in 1..m, j \in 1..l : ~Begins(s[i].order, p[j])
       BY <1>2, <1>3, <1>5, <1>20 DEF Disjoint
<1>23. \A i, j \in 1..m : i # j => ~Begins(s[i].order, s[j].order)
       BY <1>2, <1>5 DEF Disjoint
<1>24. m \in 1..m /\ s[m].order = o
       BY <1>3, <1>5
<1>25. Sound(dag, next)
  <2>1. next \in Search(dag)
        BY <1>1, <1>2, <1>3, <1>4, <1>6, <1>11, <1>14 DEF Search
  <2>2. \A i \in 1..m : Legal(dag, s[i].order) /\ Tracks(dag, s[i].order, s[i].ind)
        BY <1>2, <1>5 DEF Sound
  <2>3. \A i \in 1..h + n : Legal(dag, t[i].order) /\ Tracks(dag, t[i].order, t[i].ind)
        BY <1>10, <1>16, <2>2
  <2>4. \A j \in DOMAIN p : Whole(dag, p[j])
        BY <1>3 DEF Sound
  <2> QED
      BY <1>15, <1>17, <2>1, <2>3, <2>4 DEF Sound
<1>26. Disjoint(next)
  <2>1. Distinct(p)
        BY <1>3 DEF Disjoint
  <2>2. ASSUME NEW i \in 1..h + n, NEW j \in 1..l PROVE ~Begins(t[i].order, p[j])
    <3>1. CASE t[i] = s[i] /\ i \in 1..m
          BY <1>22, <3>1
    <3>2. CASE i - h \in 1..n /\ t[i] = x[i - h]
      <4>1. t[i].order = Append(o, c[i - h]) /\ c[i - h] \in N
            BY <1>10, <1>18, <3>2
      <4>2. Begins(t[i].order, p[j]) => Begins(o, p[j])
            BY <1>7, <1>21, <4>1, BeginsSooner
      <4> QED
          BY <1>22, <1>24, <4>2
    <3> QED
        BY <1>16, <3>1, <3>2
  <2>3. ASSUME NEW i \in 1..h + n, NEW j \in 1..h + n, i # j
        PROVE  ~Begins(t[i].order, t[j].order)
    <3>1. CASE t[i] = s[i] /\ i \in 1..m /\ t[j] = s[j] /\ j \in 1..m
          BY <1>23, <2>3, <3>1
    <3>2. CASE /\ t[i] = s[i] /\ i \in 1..m /\ i # m
               /\ j - h \in 1..n /\ t[j] = x[j - h]
      <4>1. t[j].order = Append(o, c[j - h]) /\ c[j - h] \in N
            BY <1>10, <1>18, <3>2
      <4>2. Begins(t[i].order, t[j].order) =>
                Begins(s[i].order, o) \/ Begins(o, s[i].order)
        <5>1. PICK u, v, d : u = s[i].order /\ v = t[j].order /\ d = c[j - h]
              OBVIOUS
        <5>2. u \in Seq(N) /\ d \in N /\ v = Append(o, d)
              BY <1>19, <3>2, <4>1, <5>1
        <5>3. Begins(u, v) => Begins(u, o) \/ Begins(o, u)
              BY <1>7, <5>2, BeginsEither
        <5> QED
            BY <3>2, <5>1, <5>3
      <4> QED
          BY <1>23, <1>24, <3>2, <4>2
    <3>3. CASE /\ i - h \in 1..n /\ t[i] = x[i - h]
               /\ t[j] = s[j] /\ j \in 1..m /\ j # m
      <4>1. t[i].order = Append(o, c[i - h]) /\ c[i - h] \in N
            BY <1>10, <1>18, <3>3
      <4>2. Begins(t[i].order, t[j].order) => Begins(o, s[j].order)
            BY <1>7, <1>19, <3>3, <4>1, BeginsSooner
      <4> QED
          BY <1>23, <1>24, <3>3, <4>2
    <3>4. CASE /\ i - h \in 1..n /\ t[i] = x[i - h]
               /\ j - h \in 1..n /\ t[j] = x[j - h]
      <4>1. /\ t[i].order = Append(o, c[i - h]) /\ c[i - h] \in N
            /\ t[j].order = Append(o, c[j - h]) /\ c[j - h] \in N
            BY <1>10, <1>18, <3>4
      <4>2. i - h # j - h
            BY <1>13, <2>3
      <4>3. c[i - h] # c[j - h]
            BY <1>9, <1>10, <3>4, <4>2 DEF Distinct
      <4> QED
          BY <1>7, <4>1, <4>3, BranchesApart
    <3> QED
        BY <1>16, <3>1, <3>2, <3>3, <3>4
  <2>4. PICK u : u = next
        OBVIOUS
  <2>5. u.stack = t /\ u.out = p
        BY <1>17, <2>4
  <2>6. DOMAIN u.stack = 1..h + n /\ DOMAIN u.out = 1..l
        BY <1>15, <1>20, <2>5
  <2>7. Disjoint(u)
        BY <2>1, <2>2, <2>3, <2>5, <2>6 DEF Disjoint
  <2> QED
      BY <2>4, <2>7
<1>27. Covers(dag, next)
  <2> SUFFICES ASSUME NEW w, Whole(dag, w)
               PROVE  w \in ToSet(p) \/ \E i \in 1..h + n : Begins(t[i].order, w)
      BY <1>15, <1>17 DEF Covers
  <2>1. w \in ToSet(p) \/ \E i \in 1..m : Begins(s[i].order, w)
        BY <1>2, <1>3, <1>5 DEF Covers
  <2>2. CASE w \in ToSet(p)
        BY <2>2
  <2>3. CASE Begins(o, w)
    <3>1. Legal(dag, w) /\ w \in Seq(N) /\ Len(w) = Cardinality(N)
          BY <1>1 DEF Whole, Legal
    <3>2. Len(o) < Len(w)
      <4>1. Len(o) \in Nat /\ Cardinality(N) \in Nat /\ Len(o) <= Cardinality(N)
            BY <1>1, <1>7, LegalLength
      <4> QED
          BY <1>1, <1>3, <3>1, <4>1
    <3>3. w[Len(o) + 1] \in Ready(dag, o)
          BY <1>7, <2>3, <3>1, <3>2, NextIsReady
    <3>4. PICK i \in 1..n : c[i] = w[Len(o) + 1]
          BY <1>9, <1>10, <3>3 DEF ToSet
    <3>5. x[i].order = Append(o, w[Len(o) + 1])
          BY <1>10, <3>4
    <3>6. Begins(x[i].order, w)
          BY <1>7, <2>3, <3>1, <3>2, <3>5, BeginsLater
    <3>7. h + i \in 1..h + n /\ t[h + i] = x[i]
          BY <1>9, <1>13, <1>14
    <3> QED
        BY <3>6, <3>7
  <2>4. CASE \E i \in 1..m : i # m /\ Begins(s[i].order, w)
    <3>1. PICK i \in 1..m : i # m /\ Begins(s[i].order, w)
          BY <2>4
    <3>2. i \in 1..h /\ i \in 1..h + n
          BY <1>9, <1>13, <3>1
    <3>3. t[i] = s[i]
          BY <1>13, <1>14, <3>2
    <3> QED
        BY <3>1, <3>2, <3>3
  <2> QED
      BY <1>24, <2>1, <2>2, <2>3, <2>4
<1>28. Fuel(dag, limit, next, k + 1)
  <2>1. Ready(dag, o) # {}
        BY <1>3, <1>7, SomeReady
  <2>2. n # 0
    <3>1. ToSet(c) # {}
          BY <1>10, <2>1
    <3> QED
        BY <1>9, <3>1 DEF ToSet
  <2>3. n \in 1..n /\ h + n \in 1..h + n
        BY <1>9, <1>13, <2>2
  <2>4. t[h + n] = x[n]
        BY <1>14, <2>3
  <2>5. Last(t) = x[n]
        BY <1>14, <2>4 DEF Last
  <2>6. PICK q : q = Append(o, c[n])
        OBVIOUS
  <2>7. Len(q) = Len(o) + 1 /\ Len(o) \in Nat
        BY <1>7, <1>18, <2>3, <2>6, Appended
  <2>8. Last(t).order = q
        BY <1>10, <2>3, <2>5, <2>6
  <2>9. k <= Len(p) * (Cardinality(Nodes(dag)) + 1) + Len(o)
        BY <1>2, <1>3 DEF Fuel
  <2>10. k + 1 <= Len(p) * (Cardinality(Nodes(dag)) + 1) + Len(q)
    <3>1. Cardinality(Nodes(dag)) \in Nat
          BY FS_CardinalityType DEF IsGraph
    <3>2. PICK d : d = Len(p) * (Cardinality(Nodes(dag)) + 1)
          OBVIOUS
    <3>3. d \in Nat
      <4>1. PICK e \in Nat : e = Cardinality(Nodes(dag)) + 1
            BY <3>1
      <4> QED
          BY <1>20, <3>2, <4>1, Products
    <3> QED
        BY <2>7, <2>9, <3>2, <3>3
  <2>11. Len(p) <= limit
         BY <1>3, <1>20
  <2> QED
      BY <1>17, <2>8, <2>10, <2>11 DEF Fuel
<1> QED
    BY <1>25, <1>26, <1>27, <1>28

\* All of that, after k iterations.
Searched(dag, limit, search, k) ==
    /\ Sound(dag, search) /\ Disjoint(search) /\ Covers(dag, search)
    /\ Fuel(dag, limit, search, k)

\* An iteration keeps it; at the end of the search it changes nothing.
LEMMA SearchStep ==
    ASSUME NEW dag, IsGraph(dag), NEW limit \in Nat, NEW k \in Nat,
           NEW any, Whole(dag, any),
           NEW search, Searched(dag, limit, search, k)
    PROVE  Searched(dag, limit, topo_step(dag, limit, search), k + 1)
<1>1. /\ Sound(dag, search) /\ Disjoint(search) /\ Covers(dag, search)
      /\ Fuel(dag, limit, search, k)
      BY DEF Searched
<1>2. Len(search.out) \in Nat /\ Len(search.out) <= limit
      BY <1>1 DEF Sound, Search, Fuel
<1>3. CASE search.stack = <<>> \/ Len(search.out) >= limit
  <2>1. topo_step(dag, limit, search) = search
        BY <1>3 DEF topo_step
  <2>2. search.stack = <<>> \/ Len(search.out) = limit
        BY <1>2, <1>3
  <2>3. Fuel(dag, limit, search, k + 1)
        BY <1>2, <2>2 DEF Fuel
  <2> QED
      BY <1>1, <2>1, <2>3 DEF Searched
<1>4. CASE search.stack # <<>> /\ Len(search.out) < limit
  <2>1. PICK top : top = Last(search.stack)
        OBVIOUS
  <2>2. CASE Len(top.order) = Cardinality(Nodes(dag))
    <3>1. PICK next : next = [stack |-> Front(search.stack),
                              out |-> Append(search.out, top.order)]
          OBVIOUS
    <3>2. topo_step(dag, limit, search) = next
          BY <1>2, <1>4, <2>1, <2>2, <3>1 DEF topo_step, Nodes
    <3>3. /\ Sound(dag, next) /\ Disjoint(next) /\ Covers(dag, next)
          /\ Fuel(dag, limit, next, k + 1)
          BY <1>1, <1>4, <2>1, <2>2, <3>1, SearchPutsOut
    <3> QED
        BY <3>2, <3>3 DEF Searched
  <2>3. CASE Len(top.order) # Cardinality(Nodes(dag))
    <3>1. PICK next : next = [stack |-> Front(search.stack) \o Expand(dag, top),
                              out |-> search.out]
          OBVIOUS
    <3>2. topo_step(dag, limit, search) = next
          BY <1>2, <1>4, <2>1, <2>3, <3>1 DEF topo_step, Nodes
    <3>3. /\ Sound(dag, next) /\ Disjoint(next) /\ Covers(dag, next)
          /\ Fuel(dag, limit, next, k + 1)
          BY <1>1, <1>4, <2>1, <2>3, <3>1, SearchGoesOn
    <3> QED
        BY <3>2, <3>3 DEF Searched
  <2> QED
      BY <2>2, <2>3
<1> QED
    BY <1>2, <1>3, <1>4

\* What holds after some iterations holds after fewer.
LEMMA FuelLasts ==
    ASSUME NEW dag, IsGraph(dag), NEW limit \in Nat, NEW k \in Nat,
           NEW search, Searched(dag, limit, search, k)
    PROVE  Searched(dag, limit, search, 0) /\ search \in Search(dag)
<1>1. /\ Sound(dag, search) /\ Disjoint(search) /\ Covers(dag, search)
      /\ Fuel(dag, limit, search, k)
      BY DEF Searched
<1>2. search \in Search(dag)
      BY <1>1 DEF Sound
<1>3. PICK d : d = Len(search.out) * (Cardinality(Nodes(dag)) + 1)
      OBVIOUS
<1>4. d \in Nat
  <2>1. Cardinality(Nodes(dag)) \in Nat
        BY FS_CardinalityType DEF IsGraph
  <2>2. Len(search.out) \in Nat
        BY <1>2 DEF Search
  <2>3. PICK e \in Nat : e = Cardinality(Nodes(dag)) + 1
        BY <2>1
  <2> QED
      BY <1>3, <2>2, <2>3, Products
<1>5. ASSUME search.stack # <<>> PROVE 0 <= d + Len(Last(search.stack).order)
  <2>1. search.stack \in Seq(Item(dag))
        BY <1>2 DEF Search
  <2>2. Below(Front(search.stack), search.stack, Len(search.stack), Item(dag))
        BY <1>5, <2>1, TopAndRest
  <2>3. Last(search.stack) \in Item(dag)
        BY <2>2 DEF Below
  <2>4. PICK o : o = Last(search.stack).order
        OBVIOUS
  <2>5. o \in Seq(Nodes(dag))
        BY <2>3, <2>4 DEF Item
  <2>6. Len(o) \in Nat
        BY <2>5
  <2> QED
      BY <1>4, <2>4, <2>6
<1>6. Fuel(dag, limit, search, 0)
      BY <1>1, <1>3, <1>5 DEF Fuel
<1> QED
    BY <1>1, <1>2, <1>6 DEF Searched

\* The search comes to an end with a state of which all that holds.
LEMMA SearchResult ==
    ASSUME NEW dag, IsGraph(dag), NEW limit \in Nat, NEW any, Whole(dag, any),
           NEW K, K = limit * (Cardinality(Nodes(dag)) + 1)
    PROVE  \E search : /\ Searched(dag, limit, search, K)
                       /\ topo_out(dag, limit) = search.out
<1>1. K \in Nat
  <2>1. Cardinality(Nodes(dag)) \in Nat
        BY FS_CardinalityType DEF IsGraph
  <2> QED
      BY <2>1
<1>2. PICK o : o = <<>>
      OBVIOUS
<1>3. PICK start : start = [order |-> o, ind |-> Indegrees(dag)]
      OBVIOUS
<1>4. PICK begin : begin = [stack |-> <<start>>, out |-> <<>>]
      OBVIOUS
<1>5. Searched(dag, limit, begin, 0)
      BY <1>2, <1>3, <1>4, SearchStarts DEF Searched
<1> DEFINE IsIterated(F) == F = [k \in 0..K |->
                IF k = 0 THEN begin ELSE topo_step(dag, limit, F[k - 1])]
           V == {search \in Search(dag) : Searched(dag, limit, search, 0)}
<1>6. topo_out(dag, limit) = (CHOOSE F : IsIterated(F))[K].out
      BY <1>2, <1>3, <1>4 DEF topo_out, Nodes
<1>7. begin \in V /\ \A search \in V : topo_step(dag, limit, search) \in V
  <2>1. begin \in V
        BY <1>5, FuelLasts
  <2>2. ASSUME NEW search \in V PROVE topo_step(dag, limit, search) \in V
    <3>1. PICK next : next = topo_step(dag, limit, search)
          OBVIOUS
    <3>2. Searched(dag, limit, next, 0 + 1)
          BY <3>1, SearchStep
    <3>3. next \in V
          BY <3>2, FuelLasts
    <3> QED
        BY <3>1, <3>3
  <2> QED
      BY <2>1, <2>2
<1> DEFINE G == [e \in (1..K) \X V |-> topo_step(dag, limit, e[2])]
<1>8. G \in [(1..K) \X V -> V]
  <2> HIDE DEF V
  <2>1. \A e \in (1..K) \X V : e[2] \in V
        OBVIOUS
  <2> QED
      BY <1>7, <2>1
<1>9. \A k \in 1..K, v \in V : G[<<k, v>>] = topo_step(dag, limit, v)
  <2> HIDE DEF V
  <2> QED
      OBVIOUS
<1> HIDE DEF G, V
<1>10. PICK f \in [0..K -> V] : Recurs(f, K, begin, G)
       BY <1>1, <1>7, <1>8, RecursionExists
<1>11. IsIterated(f)
  <2>1. \A k \in 1..K : f[k - 1] \in V
        BY <1>1, <1>10
  <2>2. f[0] = begin /\ \A k \in 1..K : f[k] = topo_step(dag, limit, f[k - 1])
        BY <1>9, <1>10, <2>1 DEF Recurs
  <2>3. \A k \in 0..K : k # 0 => k \in 1..K
        BY <1>1
  <2>4. \A k \in 0..K : f[k] = IF k = 0 THEN begin
                               ELSE topo_step(dag, limit, f[k - 1])
        BY <2>2, <2>3
  <2>5. f = [k \in 0..K |-> f[k]]
        BY <1>10
  <2> QED
      BY <2>4, <2>5, Zenon
<1>12. PICK F : IsIterated(F) /\ topo_out(dag, limit) = F[K].out
       BY <1>6, <1>11, Zenon
<1>13. \A k \in 0..K : F[k] = IF k = 0 THEN begin
                              ELSE topo_step(dag, limit, F[k - 1])
       BY <1>12, Zenon
<1> HIDE DEF IsIterated
<1>14. F[0] = begin /\ \A k \in 1..K : F[k] = topo_step(dag, limit, F[k - 1])
  <2>1. 0 \in 0..K /\ \A k \in 1..K : k \in 0..K /\ k # 0
        BY <1>1
  <2> QED
      BY <1>13, <2>1
<1> DEFINE H == {k \in 0..K : Searched(dag, limit, F[k], k)}
<1>15. 0 \in H
       BY <1>1, <1>5, <1>14
<1>16. ASSUME NEW k \in 1..K, k - 1 \in H PROVE k \in H
  <2>1. k - 1 \in Nat /\ Searched(dag, limit, F[k - 1], k - 1)
        BY <1>1, <1>16
  <2>2. Searched(dag, limit, topo_step(dag, limit, F[k - 1]), (k - 1) + 1)
        BY <2>1, SearchStep
  <2>3. (k - 1) + 1 = k /\ k \in 0..K
        BY <1>1
  <2> QED
      BY <1>14, <2>2, <2>3
<1>17. K \in H
  <2> HIDE DEF H
  <2>1. \A k \in 0..K : k \in H
        BY <1>1, <1>15, <1>16, UpTo
  <2> QED
      BY <1>1, <2>1
<1> QED
    BY <1>12, <1>17

-----------------------------------------------------------------------------
\* Kahn's test for a cycle.

\* The causes of what has come have come.
LEMMA ComeIsClosed ==
    ASSUME NEW dag, IsGraph(dag), NEW o, Legal(dag, o), NEW n \in ToSet(o)
    PROVE  Open(dag, o, n) = {}
<1> SUFFICES ASSUME NEW e \in dag.edges, e[1] \in Nodes(dag) \ ToSet(o), e[2] = n
             PROVE  FALSE
    BY DEF Open
<1>1. PICK l \in Nat : l = Len(o) /\ DOMAIN o = 1..l
  <2>1. o \in Seq(Nodes(dag))
        BY DEF Legal
  <2> QED
      BY <2>1
<1>2. PICK i \in 1..l : o[i] = n
      BY <1>1 DEF ToSet
<1>3. PICK j \in 1..i - 1 : o[j] = e[1]
      BY <1>1, <1>2 DEF Legal
<1>4. j \in 1..l
      BY <1>1, <1>2, <1>3
<1> QED
    BY <1>1, <1>3, <1>4 DEF ToSet

\* The nodes that a node frees when it comes.
Freed(dag, o, q) ==
    {n \in Nodes(dag) : Open(dag, q, n) = {} /\ Open(dag, o, n) # {}}

\* When one of the ready comes, the others and the freed are ready.
LEMMA ReadyOn ==
    ASSUME NEW dag, IsGraph(dag), NEW o, Legal(dag, o), NEW n \in Ready(dag, o),
           NEW q, q = Append(o, n)
    PROVE  /\ Ready(dag, q) = (Ready(dag, o) \ {n}) \cup Freed(dag, o, q)
           /\ \A m \in Freed(dag, o, q) : m \notin Ready(dag, o)
<1>1. PICK N : N = Nodes(dag)
      OBVIOUS
<1>2. o \in Seq(N) /\ n \in N
      BY <1>1 DEF Legal, Ready
<1>3. ToSet(q) = ToSet(o) \cup {n}
      BY <1>2, AppendedSet
<1>4. \A m \in N : Open(dag, q, m) \subseteq Open(dag, o, m)
      BY <1>3 DEF Open
<1>5. Open(dag, o, n) = {}
      BY DEF Ready
<1>6. \A m \in ToSet(o) : Open(dag, o, m) = {}
      BY ComeIsClosed
<1>7. \A m \in Freed(dag, o, q) :
          /\ m \in N /\ m \notin ToSet(q) /\ Open(dag, q, m) = {}
          /\ m \notin Ready(dag, o)
      BY <1>1, <1>3, <1>5, <1>6 DEF Freed, Ready
<1>8. \A m \in Ready(dag, q) : m # n /\ (m \in Ready(dag, o) \/ m \in Freed(dag, o, q))
      BY <1>3 DEF Freed, Ready
<1>9. \A m \in Ready(dag, o) \ {n} : m \in Ready(dag, q)
      BY <1>1, <1>3, <1>4 DEF Ready
<1>10. \A m \in Freed(dag, o, q) : m \in Ready(dag, q)
       BY <1>1, <1>7 DEF Ready
<1> QED
    BY <1>7, <1>8, <1>9, <1>10

\* The states of the test.
Check(dag) == [queue : Seq(Nodes(dag)), ind : [Nodes(dag) -> Int], seen : Nat]

\* o is the order in which the test has seen nodes; the queue is what is ready.
Sees(dag, check, o) ==
    /\ Legal(dag, o) /\ Len(o) = check.seen
    /\ \A n \in Nodes(dag) : check.ind[n] = Cardinality(Open(dag, o, n))
    /\ Distinct(check.queue) /\ ToSet(check.queue) = Ready(dag, o)

Checked(dag, check) == check \in Check(dag) /\ \E o : Sees(dag, check, o)

\* One node in each iteration, until none is ready.
Spun(check, k) ==
    check.seen <= k /\ (check.queue = <<>> \/ check.seen = k)

\* What is left of a list when its head is taken away.
LEMMA TailFacts ==
    ASSUME NEW T, NEW s \in Seq(T), s # <<>>, Distinct(s), NEW t, t = Tail(s)
    PROVE  /\ Head(s) \in ToSet(s) /\ t \in Seq(T) /\ Distinct(t)
           /\ \A x : x \in ToSet(t) <=> x \in ToSet(s) /\ x # Head(s)
<1>1. PICK m \in Nat : m = Len(s) /\ DOMAIN s = 1..m /\ m # 0
      OBVIOUS
<1>2. 1 \in 1..m /\ Head(s) = s[1]
      BY <1>1
<1>3. /\ t \in Seq(T) /\ DOMAIN t = 1..m - 1
      /\ \A k \in 1..m - 1 : k + 1 \in 1..m /\ t[k] = s[k + 1]
      BY <1>1
<1>4. \A k, l \in 1..m : s[k] = s[l] => k = l
      BY <1>1 DEF Distinct
<1>5. Distinct(t)
  <2>1. ASSUME NEW k \in 1..m - 1, NEW l \in 1..m - 1, t[k] = t[l] PROVE k = l
    <3>1. k + 1 = l + 1
          BY <1>3, <1>4, <2>1
    <3> QED
        BY <3>1
  <2> QED
      BY <1>3, <2>1 DEF Distinct
<1>6. ASSUME NEW x \in ToSet(t) PROVE x \in ToSet(s) /\ x # s[1]
  <2>1. PICK k \in 1..m - 1 : x = t[k]
        BY <1>3 DEF ToSet
  <2>2. k + 1 \in 1..m /\ x = s[k + 1] /\ k + 1 # 1
        BY <1>3, <2>1
  <2> QED
      BY <1>1, <1>2, <1>4, <2>2 DEF ToSet
<1>7. ASSUME NEW x \in ToSet(s), x # s[1] PROVE x \in ToSet(t)
  <2>1. PICK k \in 1..m : x = s[k]
        BY <1>1 DEF ToSet
  <2>2. k - 1 \in 1..m - 1 /\ (k - 1) + 1 = k
        BY <1>1, <1>7, <2>1
  <2>3. t[k - 1] = x
        BY <1>3, <2>1, <2>2
  <2> QED
      BY <1>3, <2>2, <2>3 DEF ToSet
<1>8. Head(s) \in ToSet(s)
      BY <1>1, <1>2 DEF ToSet
<1> QED
    BY <1>2, <1>3, <1>5, <1>6, <1>7, <1>8

\* An iteration of the test.
LEMMA KahnStep ==
    ASSUME NEW dag, IsGraph(dag), NEW check, Checked(dag, check)
    PROVE  /\ Checked(dag, kahn_step(dag, check))
           /\ \A k \in Nat : Spun(check, k) =>
                               Spun(kahn_step(dag, check), k + 1)
<1>1. PICK N : N = Nodes(dag)
      OBVIOUS
<1>2. PICK queue, ind, seen :
          queue = check.queue /\ ind = check.ind /\ seen = check.seen
      OBVIOUS
<1>3. queue \in Seq(N) /\ ind \in [N -> Int] /\ seen \in Nat
      BY <1>1, <1>2 DEF Checked, Check
<1>4. CASE queue = <<>>
  <2>1. kahn_step(dag, check) = check
        BY <1>2, <1>4 DEF kahn_step
  <2>2. \A k \in Nat : Spun(check, k) => Spun(check, k + 1)
        BY <1>2, <1>3, <1>4 DEF Spun
  <2> QED
      BY <2>1, <2>2
<1>5. CASE queue # <<>>
  <2>1. PICK o : Sees(dag, check, o)
        BY DEF Checked
  <2>2. /\ Legal(dag, o) /\ Len(o) = seen /\ o \in Seq(N)
        /\ \A n \in N : ind[n] = Cardinality(Open(dag, o, n))
        /\ Distinct(queue) /\ ToSet(queue) = Ready(dag, o)
        BY <1>1, <1>2, <2>1 DEF Sees, Legal
  <2>3. PICK cur, rest : cur = Head(queue) /\ rest = Tail(queue)
        OBVIOUS
  <2>4. /\ cur \in Ready(dag, o) /\ rest \in Seq(N) /\ Distinct(rest)
        /\ \A x : x \in ToSet(rest) <=> x \in Ready(dag, o) /\ x # cur
    <3>1. /\ Head(queue) \in ToSet(queue) /\ rest \in Seq(N) /\ Distinct(rest)
          /\ \A x : x \in ToSet(rest) <=> x \in ToSet(queue) /\ x # Head(queue)
      <4>1. Distinct(queue)
            BY <2>2
      <4> QED
          BY <1>3, <1>5, <2>3, <4>1, TailFacts
    <3> QED
        BY <2>2, <2>3, <3>1
  <2>5. cur \in N \ ToSet(o)
        BY <1>1, <2>4 DEF Ready
  <2>6. PICK q : q = Append(o, cur)
        OBVIOUS
  <2>7. Legal(dag, q) /\ Len(q) = seen + 1
    <3>1. Legal(dag, q)
          BY <2>2, <2>4, <2>6, LegalGrows
    <3>2. Len(q) = Len(o) + 1
          BY <2>2, <2>5, <2>6, Appended
    <3> QED
        BY <2>2, <3>1, <3>2
  <2>8. PICK after : after = [n \in DOMAIN ind |-> ind[n] - Adjacent(dag, cur, n)]
        OBVIOUS
  <2>9. ASSUME NEW n \in N
        PROVE  /\ after[n] = Cardinality(Open(dag, q, n)) /\ after[n] \in Int
               /\ after[n] = 0 <=> Open(dag, q, n) = {}
               /\ ind[n] > 0 <=> Open(dag, o, n) # {}
    <3>1. o \in Seq(Nodes(dag)) /\ cur \in Nodes(dag) \ ToSet(o)
          BY <1>1, <2>2, <2>5
    <3>2. /\ Adjacent(dag, cur, n) \in Nat
          /\ IsFiniteSet(Open(dag, o, n))
          /\ Cardinality(Open(dag, o, n)) \in Nat
          /\ Cardinality(Open(dag, q, n))
               = Cardinality(Open(dag, o, n)) - Adjacent(dag, cur, n)
          BY <2>6, <3>1, OpenShrinks
    <3>3. ind[n] = Cardinality(Open(dag, o, n))
          BY <2>2
    <3>4. after[n] = ind[n] - Adjacent(dag, cur, n)
          BY <1>3, <2>8
    <3>5. IsFiniteSet(Open(dag, q, n))
      <4>1. Open(dag, q, n) \in SUBSET dag.edges
            BY DEF Open
      <4> QED
          BY <4>1, FS_Subset DEF IsGraph
    <3>6. Cardinality(Open(dag, q, n)) = 0 <=> Open(dag, q, n) = {}
          BY <3>5, FS_EmptySet
    <3>7. Cardinality(Open(dag, o, n)) = 0 <=> Open(dag, o, n) = {}
          BY <3>2, FS_EmptySet
    <3> QED
        BY <3>2, <3>3, <3>4, <3>6, <3>7
  <2>10. PICK freed : freed = {n \in DOMAIN after : after[n] = 0 /\ ind[n] > 0}
         OBVIOUS
  <2>11. freed = Freed(dag, o, q)
    <3>1. DOMAIN after = N
          BY <1>3, <2>8
    <3> QED
        BY <1>1, <2>9, <2>10, <3>1 DEF Freed
  <2>12. /\ Ascending(freed) \in Seq(freed) /\ ToSet(Ascending(freed)) = freed
         /\ Distinct(Ascending(freed))
    <3>1. freed \in SUBSET N
          BY <1>1, <2>11 DEF Freed
    <3>2. freed \in SUBSET (Nat \ {0}) /\ IsFiniteSet(freed)
          BY <1>1, <3>1, FS_Subset DEF IsGraph
    <3> QED
        BY <3>2, AscendingFacts
  <2>13. PICK asc : asc = Ascending(freed)
         OBVIOUS
  <2>14. asc \in Seq(N) /\ ToSet(asc) = freed /\ Distinct(asc)
    <3>1. \A x \in freed : x \in N
          BY <1>1, <2>11 DEF Freed
    <3> QED
        BY <2>12, <2>13, <3>1
  <2>15. PICK on : on = rest \o asc
         OBVIOUS
  <2>16. IsJoin(on, rest, asc)
         BY <2>15 DEF IsJoin
  <2>17. on \in Seq(N) /\ ToSet(on) = ToSet(rest) \cup ToSet(asc)
         BY <2>4, <2>14, <2>16, JoinFacts
  <2>18. /\ Ready(dag, q) = (Ready(dag, o) \ {cur}) \cup freed
         /\ \A m \in freed : m \notin Ready(dag, o)
         BY <2>2, <2>4, <2>6, <2>11, ReadyOn
  <2>19. Distinct(on)
    <3>1. Apart(rest, asc)
          BY <2>4, <2>14, <2>18 DEF Apart
    <3> QED
        BY <2>4, <2>14, <2>16, <3>1, JoinDistinct
  <2>20. ToSet(on) = Ready(dag, q)
         BY <2>4, <2>14, <2>17, <2>18
  <2>21. PICK next : next = [queue |-> on, ind |-> after, seen |-> seen + 1]
         OBVIOUS
  <2>22. kahn_step(dag, check) = next
         BY <1>2, <1>5, <2>3, <2>8, <2>10, <2>13, <2>15, <2>21 DEF kahn_step
  <2>23. after \in [N -> Int]
    <3>1. after = [n \in N |-> after[n]]
          BY <1>3, <2>8
    <3> QED
        BY <2>9, <3>1
  <2>24. next \in Check(dag)
         BY <1>1, <1>3, <2>17, <2>21, <2>23 DEF Check
  <2>25. Sees(dag, next, q)
         BY <1>1, <2>7, <2>9, <2>19, <2>20, <2>21 DEF Sees
  <2>26. \A k \in Nat : Spun(check, k) => Spun(next, k + 1)
         BY <1>2, <1>3, <1>5, <2>21 DEF Spun
  <2> QED
      BY <2>22, <2>24, <2>25, <2>26 DEF Checked
<1> QED
    BY <1>4, <1>5

\* Kahn's test finds out whether the graph has an order.
LEMMA AcyclicHasOrder ==
    ASSUME NEW dag, IsGraph(dag)
    PROVE  is_acyclic(dag) <=> \E w : Whole(dag, w)
<1>1. PICK K : K = Cardinality(Nodes(dag))
      OBVIOUS
<1>2. K \in Nat
      BY <1>1, FS_CardinalityType DEF IsGraph
<1>3. PICK ind : ind = Indegrees(dag)
      OBVIOUS
<1>4. PICK begin : begin = [queue |-> Frontier(ind), ind |-> ind, seen |-> 0]
      OBVIOUS
<1>5. Checked(dag, begin) /\ Spun(begin, 0)
  <2>1. PICK o : o = <<>>
        OBVIOUS
  <2>2. /\ Legal(dag, o) /\ Len(o) = 0 /\ Tracks(dag, o, ind)
        /\ \A n \in Nodes(dag) : ind[n] = Cardinality(Open(dag, o, n))
        BY <1>3, <2>1, StartTracks
  <2>3. PICK R, f : R = Ready(dag, o) /\ f = Frontier(ind)
        OBVIOUS
  <2>4. f \in Seq(R) /\ ToSet(f) = R /\ Distinct(f)
        BY <2>2, <2>3, FrontierFacts
  <2>5. f \in Seq(Nodes(dag))
    <3>1. \A x \in R : x \in Nodes(dag)
          BY <2>3 DEF Ready
    <3> QED
        BY <2>4, <3>1
  <2>6. begin \in Check(dag)
        BY <1>4, <2>2, <2>3, <2>5 DEF Check, Tracks
  <2>7. Sees(dag, begin, o)
        BY <1>4, <2>2, <2>3, <2>4 DEF Sees
  <2> QED
      BY <1>4, <2>6, <2>7 DEF Checked, Spun
<1> DEFINE IsIterated(F) == F = [k \in 0..K |->
                IF k = 0 THEN begin ELSE kahn_step(dag, F[k - 1])]
           V == {check \in Check(dag) : Checked(dag, check)}
           G == [e \in (1..K) \X V |-> kahn_step(dag, e[2])]
<1>6. is_acyclic(dag) <=> (CHOOSE F : IsIterated(F))[K].seen = K
      BY <1>1, <1>3, <1>4 DEF is_acyclic, Nodes
<1>7. begin \in V /\ \A check \in V : kahn_step(dag, check) \in V
      BY <1>5, KahnStep DEF Checked
<1>8. G \in [(1..K) \X V -> V]
  <2> HIDE DEF V
  <2>1. \A e \in (1..K) \X V : e[2] \in V
        OBVIOUS
  <2> QED
      BY <1>7, <2>1
<1>9. \A k \in 1..K, v \in V : G[<<k, v>>] = kahn_step(dag, v)
  <2> HIDE DEF V
  <2> QED
      OBVIOUS
<1> HIDE DEF G, V
<1>10. PICK f \in [0..K -> V] : Recurs(f, K, begin, G)
       BY <1>2, <1>7, <1>8, RecursionExists
<1>11. IsIterated(f)
  <2>1. \A k \in 1..K : f[k - 1] \in V
        BY <1>2, <1>10
  <2>2. f[0] = begin /\ \A k \in 1..K : f[k] = kahn_step(dag, f[k - 1])
        BY <1>9, <1>10, <2>1 DEF Recurs
  <2>3. \A k \in 0..K : k # 0 => k \in 1..K
        BY <1>2
  <2>4. \A k \in 0..K : f[k] = IF k = 0 THEN begin ELSE kahn_step(dag, f[k - 1])
        BY <2>2, <2>3
  <2>5. f = [k \in 0..K |-> f[k]]
        BY <1>10
  <2> QED
      BY <2>4, <2>5, Zenon
<1>12. PICK F : IsIterated(F) /\ (is_acyclic(dag) <=> F[K].seen = K)
       BY <1>6, <1>11, Zenon
<1>13. \A k \in 0..K : F[k] = IF k = 0 THEN begin ELSE kahn_step(dag, F[k - 1])
       BY <1>12, Zenon
<1> HIDE DEF IsIterated
<1>14. F[0] = begin /\ \A k \in 1..K : F[k] = kahn_step(dag, F[k - 1])
  <2>1. 0 \in 0..K /\ \A k \in 1..K : k \in 0..K /\ k # 0
        BY <1>2
  <2> QED
      BY <1>13, <2>1
<1> DEFINE H == {k \in 0..K : Checked(dag, F[k]) /\ Spun(F[k], k)}
<1>15. 0 \in H
       BY <1>2, <1>5, <1>14
<1>16. ASSUME NEW k \in 1..K, k - 1 \in H PROVE k \in H
  <2>1. k - 1 \in Nat /\ Checked(dag, F[k - 1]) /\ Spun(F[k - 1], k - 1)
        BY <1>2, <1>16
  <2>2. Checked(dag, F[k]) /\ Spun(F[k], (k - 1) + 1)
        BY <1>14, <2>1, KahnStep
  <2>3. (k - 1) + 1 = k /\ k \in 0..K
        BY <1>2
  <2> QED
      BY <2>2, <2>3
<1>17. K \in H
  <2> HIDE DEF H
  <2>1. \A k \in 0..K : k \in H
        BY <1>2, <1>15, <1>16, UpTo
  <2> QED
      BY <1>2, <2>1
<1>18. PICK o : Sees(dag, F[K], o)
       BY <1>17 DEF Checked
<1>19. ASSUME F[K].seen = K PROVE Whole(dag, o)
       BY <1>1, <1>18, <1>19 DEF Sees, Whole
<1>20. ASSUME NEW w, Whole(dag, w), F[K].seen # K PROVE FALSE
  <2>1. F[K].queue = <<>>
        BY <1>17, <1>20 DEF Spun
  <2>2. ToSet(F[K].queue) = {}
        BY <2>1 DEF ToSet
  <2>3. Ready(dag, o) = {} /\ Legal(dag, o) /\ Len(o) # Cardinality(Nodes(dag))
        BY <1>1, <1>18, <1>20, <2>2 DEF Sees
  <2> QED
      BY <1>20, <2>3, SomeReady
<1> QED
    BY <1>12, <1>19, <1>20

-----------------------------------------------------------------------------
\* Lists of k members of I, each once.
Arranged(I, k) == {o \in Seq(I) : Distinct(o) /\ Len(o) = k}

\* The lists that go on with one more.
Longer(I, lists) ==
    UNION {{Append(list, n) : n \in I \ ToSet(list)} : list \in lists}

\* Those are all the lists of one more.
LEMMA ArrangedOn ==
    ASSUME NEW I, NEW k \in Nat
    PROVE  Longer(I, Arranged(I, k)) = Arranged(I, k + 1)
<1>1. ASSUME NEW list \in Arranged(I, k), NEW n \in I \ ToSet(list)
      PROVE  Append(list, n) \in Arranged(I, k + 1)
  <2>1. PICK q : q = Append(list, n)
        OBVIOUS
  <2>2. list \in Seq(I) /\ Distinct(list) /\ Len(list) = k
        BY DEF Arranged
  <2>3. /\ q \in Seq(I) /\ Len(q) = k + 1 /\ q[k + 1] = n
        /\ \A i \in 1..k : q[i] = list[i]
        BY <2>1, <2>2, Appended
  <2>4. DOMAIN list = 1..k /\ DOMAIN q = 1..k + 1
        BY <2>2, <2>3
  <2>5. \A i \in 1..k : list[i] # n
        BY <2>4 DEF ToSet
  <2>6. \A i, j \in 1..k : list[i] = list[j] => i = j
        BY <2>2, <2>4 DEF Distinct
  <2>7. \A i \in 1..k + 1 : i \in 1..k \/ i = k + 1
        OBVIOUS
  <2>8. \A i, j \in 1..k + 1 : q[i] = q[j] => i = j
        BY <2>3, <2>5, <2>6, <2>7
  <2>9. Distinct(q)
        BY <2>4, <2>8 DEF Distinct
  <2> QED
      BY <2>1, <2>3, <2>9 DEF Arranged
<1>2. ASSUME NEW o \in Arranged(I, k + 1)
      PROVE  \E list \in Arranged(I, k) : \E n \in I \ ToSet(list) :
                 o = Append(list, n)
  <2>1. o \in Seq(I) /\ Distinct(o) /\ Len(o) = k + 1 /\ DOMAIN o = 1..k + 1
        BY DEF Arranged
  <2>2. PICK list : list = [i \in 1..k |-> o[i]]
        OBVIOUS
  <2>3. \A i \in 1..k : i \in 1..k + 1 /\ o[i] \in I /\ i # k + 1
        BY <2>1
  <2>4. list \in Seq(I) /\ Len(list) = k /\ DOMAIN list = 1..k
        BY <2>2, <2>3
  <2>5. Distinct(list)
        BY <2>1, <2>2, <2>3, <2>4 DEF Distinct
  <2>6. o[k + 1] \in I \ ToSet(list)
    <3>1. k + 1 \in 1..k + 1
          OBVIOUS
    <3>2. \A i \in 1..k : list[i] # o[k + 1]
          BY <2>1, <2>2, <2>3, <3>1 DEF Distinct
    <3> QED
        BY <2>1, <2>4, <3>1, <3>2 DEF ToSet
  <2>7. o = Append(list, o[k + 1])
    <3>1. PICK q : q = Append(list, o[k + 1])
          OBVIOUS
    <3>2. /\ q \in Seq(I) /\ Len(q) = k + 1 /\ q[k + 1] = o[k + 1]
          /\ \A i \in 1..k : q[i] = list[i]
          BY <2>4, <2>6, <3>1, Appended
    <3>3. \A i \in 1..k + 1 : i \in 1..k \/ i = k + 1
          OBVIOUS
    <3>4. \A i \in 1..k + 1 : o[i] = q[i]
          BY <2>2, <3>2, <3>3
    <3>5. o = q
          BY <2>1, <3>2, <3>4
    <3> QED
        BY <3>1, <3>5
  <2>8. list \in Arranged(I, k)
        BY <2>4, <2>5 DEF Arranged
  <2> QED
      BY <2>6, <2>7, <2>8
<1>3. ASSUME NEW o \in Longer(I, Arranged(I, k)) PROVE o \in Arranged(I, k + 1)
  <2>1. PICK list \in Arranged(I, k) : \E n \in I \ ToSet(list) : o = Append(list, n)
        BY DEF Longer
  <2>2. PICK n \in I \ ToSet(list) : o = Append(list, n)
        BY <2>1
  <2> QED
      BY <1>1, <2>2
<1>4. \A o \in Arranged(I, k + 1) : o \in Longer(I, Arranged(I, k))
  <2> SUFFICES ASSUME NEW o \in Arranged(I, k + 1)
               PROVE  o \in Longer(I, Arranged(I, k))
      OBVIOUS
  <2>1. PICK list \in Arranged(I, k) : \E n \in I \ ToSet(list) : o = Append(list, n)
        BY <1>2
  <2>2. o \in {Append(list, n) : n \in I \ ToSet(list)}
        BY <2>1
  <2> QED
      BY <2>2 DEF Longer
<1> QED
    BY <1>3, <1>4

\* The only list of none.
LEMMA ArrangedNone ==
    ASSUME NEW I
    PROVE  Arranged(I, 0) = {<<>>}
<1>1. <<>> \in Arranged(I, 0)
      BY DEF Arranged, Distinct
<1>2. \A o \in Arranged(I, 0) : o = <<>>
      BY DEF Arranged
<1> QED
    BY <1>1, <1>2

\* One more can be put behind finitely many lists in finitely many ways.
LEMMA LongerFinite ==
    ASSUME NEW I, IsFiniteSet(I), NEW lists, IsFiniteSet(lists)
    PROVE  IsFiniteSet(Longer(I, lists))
<1>1. PICK g : g = [list \in lists |-> {Append(list, n) : n \in I \ ToSet(list)}]
      OBVIOUS
<1>2. ASSUME NEW list \in lists PROVE IsFiniteSet(g[list])
  <2>1. PICK S : S = I \ ToSet(list)
        OBVIOUS
  <2>2. IsFiniteSet(S)
        BY <2>1, FS_Difference
  <2>3. PICK f : f = [n \in S |-> Append(list, n)]
        OBVIOUS
  <2>4. IsFiniteSet({f[n] : n \in S})
        BY <2>2, ValuesFinite
  <2>5. g[list] = {f[n] : n \in S}
        BY <1>1, <2>1, <2>3
  <2> QED
      BY <2>4, <2>5
<1>3. IsFiniteSet({g[list] : list \in lists})
      BY ValuesFinite
<1>4. \A S \in {g[list] : list \in lists} : IsFiniteSet(S)
      BY <1>2
<1>5. Longer(I, lists) = UNION {g[list] : list \in lists}
      BY <1>1 DEF Longer
<1> QED
    BY <1>3, <1>4, <1>5, FS_UNION

\* So there are finitely many of any length.
LEMMA ArrangedFinite ==
    ASSUME NEW I, IsFiniteSet(I), NEW K \in Nat
    PROVE  IsFiniteSet(Arranged(I, K))
<1> DEFINE H == {k \in 0..K : IsFiniteSet(Arranged(I, k))}
<1>1. 0 \in H
  <2>1. IsFiniteSet({<<>>})
        BY FS_Singleton
  <2>2. Arranged(I, 0) = {<<>>}
        BY ArrangedNone
  <2>3. IsFiniteSet(Arranged(I, 0))
        BY <2>1, <2>2
  <2> QED
      BY <2>3
<1>2. ASSUME NEW k \in 1..K, k - 1 \in H PROVE k \in H
  <2>1. k - 1 \in Nat /\ (k - 1) + 1 = k /\ k \in 0..K
        OBVIOUS
  <2>2. IsFiniteSet(Longer(I, Arranged(I, k - 1)))
        BY <1>2, LongerFinite
  <2>3. Longer(I, Arranged(I, k - 1)) = Arranged(I, (k - 1) + 1)
        BY <2>1, ArrangedOn
  <2> QED
      BY <2>1, <2>2, <2>3
<1>3. K \in H
  <2> HIDE DEF H
  <2>1. \A k \in 0..K : k \in H
        BY <1>1, <1>2, UpTo
  <2> QED
      BY <2>1
<1> QED
    BY <1>3

\* A list of as many as there are lists them all.
LEMMA FullList ==
    ASSUME NEW I, IsFiniteSet(I), NEW o \in Arranged(I, Cardinality(I))
    PROVE  ToSet(o) = I
<1>1. o \in Seq(I) /\ Distinct(o) /\ Len(o) = Cardinality(I)
      BY DEF Arranged
<1>2. PICK S : S = ToSet(o)
      OBVIOUS
<1>3. S \in SUBSET I /\ Cardinality(S) = Cardinality(I)
      BY <1>1, <1>2, SeqPart, DistinctCount
<1>4. I = S
      BY <1>3, FS_Subset
<1> QED
    BY <1>2, <1>4

\* The reference: the lists in which no edge points backwards are the orders.
LEMMA AllOrdersAre ==
    ASSUME NEW T, NEW p \in Seq(T), Numbered(ToSet(p)), Linked(ToSet(p)),
           NEW dag, dag = build_dag(p)
    PROVE  IsFiniteSet(AllOrders(p)) /\ \A w : w \in AllOrders(p) <=> Whole(dag, w)
<1>1. PICK I, E, K : I = Ids(p) /\ E = Edges(p) /\ K = Cardinality(I)
      OBVIOUS
<1>2. IsGraph(dag) /\ Nodes(dag) = I /\ dag.edges = E
      BY <1>1, GraphOf
<1>3. IsFiniteSet(I) /\ K \in Nat
      BY <1>1, <1>2, FS_CardinalityType DEF IsGraph
<1> DEFINE IsLists(F) == F = [k \in 0..K |->
                IF k = 0 THEN {<<>>}
                ELSE UNION {{Append(list, n) : n \in I \ ToSet(list)} :
                               list \in F[k - 1]}]
<1>4. PICK before : before = {<<e[1], e[2]>> : e \in E}
      OBVIOUS
<1>5. AllOrders(p) =
          {order \in (CHOOSE F : IsLists(F))[K] :
             \A i, j \in DOMAIN order :
                 i < j => <<order[j], order[i]>> \notin before}
      BY <1>1, <1>4 DEF AllOrders
<1>6. PICK L : L = [k \in 0..K |-> Arranged(I, k)]
      OBVIOUS
<1>7. \A k \in 1..K : k - 1 \in 0..K /\ k \in 0..K /\ (k - 1) + 1 = k /\ k - 1 \in Nat
      BY <1>3
<1>8. IsLists(L)
  <2>1. \A k \in 1..K : L[k] = Longer(I, L[k - 1])
    <3> SUFFICES ASSUME NEW k \in 1..K PROVE L[k] = Longer(I, L[k - 1])
        OBVIOUS
    <3>1. L[k - 1] = Arranged(I, k - 1) /\ L[k] = Arranged(I, k)
          BY <1>6, <1>7
    <3>2. Longer(I, Arranged(I, k - 1)) = Arranged(I, (k - 1) + 1)
          BY <1>7, ArrangedOn
    <3> QED
        BY <1>7, <3>1, <3>2
  <2>2. L[0] = {<<>>}
        BY <1>3, <1>6, ArrangedNone
  <2>3. \A k \in 0..K : k # 0 => k \in 1..K
        BY <1>3
  <2>4. \A k \in 0..K : L[k] = IF k = 0 THEN {<<>>}
                ELSE UNION {{Append(list, n) : n \in I \ ToSet(list)} :
                               list \in L[k - 1]}
        BY <2>1, <2>2, <2>3 DEF Longer
  <2>5. L = [k \in 0..K |-> L[k]]
        BY <1>6
  <2> QED
      BY <2>4, <2>5, Zenon
<1>9. PICK F : IsLists(F) /\ F = CHOOSE G : IsLists(G)
      BY <1>8, Zenon
<1>10. \A k \in 0..K : F[k] = IF k = 0 THEN {<<>>}
                ELSE UNION {{Append(list, n) : n \in I \ ToSet(list)} :
                               list \in F[k - 1]}
       BY <1>9, Zenon
<1>11. AllOrders(p) = {order \in F[K] :
             \A i, j \in DOMAIN order :
                 i < j => <<order[j], order[i]>> \notin before}
       BY <1>5, <1>9
<1> HIDE DEF IsLists
<1> DEFINE H == {k \in 0..K : F[k] = Arranged(I, k)}
<1>12. 0 \in H
  <2>1. 0 \in 0..K
        BY <1>3
  <2>2. F[0] = {<<>>}
        BY <1>10, <2>1
  <2> QED
      BY <2>1, <2>2, ArrangedNone
<1>13. ASSUME NEW k \in 1..K, k - 1 \in H PROVE k \in H
  <2>1. k \in 0..K /\ k # 0
        BY <1>7
  <2>2. F[k] = Longer(I, F[k - 1])
        BY <1>10, <2>1 DEF Longer
  <2>3. F[k] = Arranged(I, (k - 1) + 1)
        BY <1>7, <1>13, <2>2, ArrangedOn
  <2> QED
      BY <1>7, <2>1, <2>3
<1>14. F[K] = Arranged(I, K)
  <2> HIDE DEF H
  <2>1. \A k \in 0..K : k \in H
        BY <1>3, <1>12, <1>13, UpTo
  <2>2. K \in H
        BY <1>3, <2>1
  <2> QED
      BY <2>2 DEF H
<1>15. IsFiniteSet(AllOrders(p))
  <2>1. IsFiniteSet(Arranged(I, K))
        BY <1>3, ArrangedFinite
  <2>2. AllOrders(p) \in SUBSET Arranged(I, K)
        BY <1>11, <1>14
  <2> QED
      BY <2>1, <2>2, FS_Subset
<1>16. ASSUME NEW w, Whole(dag, w) PROVE w \in AllOrders(p)
  <2>1. w \in Seq(I) /\ Distinct(w) /\ Len(w) = K
        BY <1>1, <1>2, <1>16 DEF Whole, Legal
  <2>2. w \in Arranged(I, K)
        BY <2>1 DEF Arranged
  <2>3. DOMAIN w = 1..K
        BY <2>1
  <2>4. ASSUME NEW i \in 1..K, NEW j \in 1..K, i < j, <<w[j], w[i]>> \in before
        PROVE  FALSE
    <3>1. PICK e \in E : <<w[j], w[i]>> = <<e[1], e[2]>>
          BY <1>4, <2>4
    <3>2. e[1] = w[j] /\ e[2] = w[i] /\ w[j] \in I
          BY <2>1, <2>3, <3>1
    <3>3. PICK l \in 1..i - 1 : w[l] = e[1]
          BY <1>2, <1>16, <2>3, <3>2 DEF Whole, Legal
    <3>4. l \in 1..K
          BY <1>3, <3>3
    <3>5. l = j
          BY <2>1, <2>3, <3>2, <3>3, <3>4 DEF Distinct
    <3> QED
        BY <2>4, <3>3, <3>5
  <2> QED
      BY <1>11, <1>14, <2>2, <2>3, <2>4
<1>17. ASSUME NEW w \in AllOrders(p) PROVE Whole(dag, w)
  <2>1. w \in Arranged(I, K)
        BY <1>11, <1>14
  <2>2. w \in Seq(I) /\ Distinct(w) /\ Len(w) = K /\ DOMAIN w = 1..K
        BY <2>1 DEF Arranged
  <2>3. ToSet(w) = I
        BY <1>1, <1>3, <2>1, FullList
  <2>4. \A i, j \in 1..K : i < j => <<w[j], w[i]>> \notin before
        BY <1>11, <2>2
  <2>5. ASSUME NEW i \in 1..K, NEW e \in E, e[1] \in I, e[2] = w[i]
        PROVE  \E j \in 1..i - 1 : w[j] = e[1]
    <3>1. PICK j \in 1..K : w[j] = e[1]
          BY <2>2, <2>3, <2>5 DEF ToSet
    <3>2. e[1] # e[2]
          BY <1>2 DEF IsGraph
    <3>3. j # i
          BY <2>5, <3>1, <3>2
    <3>4. <<w[j], w[i]>> \in before
          BY <1>4, <2>5, <3>1
    <3>5. ~(i < j)
          BY <2>4, <3>4
    <3> QED
        BY <1>3, <3>1, <3>3, <3>5
  <2>6. Legal(dag, w)
        BY <1>2, <2>2, <2>5 DEF Legal
  <2> QED
      BY <1>1, <1>2, <2>2, <2>6 DEF Whole
<1> QED
    BY <1>15, <1>16, <1>17

-----------------------------------------------------------------------------
\* The smaller of two numbers.
LEMMA MinOfTwo ==
    ASSUME NEW x \in Int, NEW y \in Int
    PROVE  Min({x, y}) = IF x <= y THEN x ELSE y
<1>1. CASE x <= y
  <2>1. \A z \in {x, y} : (\A t \in {x, y} : z =< t) <=> z = x
        BY <1>1
  <2>2. Min({x, y}) = x
        BY <2>1 DEF Min
  <2> QED
      BY <1>1, <2>2
<1>2. CASE y < x
  <2>1. \A z \in {x, y} : (\A t \in {x, y} : z =< t) <=> z = y
        BY <1>2
  <2>2. Min({x, y}) = y
        BY <2>1 DEF Min
  <2> QED
      BY <1>2, <2>2
<1> QED
    BY <1>1, <1>2

\* When its fuel is burnt the search is at its end.
LEMMA SearchEnds ==
    ASSUME NEW dag, IsGraph(dag), NEW limit \in Nat,
           NEW search, Sound(dag, search),
           Fuel(dag, limit, search, limit * (Cardinality(Nodes(dag)) + 1))
    PROVE  search.stack = <<>> \/ Len(search.out) = limit
<1> SUFFICES ASSUME search.stack # <<>>, Len(search.out) # limit PROVE FALSE
    OBVIOUS
<1>1. PICK N, l, out, stack :
          /\ N = Cardinality(Nodes(dag)) /\ out = search.out /\ l = Len(out)
          /\ stack = search.stack
      OBVIOUS
<1>2. stack \in Seq(Item(dag)) /\ out \in Seq(Seq(Nodes(dag)))
      BY <1>1 DEF Sound, Search
<1>3. PICK m \in Nat : m = Len(stack) /\ m >= 1 /\ DOMAIN stack = 1..m
  <2>1. stack # <<>>
        BY <1>1
  <2> QED
      BY <1>2, <2>1
<1>4. Last(stack) = stack[m] /\ m \in DOMAIN stack
      BY <1>3 DEF Last
<1>5. Legal(dag, stack[m].order)
      BY <1>1, <1>4 DEF Sound
<1>6. PICK x \in Nat : x = Len(stack[m].order) /\ x <= N /\ N \in Nat
      BY <1>1, <1>5, LegalLength
<1>7. l \in Nat /\ l <= limit /\ l # limit
      BY <1>1, <1>2 DEF Fuel
<1>8. limit * (N + 1) <= l * (N + 1) + x
      BY <1>1, <1>4, <1>6 DEF Fuel
<1>9. PICK d \in Nat : limit = l + 1 + d
  <2>1. limit - l - 1 \in Nat /\ limit = l + 1 + (limit - l - 1)
        BY <1>7
  <2> QED
      BY <2>1
<1>10. limit * (N + 1) = l * (N + 1) + (N + 1) + d * (N + 1)
       BY <1>6, <1>7, <1>9
<1>11. d * (N + 1) \in Nat /\ l * (N + 1) \in Nat
       BY <1>6, <1>7
<1> QED
    BY <1>6, <1>8, <1>10, <1>11

\* If there are orders, the search puts out as many of them as the limit
\* allows, each once.
LEMMA SearchIsExact ==
    ASSUME NEW dag, IsGraph(dag), NEW limit \in Nat, NEW any, Whole(dag, any),
           NEW all, IsFiniteSet(all), \A w : w \in all <=> Whole(dag, w),
           NEW list, list = topo_out(dag, limit)
    PROVE  /\ ToSet(list) \subseteq all
           /\ Cardinality(ToSet(list)) = Len(list)
           /\ Len(list) = Min({limit, Cardinality(all)})
<1>1. PICK K : K = limit * (Cardinality(Nodes(dag)) + 1)
      OBVIOUS
<1>2. PICK search : Searched(dag, limit, search, K) /\ list = search.out
      BY <1>1, SearchResult
<1>3. /\ Sound(dag, search) /\ Disjoint(search) /\ Covers(dag, search)
      /\ Fuel(dag, limit, search, limit * (Cardinality(Nodes(dag)) + 1))
      BY <1>1, <1>2 DEF Searched
<1>4. search.stack = <<>> \/ Len(list) = limit
      BY <1>2, <1>3, SearchEnds
<1>5. list \in Seq(Seq(Nodes(dag))) /\ Distinct(list)
      BY <1>2, <1>3 DEF Sound, Search, Disjoint
<1>6. PICK S : S = ToSet(list)
      OBVIOUS
<1>7. IsFiniteSet(S) /\ Cardinality(S) = Len(list) /\ Len(list) \in Nat
  <2>1. PICK T : T = Seq(Nodes(dag))
        OBVIOUS
  <2>2. list \in Seq(T)
        BY <1>5, <2>1
  <2> QED
      BY <1>5, <1>6, <2>2, DistinctCount
<1>8. S \in SUBSET all
  <2>1. \A i \in DOMAIN list : list[i] \in all
        BY <1>2, <1>3 DEF Sound
  <2> QED
      BY <1>6, <2>1 DEF ToSet
<1>9. Cardinality(all) \in Nat /\ Len(list) <= Cardinality(all)
      BY <1>7, <1>8, FS_CardinalityType, FS_Subset
<1>10. Len(list) <= limit
       BY <1>2, <1>3 DEF Fuel
<1>11. search.stack = <<>> => S = all
  <2> SUFFICES ASSUME search.stack = <<>>, NEW w \in all PROVE w \in S
      BY <1>8
  <2>1. Whole(dag, w) /\ DOMAIN search.stack = {}
        OBVIOUS
  <2> QED
      BY <1>2, <1>3, <1>6, <2>1 DEF Covers
<1>12. Len(list) = limit \/ Len(list) = Cardinality(all)
       BY <1>4, <1>7, <1>11
<1>13. Len(list) = Min({limit, Cardinality(all)})
       BY <1>7, <1>9, <1>10, <1>12, MinOfTwo
<1> QED
    BY <1>6, <1>7, <1>8, <1>13

\* What has arrived makes a graph, and the reference knows its orders.
LEMMA ArrivedGraph ==
    ASSUME CausalInv, NEW dag, dag = build_dag(arrived)
    PROVE  /\ IsGraph(dag) /\ Nodes(dag) = Ids(arrived)
           /\ dag.edges = Edges(arrived)
           /\ IsFiniteSet(AllOrders(arrived))
           /\ \A w : w \in AllOrders(arrived) <=> Whole(dag, w)
<1>1. PICK T : T = ToSet(trace)
      OBVIOUS
<1>2. arrived \in Seq(T) /\ Numbered(ToSet(arrived)) /\ Linked(ToSet(arrived))
      BY <1>1, ArrivedFacts, TraceLinked
<1> QED
    BY <1>2, GraphOf, AllOrdersAre

\* For every trace and fault and whatever has arrived of it, and for every
\* limit: the depth-first search with its explicit stack puts out valid orders
\* only, none twice, all of them when they fit and otherwise as many as the
\* limit allows; and it is not begun exactly when Kahn's test finds a cycle,
\* which is when there is no order, or when nothing has arrived.
THEOREM SweepEnumeratesOrders == Spec => []SweepIsExact
<1>1. CausalInv => SweepIsExact
  <2> SUFFICES ASSUME CausalInv, NEW limit \in TopoLimits
               PROVE  LET all == AllOrders(arrived)
                          got == topo_orders(arrived, limit) IN
                      IF arrived = <<>> \/ all = {} THEN got = {}
                      ELSE \E list \in got :
                              /\ ToSet(list) \subseteq all
                              /\ Cardinality(ToSet(list)) = Len(list)
                              /\ Len(list) = Min({limit, Cardinality(all)})
      BY DEF SweepIsExact
  <2>1. PICK dag : dag = build_dag(arrived)
        OBVIOUS
  <2>2. PICK all : all = AllOrders(arrived)
        OBVIOUS
  <2>3. PICK got : got = topo_orders(arrived, limit)
        OBVIOUS
  <2>4. /\ IsGraph(dag) /\ IsFiniteSet(all)
        /\ \A w : w \in all <=> Whole(dag, w)
        BY <2>1, <2>2, ArrivedGraph
  <2>5. is_acyclic(dag) <=> all # {}
        BY <2>4, AcyclicHasOrder
  <2>6. got = IF arrived = <<>> \/ ~is_acyclic(dag) THEN {}
              ELSE {topo_out(dag, limit)}
        BY <2>1, <2>3 DEF topo_orders
  <2>7. ASSUME arrived # <<>>, all # {}
        PROVE  \E list \in got :
                  /\ ToSet(list) \subseteq all
                  /\ Cardinality(ToSet(list)) = Len(list)
                  /\ Len(list) = Min({limit, Cardinality(all)})
    <3>1. PICK any : Whole(dag, any)
          BY <2>4, <2>7
    <3>2. PICK list : list = topo_out(dag, limit)
          OBVIOUS
    <3>3. limit \in Nat
          BY JudgesAssumption
    <3>4. /\ ToSet(list) \subseteq all
          /\ Cardinality(ToSet(list)) = Len(list)
          /\ Len(list) = Min({limit, Cardinality(all)})
          BY <2>4, <3>1, <3>2, <3>3, SearchIsExact
    <3>5. list \in got
          BY <2>5, <2>6, <2>7, <3>2
    <3> QED
        BY <3>4, <3>5
  <2>8. arrived = <<>> \/ all = {} => got = {}
        BY <2>5, <2>6
  <2> QED
      BY <2>2, <2>3, <2>7, <2>8
<1> QED
    BY <1>1, CausalInvariant, PTL

-----------------------------------------------------------------------------
\* The verdict is about the spans, not about their order.
LEMMA SameVerdict ==
    ASSUME NEW p, NEW q, ToSet(p) = ToSet(q)
    PROVE  deterministic_verdict(p) = deterministic_verdict(q)
<1>1. trace_closed(p) = trace_closed(q) /\ final_present(p) = final_present(q)
      BY DEF trace_closed, final_present
<1>2. Ids(p) = Ids(q)
      BY DEF Ids
<1> QED
    BY <1>1, <1>2 DEF deterministic_verdict

\* An order of the graph lists every span of it.
LEMMA OrderListsAll ==
    ASSUME CausalInv, NEW dag, dag = build_dag(arrived), NEW o, Whole(dag, o),
           NEW listing, listing = [k \in DOMAIN o |-> dag.nodes[o[k]]]
    PROVE  ToSet(listing) = ToSet(arrived)
<1>1. IsGraph(dag) /\ Nodes(dag) = Ids(arrived)
      BY ArrivedGraph
<1>2. ToSet(o) = Ids(arrived)
      BY <1>1, LegalLength DEF Whole
<1>3. PICK T : T = ToSet(trace)
      OBVIOUS
<1>4. arrived \in Seq(T) /\ DistinctIds(arrived)
      BY <1>3, ArrivedFacts
<1>5. \A s \in ToSet(arrived) : s.id \in Ids(arrived) /\ dag.nodes[s.id] = s
      BY <1>4, NodeOfSpan
<1>6. ASSUME NEW k \in DOMAIN o PROVE dag.nodes[o[k]] \in ToSet(arrived)
  <2>1. o[k] \in Ids(arrived)
        BY <1>2 DEF ToSet
  <2>2. PICK s \in ToSet(arrived) : s.id = o[k]
        BY <2>1 DEF Ids
  <2> QED
      BY <1>5, <2>2
<1>7. ASSUME NEW s \in ToSet(arrived)
      PROVE  \E k \in DOMAIN o : dag.nodes[o[k]] = s
  <2>1. s.id \in ToSet(o)
        BY <1>2, <1>5
  <2>2. PICK k \in DOMAIN o : o[k] = s.id
        BY <2>1 DEF ToSet
  <2> QED
      BY <1>5, <2>2
<1>8. ToSet(listing) = {dag.nodes[o[k]] : k \in DOMAIN o}
      BY DEF ToSet
<1> QED
    BY <1>6, <1>7, <1>8

\* So every serialization has the verdict of the spans as they have arrived,
\* and there is one only if they have no cycle.
LEMMA SerializationVerdict ==
    ASSUME CausalInv, NEW limit \in Nat,
           NEW rows, rows = sweep(arrived, limit).serializations,
           NEW i \in DOMAIN rows
    PROVE  /\ rows[i].verdict = deterministic_verdict(arrived)
           /\ is_acyclic(build_dag(arrived))
<1>1. PICK dag : dag = build_dag(arrived)
      OBVIOUS
<1>2. PICK orders : orders = topo_orders(arrived, limit)
      OBVIOUS
<1>3. PICK listed : listed = IF orders = {} THEN <<>>
                             ELSE CHOOSE list \in orders : TRUE
      OBVIOUS
<1>4. rows = [j \in DOMAIN listed |->
                [order |-> listed[j],
                 verdict |-> deterministic_verdict(
                     [k \in DOMAIN listed[j] |-> dag.nodes[listed[j][k]]])]]
      BY <1>1, <1>2, <1>3 DEF sweep
<1>5. orders = IF arrived = <<>> \/ ~is_acyclic(dag) THEN {}
               ELSE {topo_out(dag, limit)}
      BY <1>1, <1>2 DEF topo_orders
<1>6. i \in DOMAIN listed
      BY <1>4
<1>7. orders # {}
      BY <1>3, <1>6
<1>8. is_acyclic(dag) /\ listed = topo_out(dag, limit)
      BY <1>3, <1>5, <1>7
<1>9. /\ IsGraph(dag) /\ IsFiniteSet(AllOrders(arrived))
      /\ \A w : w \in AllOrders(arrived) <=> Whole(dag, w)
      BY <1>1, ArrivedGraph
<1>10. PICK any : Whole(dag, any)
       BY <1>8, <1>9, AcyclicHasOrder
<1>11. PICK all : all = AllOrders(arrived)
       OBVIOUS
<1>12. ToSet(listed) \subseteq all
       BY <1>8, <1>9, <1>10, <1>11, SearchIsExact
<1>13. PICK o : o = listed[i]
       OBVIOUS
<1>14. Whole(dag, o)
       BY <1>6, <1>9, <1>11, <1>12, <1>13 DEF ToSet
<1>15. PICK listing : listing = [k \in DOMAIN o |-> dag.nodes[o[k]]]
       OBVIOUS
<1>16. ToSet(listing) = ToSet(arrived)
       BY <1>1, <1>14, <1>15, OrderListsAll
<1>17. rows[i].verdict = deterministic_verdict(listing)
       BY <1>4, <1>6, <1>13, <1>15
<1> QED
    BY <1>1, <1>8, <1>16, <1>17, SameVerdict

\* A PASS is only given to spans whose causes have come.
LEMMA PassIsWhole ==
    ASSUME CausalInv, deterministic_verdict(arrived) = "PASS",
           NEW e \in Edges(trace), e[2] \in Ids(arrived)
    PROVE  e[1] \in Ids(arrived)
<1>1. \A s \in ToSet(arrived) : /\ s.parent \in Ids(arrived) \cup {NoSpan}
                                /\ ToSet(s.links) \subseteq Ids(arrived)
      BY DEF deterministic_verdict
<1>2. PICK s \in ToSet(trace) :
          \/ \E x \in ({s.parent} \ {s.id}) \cap Ids(trace) : e = <<x, s.id, "parent">>
          \/ \E x \in ToSet(s.links) \ {s.id} : e = <<x, s.id, "link">>
      BY DEF Edges
<1>3. e[2] = s.id
      BY <1>2
<1>4. PICK t \in ToSet(arrived) : t.id = s.id
      BY <1>3 DEF Ids
<1>5. t = s
  <2>1. trace \in Seq(ToSet(trace)) /\ DistinctIds(trace)
        BY TraceFacts
  <2>2. IdsTell(ToSet(trace))
        BY <2>1, DistinctIdsAre
  <2>3. t \in ToSet(trace)
        BY ArrivedFacts
  <2> QED
      BY <1>4, <2>2, <2>3 DEF IdsTell
<1>6. NoSpan \notin Ids(trace)
      BY TraceFacts DEF Numbered, Ids
<1>7. CASE \E x \in ({s.parent} \ {s.id}) \cap Ids(trace) : e = <<x, s.id, "parent">>
  <2>1. e[1] = s.parent /\ s.parent \in Ids(trace)
        BY <1>7
  <2> QED
      BY <1>1, <1>5, <1>6, <2>1
<1>8. CASE \E x \in ToSet(s.links) \ {s.id} : e = <<x, s.id, "link">>
  <2>1. e[1] \in ToSet(s.links)
        BY <1>8
  <2> QED
      BY <1>1, <1>5, <2>1
<1> QED
    BY <1>2, <1>7, <1>8

\* When as many have arrived as there are, all have.
LEMMA DrainedIsAll ==
    ASSUME CausalInv, Drained
    PROVE  ToSet(arrived) = ToSet(trace) /\ build_dag(arrived) = build_dag(trace)
<1>1. PICK T : T = ToSet(trace)
      OBVIOUS
<1>2. /\ trace \in Seq(T) /\ DistinctIds(trace)
      /\ arrived \in Seq(T) /\ DistinctIds(arrived)
      /\ ToSet(arrived) \subseteq T
      BY <1>1, TraceFacts, ArrivedFacts
<1>3. Distinct(trace) /\ Distinct(arrived)
      BY <1>2, DistinctIdsAre
<1>4. /\ IsFiniteSet(T) /\ Cardinality(T) = Len(trace)
      /\ Cardinality(ToSet(arrived)) = Len(arrived)
      BY <1>1, <1>2, <1>3, DistinctCount
<1>5. PICK A : A = ToSet(arrived)
      OBVIOUS
<1>6. A \in SUBSET T /\ Cardinality(A) = Cardinality(T)
      BY <1>2, <1>4, <1>5 DEF Drained
<1>7. A = T
      BY <1>4, <1>6, FS_Subset
<1> QED
    BY <1>1, <1>2, <1>5, <1>7, SameGraph

\* The verdict that the generator promises of a complete trace for each fault.
LEMMA PromisedVerdict ==
    ASSUME NEW spans \in Seq(CausalSpan), Complete(spans), NEW f \in CausalFault,
           NEW t, t = apply_fault(spans, f)
    PROVE  deterministic_verdict(t) =
               IF f \in {None, "drop_link"} THEN "PASS" ELSE "INCONCLUSIVE"
<1>1. Faulted(t, spans, f)
      BY FaultKeeps
<1>2. /\ DOMAIN t = DOMAIN spans
      /\ \A i \in DOMAIN spans :
            /\ t[i].id = spans[i].id /\ t[i].parent = spans[i].parent
            /\ t[i].final = spans[i].final /\ t[i].output = spans[i].output
            /\ t[i].closed <=> f # "truncate_closed" /\ spans[i].closed
      BY <1>1 DEF Faulted
<1>3. Ids(t) = Ids(spans)
  <2>1. \A n : n \in Ids(t) <=> \E i \in DOMAIN t : n = t[i].id
        BY DEF Ids, ToSet
  <2>2. \A n : n \in Ids(spans) <=> \E i \in DOMAIN spans : n = spans[i].id
        BY DEF Ids, ToSet
  <2>3. \A n : n \in Ids(t) <=> n \in Ids(spans)
        BY <1>2, <2>1, <2>2
  <2> QED
      BY <2>3
<1>4. \A i \in DOMAIN spans : spans[i] \in CausalSpan
      OBVIOUS
<1>5. /\ \E i \in DOMAIN spans : spans[i].parent = NoSpan /\ spans[i].closed
      /\ \E i \in DOMAIN spans : spans[i].final /\ spans[i].output # "none"
      /\ \E i \in DOMAIN spans : spans[i].links # <<>>
      /\ \A i \in DOMAIN spans : /\ spans[i].parent \in Ids(spans) \cup {NoSpan}
                                 /\ ToSet(spans[i].links) \subseteq Ids(spans)
      BY DEF Complete, trace_closed, final_present, ToSet
<1>6. final_present(t)
  <2>1. PICK i \in DOMAIN spans : spans[i].final /\ spans[i].output # "none"
        BY <1>5
  <2>2. t[i] \in ToSet(t) /\ t[i].final /\ t[i].output # "none"
        BY <1>2, <2>1 DEF ToSet
  <2> QED
      BY <2>2 DEF final_present
<1>7. trace_closed(t) <=> f # "truncate_closed"
  <2>1. PICK i \in DOMAIN spans : spans[i].parent = NoSpan /\ spans[i].closed
        BY <1>5
  <2>2. f # "truncate_closed" =>
            t[i] \in ToSet(t) /\ t[i].parent = NoSpan /\ t[i].closed
        BY <1>2, <2>1 DEF ToSet
  <2>3. \A s \in ToSet(t) : s.closed => f # "truncate_closed"
    <3>1. \A k \in DOMAIN t : t[k].closed => f # "truncate_closed"
          BY <1>2
    <3> QED
        BY <3>1 DEF ToSet
  <2> QED
      BY <2>2, <2>3 DEF trace_closed
<1>8. \A s \in ToSet(t) : s.parent \in Ids(t) \cup {NoSpan}
  <2>1. \A i \in DOMAIN spans : t[i].parent \in Ids(t) \cup {NoSpan}
        BY <1>1, <1>3, <1>5 DEF Faulted
  <2> QED
      BY <1>2, <2>1 DEF ToSet
<1>9. f \in {"none", "truncate_closed", "drop_link", "orphan_link_target"}
  <2>1. f = "none" \/ f \in ToSet(CAUSAL_FAULTS)
        BY DEF CausalFault, None
  <2>2. DOMAIN CAUSAL_FAULTS = {1, 2, 3}
        BY DEF CAUSAL_FAULTS
  <2>3. f # "none" => \E i \in {1, 2, 3} : f = CAUSAL_FAULTS[i]
        BY <2>1, <2>2 DEF ToSet
  <2> QED
      BY <2>1, <2>3 DEF CAUSAL_FAULTS
<1>10. CASE f = "truncate_closed"
       BY <1>7, <1>10 DEF deterministic_verdict, None
<1>11. CASE f = "orphan_link_target"
  <2>1. PICK i \in DOMAIN spans : spans[i].links # <<>>
        BY <1>5
  <2>2. spans[i].links \in Seq(Nat)
        BY <1>4 DEF CausalSpan
  <2>3. PICK l : l = spans[i].links
        OBVIOUS
  <2>4. l \in Seq(Nat) /\ 1 \in DOMAIN l
        BY <2>1, <2>2, <2>3
  <2>5. t[i].links = [l EXCEPT ![1] = ForeignSpan]
        BY <1>1, <1>11, <2>1, <2>3 DEF Faulted
  <2>6. ForeignSpan \in ToSet(t[i].links)
        BY <2>4, <2>5 DEF ToSet
  <2>7. ForeignSpan \notin Ids(t)
    <3>1. \A j \in DOMAIN spans : spans[j].id \in Nat
          BY <1>4 DEF CausalSpan
    <3>2. \A s \in ToSet(spans) : s.id # ForeignSpan
          BY <3>1 DEF ToSet, ForeignSpan
    <3>3. ForeignSpan \notin Ids(spans)
          BY <3>2 DEF Ids
    <3> QED
        BY <1>3, <3>3
  <2>8. t[i] \in ToSet(t)
        BY <1>2 DEF ToSet
  <2> QED
      BY <1>11, <2>6, <2>7, <2>8 DEF deterministic_verdict, None
<1>12. CASE f \in {None, "drop_link"}
  <2>1. \A i \in DOMAIN spans : ToSet(t[i].links) \subseteq Ids(t)
    <3>1. \A i \in DOMAIN spans : t[i].links \in {<<>>, spans[i].links}
          BY <1>1, <1>12 DEF Faulted, None
    <3>2. ToSet(<<>>) = {}
          BY DEF ToSet
    <3> QED
        BY <1>3, <1>5, <3>1, <3>2
  <2>2. \A s \in ToSet(t) : ToSet(s.links) \subseteq Ids(t)
        BY <1>2, <2>1 DEF ToSet
  <2>3. f # "truncate_closed"
        BY <1>12 DEF None
  <2> QED
      BY <1>6, <1>7, <1>8, <1>12, <2>2, <2>3 DEF deterministic_verdict
<1> QED
    BY <1>9, <1>10, <1>11, <1>12 DEF None

\* The smallest limit is a limit.
LEMMA MinOfLimits == Min(TopoLimits) \in Nat
<1>1. TopoLimits \in SUBSET Nat /\ TopoLimits # {}
      BY JudgesAssumption
<1>2. PICK x \in TopoLimits : \A y \in TopoLimits : x <= y
      BY <1>1, LeastNumber
<1>3. Min(TopoLimits) \in TopoLimits
      BY <1>2 DEF Min
<1> QED
    BY <1>1, <1>3

\* For every trace and fault and every order of arrival, at every point of
\* it: all serializations have one verdict; it is PASS only when the trace is
\* closed and no cause of what has come is still under way; and in the end it
\* is what the generator promises for the fault.
THEOREM PassIsNeverPremature == Spec => []NoPrematurePass
<1>1. CausalInv => NoPrematurePass
  <2> SUFFICES ASSUME CausalInv PROVE NoPrematurePass
      OBVIOUS
  <2>1. PICK limit : limit = Min(TopoLimits)
        OBVIOUS
  <2>2. limit \in Nat
        BY <2>1, MinOfLimits
  <2>3. PICK cell : cell = sweep(arrived, limit)
        OBVIOUS
  <2>4. PICK verdicts : verdicts = {cell.serializations[i].verdict :
                                       i \in DOMAIN cell.serializations}
        OBVIOUS
  <2>5. PICK v : v = deterministic_verdict(arrived)
        OBVIOUS
  <2>6. \A x \in verdicts : x = v /\ is_acyclic(build_dag(arrived))
        BY <2>2, <2>3, <2>4, <2>5, SerializationVerdict
  <2>7. Cardinality(verdicts) <= 1
    <3>1. IsFiniteSet({v}) /\ Cardinality({v}) = 1
          BY FS_Singleton
    <3>2. verdicts \in SUBSET {v}
          BY <2>6
    <3> QED
        BY <3>1, <3>2, FS_Subset
  <2>8. "PASS" \in verdicts =>
            /\ cell.closed
            /\ \A e \in Edges(trace) :
                  e[2] \in Ids(arrived) => e[1] \in Ids(arrived)
    <3> SUFFICES ASSUME "PASS" \in verdicts
                 PROVE  /\ cell.closed
                        /\ \A e \in Edges(trace) :
                              e[2] \in Ids(arrived) => e[1] \in Ids(arrived)
        OBVIOUS
    <3>1. deterministic_verdict(arrived) = "PASS"
          BY <2>5, <2>6
    <3>2. trace_closed(arrived)
          BY <3>1 DEF deterministic_verdict
    <3>3. cell.closed
          BY <2>3, <3>2 DEF sweep
    <3> QED
        BY <3>1, <3>3, PassIsWhole
  <2>9. Drained /\ verdicts # {} =>
            verdicts = {IF fault \in {None, "drop_link"} THEN "PASS"
                        ELSE "INCONCLUSIVE"}
    <3> SUFFICES ASSUME Drained, verdicts # {}
                 PROVE  v = IF fault \in {None, "drop_link"} THEN "PASS"
                            ELSE "INCONCLUSIVE"
        BY <2>6
    <3>1. PICK spans \in Traces : trace = apply_fault(spans, fault)
          BY DEF Drained, CausalInv
    <3>2. fault \in CausalFault /\ spans \in Seq(CausalSpan)
          BY TracesAssumption DEF CausalInv
    <3>3. is_acyclic(build_dag(apply_fault(spans, fault)))
          BY <2>6, <3>1, DrainedIsAll
    <3>4. Complete(spans)
          BY <3>2, <3>3, TracesAssumption
    <3>5. v = deterministic_verdict(trace)
          BY <2>5, DrainedIsAll, SameVerdict
    <3> QED
        BY <3>1, <3>2, <3>4, <3>5, PromisedVerdict
  <2> QED
      BY <2>1, <2>3, <2>4, <2>7, <2>8, <2>9 DEF NoPrematurePass
<1> QED
    BY <1>1, CausalInvariant, PTL

-----------------------------------------------------------------------------
\* The numbers of a function as a sum of tokens.
AsTokens(fun, S) == [i \in S |-> [tokens |-> fun[i]]]

\* A set is folded to one value.
LEMMA FoldIsUnique ==
    ASSUME NEW bag, NEW S, IsFiniteSet(S),
           NEW g, IsFold(g, bag, S), NEW h, IsFold(h, bag, S)
    PROVE  g[S] = h[S]
<1>1. PICK U, c : U = S /\ c = bag
      OBVIOUS
<1>2. U \in SUBSET (S \cap U) /\ IsFold(h, c, U) /\ IsFiniteSet(U)
      BY <1>1
<1>3. \A i \in U : bag[i].tokens = c[i].tokens
      BY <1>1
<1>4. g[U] = h[U]
      BY <1>2, <1>3, FoldsAgree
<1> QED
    BY <1>1, <1>4

\* The library's sum of a function is the sum that is proved about.
LEMMA SumIsSpent ==
    ASSUME NEW fun, NEW S, S = DOMAIN fun, IsFiniteSet(S)
    PROVE  SumFunction(fun) = Spent(AsTokens(fun, S), S)
<1>1. PICK bag : bag = AsTokens(fun, S)
      OBVIOUS
<1>2. \A i \in S : bag[i].tokens = fun[i]
      BY <1>1 DEF AsTokens
<1> DEFINE IsSum(g) == g = [s \in SUBSET S |->
                IF s = {} THEN 0
                ELSE LET x == CHOOSE x \in s : TRUE IN fun[x] + g[s \ {x}]]
<1>3. SumFunction(fun) = (CHOOSE g : IsSum(g))[S]
      BY DEF SumFunction, SumFunctionOnSet, FoldFunctionOnSet, MapThenFoldSet
<1>4. \A s \in SUBSET S : s # {} => First(s) \in S
      BY DEF First
<1>5. ASSUME NEW g PROVE IsSum(g) <=> IsFold(g, bag, S)
  <2>1. \A s \in SUBSET S : Step(bag, g, s) =
            IF s = {} THEN 0
            ELSE LET x == CHOOSE x \in s : TRUE IN fun[x] + g[s \ {x}]
        BY <1>2, <1>4 DEF Step, First
  <2>2. [s \in SUBSET S |-> Step(bag, g, s)] =
            [s \in SUBSET S |->
                IF s = {} THEN 0
                ELSE LET x == CHOOSE x \in s : TRUE IN fun[x] + g[s \ {x}]]
        BY <2>1
  <2> QED
      BY <2>2 DEF IsFold
<1>6. PICK h : IsFold(h, bag, S) /\ Spent(bag, S) = h[S]
      BY SpentFold
<1>7. IsSum(h)
      BY <1>5, <1>6
<1>8. PICK g : IsSum(g) /\ SumFunction(fun) = g[S]
      BY <1>3, <1>7, Zenon
<1>9. IsFold(g, bag, S)
      BY <1>5, <1>8
<1>10. g[S] = h[S]
  <2>2. IsFold(h, bag, S)
        BY <1>6
  <2> QED
      BY <1>9, <2>2, FoldIsUnique
<1> QED
    BY <1>1, <1>6, <1>8, <1>10

\* The sizes of the parts into which a label divides a finite set.
LEMMA SumDivides ==
    ASSUME NEW X, IsFiniteSet(X), NEW S, IsFiniteSet(S), NEW f,
           \A i \in X : f[i] \in S,
           NEW g, S = DOMAIN g,
           \A s \in S : g[s] = Cardinality({i \in X : f[i] = s})
    PROVE  SumFunction(g) = Cardinality(X)
<1>1. PICK bag : bag = AsTokens(g, S)
      OBVIOUS
<1>2. PICK P : P = [s \in S |-> {i \in X : f[i] = s}]
      OBVIOUS
<1>3. \A s \in S : P[s] \in SUBSET X /\ IsFiniteSet(P[s]) /\ Cardinality(P[s]) \in Nat
      BY <1>2, FS_Subset, FS_CardinalityType
<1>4. \A s \in S : bag[s].tokens = Cardinality(P[s])
      BY <1>1, <1>2 DEF AsTokens
<1>5. PICK N \in Nat : N = Cardinality(S)
      BY FS_CardinalityType
<1> DEFINE Upto(T) == {i \in X : f[i] \in T}
           H == {n \in 0..N : \A T \in SUBSET S : Cardinality(T) = n =>
                                 Spent(bag, T) = Cardinality(Upto(T))}
<1>6. 0 \in H
  <2>1. ASSUME NEW T \in SUBSET S, Cardinality(T) = 0
        PROVE  Spent(bag, T) = Cardinality(Upto(T))
    <3>1. IsFiniteSet(T) /\ T = {}
          BY <2>1, FS_Subset, FS_EmptySet
    <3>2. Upto(T) = {}
          BY <3>1
    <3>3. Cardinality(Upto(T)) = 0
          BY <3>2, FS_EmptySet
    <3>4. Counted(bag, T)
          BY <3>1 DEF Counted
    <3> QED
        BY <3>1, <3>3, <3>4, SpentCounts
  <2> QED
      BY <2>1
<1>7. ASSUME NEW n \in 1..N, n - 1 \in H PROVE n \in H
  <2> SUFFICES ASSUME NEW T \in SUBSET S, Cardinality(T) = n
               PROVE  Spent(bag, T) = Cardinality(Upto(T))
      OBVIOUS
  <2>1. IsFiniteSet(T)
        BY FS_Subset
  <2>2. PICK s \in T : TRUE
    <3>1. T # {}
      <4>1. Cardinality({}) = 0
            BY FS_EmptySet
      <4> QED
          BY <4>1
    <3> QED
        BY <3>1
  <2>3. PICK R : R = T \ {s}
        OBVIOUS
  <2>4. R \in SUBSET S /\ IsFiniteSet(R) /\ Cardinality(R) = n - 1
        BY <2>1, <2>2, <2>3, FS_RemoveElement
  <2>5. Spent(bag, R) = Cardinality(Upto(R))
        BY <1>7, <2>4
  <2>6. R \cup {s} = T /\ s \notin R /\ s \in S
        BY <2>2, <2>3
  <2>7. Counted(bag, R \cup {s})
        BY <1>3, <1>4, <2>6 DEF Counted
  <2>8. Spent(bag, R \cup {s}) = Spent(bag, R) + bag[s].tokens
        BY <2>4, <2>6, <2>7, SpentAdds
  <2>9. PICK U, V : U = Upto(R) /\ V = P[s]
        OBVIOUS
  <2>10. Upto(T) = U \cup V /\ U \cap V = {}
         BY <1>2, <2>6, <2>9
  <2>11. IsFiniteSet(U) /\ IsFiniteSet(V)
    <3>1. U \in SUBSET X
          BY <2>9
    <3> QED
        BY <1>3, <2>6, <2>9, <3>1, FS_Subset
  <2>12. Cardinality(U \cup V) = Cardinality(U) + Cardinality(V)
    <3>1. /\ Cardinality(U \cup V)
               = Cardinality(U) + Cardinality(V) - Cardinality(U \cap V)
          /\ Cardinality(U) \in Nat /\ Cardinality(V) \in Nat
          BY <2>11, FS_Union, FS_CardinalityType
    <3>2. U \cap V = {}
          BY <2>10
    <3>3. Cardinality(U \cap V) = 0
          BY <3>2, FS_EmptySet
    <3> QED
        BY <3>1, <3>3
  <2> QED
      BY <1>4, <2>5, <2>6, <2>8, <2>9, <2>10, <2>12
<1>8. \A n \in 0..N : n \in H
  <2> HIDE DEF H
  <2> QED
      BY <1>6, <1>7, UpTo
<1>9. Spent(bag, S) = Cardinality(Upto(S))
      BY <1>5, <1>8
<1>10. Upto(S) = X
       OBVIOUS
<1> QED
    BY <1>1, <1>9, <1>10, SumIsSpent

-----------------------------------------------------------------------------
\* Lists joined, one for each position.
LEMMA JoinedLists ==
    ASSUME NEW T, NEW n \in Nat, NEW ss, DOMAIN ss = 1..n,
           ss = [i \in 1..n |-> ss[i]], \A i \in 1..n : ss[i] \in Seq(T)
    PROVE  FlattenSeq(ss) \in Seq(T)
<1>1. PICK S : S = Seq(T)
      OBVIOUS
<1>2. ss \in [1..n -> S]
      BY <1>1
<1>3. ss \in Seq(S)
      BY <1>2, IsASeq
<1> QED
    BY <1>1, <1>3, FlattenFacts

\* Three loops, one in the other, make a list of cells.
LEMMA BehaviorGrid ==
    ASSUME NEW faults, faults \in Seq(ToSet(faults)),
           NEW seeds, seeds \in Seq(ToSet(seeds)),
           NEW models, models \in Seq(ToSet(models)), NEW runs \in Nat
    PROVE  \E T : build_grid(faults, seeds, models, runs) \in Seq(T)
<1>1. PICK fs : fs = Append(faults, None)
      OBVIOUS
<1>2. PICK T : T = {ExperimentCell(p[1], p[2], p[3], p[4], None) :
                      p \in {fs[i] : i \in DOMAIN fs}
                              \X {seeds[i] : i \in DOMAIN seeds}
                              \X {models[i] : i \in DOMAIN models} \X (1..runs)}
      OBVIOUS
<1>3. PICK nf \in Nat, ns \in Nat, nm \in Nat :
          DOMAIN fs = 1..nf /\ DOMAIN seeds = 1..ns /\ DOMAIN models = 1..nm
  <2>1. PICK F : F = ToSet(faults) \cup {None}
        OBVIOUS
  <2>2. \A x \in ToSet(faults) : x \in F
        BY <2>1
  <2>3. faults \in Seq(F) /\ None \in F
        BY <2>1, <2>2
  <2>4. fs \in Seq(F)
        BY <1>1, <2>3
  <2> QED
      BY <2>4
<1> DEFINE L3(f, s, m) == [r \in 1..runs |-> ExperimentCell(f, s, m, r, None)]
           L2(f, s) == FlattenSeq([i \in DOMAIN models |-> L3(f, s, models[i])])
           L1(f) == FlattenSeq([i \in DOMAIN seeds |-> L2(f, seeds[i])])
<1>4. build_grid(faults, seeds, models, runs)
          = FlattenSeq([i \in DOMAIN fs |-> L1(fs[i])])
      BY <1>1 DEF build_grid, ForEach
<1>5. ASSUME NEW i \in 1..nf, NEW j \in 1..ns, NEW k \in 1..nm
      PROVE  L3(fs[i], seeds[j], models[k]) \in Seq(T)
  <2>1. \A r \in 1..runs : ExperimentCell(fs[i], seeds[j], models[k], r, None) \in T
    <3> SUFFICES ASSUME NEW r \in 1..runs
                 PROVE  ExperimentCell(fs[i], seeds[j], models[k], r, None) \in T
        OBVIOUS
    <3>1. PICK p : p = <<fs[i], seeds[j], models[k], r>>
          OBVIOUS
    <3>2. /\ p[1] = fs[i] /\ p[2] = seeds[j] /\ p[3] = models[k] /\ p[4] = r
          /\ p \in {fs[x] : x \in DOMAIN fs} \X {seeds[x] : x \in DOMAIN seeds}
                     \X {models[x] : x \in DOMAIN models} \X (1..runs)
          BY <1>3, <3>1
    <3> QED
        BY <1>2, <3>2
  <2>2. [r \in 1..runs |-> ExperimentCell(fs[i], seeds[j], models[k], r, None)]
            \in [1..runs -> T]
        BY <2>1
  <2> QED
      BY <2>2, IsASeq
<1> HIDE DEF L3
<1>6. ASSUME NEW i \in 1..nf, NEW j \in 1..ns PROVE L2(fs[i], seeds[j]) \in Seq(T)
  <2>1. PICK ss : ss = [k \in DOMAIN models |-> L3(fs[i], seeds[j], models[k])]
        OBVIOUS
  <2>2. /\ DOMAIN ss = 1..nm /\ ss = [k \in 1..nm |-> ss[k]]
        /\ \A k \in 1..nm : ss[k] \in Seq(T)
        BY <1>3, <1>5, <2>1
  <2> QED
      BY <2>1, <2>2, JoinedLists
<1> HIDE DEF L2
<1>7. ASSUME NEW i \in 1..nf PROVE L1(fs[i]) \in Seq(T)
  <2>1. PICK ss : ss = [j \in DOMAIN seeds |-> L2(fs[i], seeds[j])]
        OBVIOUS
  <2>2. /\ DOMAIN ss = 1..ns /\ ss = [j \in 1..ns |-> ss[j]]
        /\ \A j \in 1..ns : ss[j] \in Seq(T)
        BY <1>3, <1>6, <2>1
  <2> QED
      BY <2>1, <2>2, JoinedLists
<1> HIDE DEF L1
<1>8. PICK ss : ss = [i \in DOMAIN fs |-> L1(fs[i])]
      OBVIOUS
<1>9. /\ DOMAIN ss = 1..nf /\ ss = [i \in 1..nf |-> ss[i]]
      /\ \A i \in 1..nf : ss[i] \in Seq(T)
      BY <1>3, <1>7, <1>8
<1>10. FlattenSeq(ss) \in Seq(T)
       BY <1>9, JoinedLists
<1> QED
    BY <1>4, <1>8, <1>10

\* So do those of the evidence grid.
LEMMA EvidenceGrid ==
    ASSUME NEW faults, faults \in Seq(ToSet(faults)),
           NEW seeds, seeds \in Seq(ToSet(seeds)),
           NEW models, models \in Seq(ToSet(models)), NEW runs \in Nat
    PROVE  \E T : build_evidence_grid(faults, seeds, models, runs) \in Seq(T)
<1>1. PICK fs : fs = <<None>> \o faults
      OBVIOUS
<1>2. PICK T : T = {ExperimentCell(None, p[2], p[3], p[4], p[1]) :
                      p \in {fs[i] : i \in DOMAIN fs}
                              \X {seeds[i] : i \in DOMAIN seeds}
                              \X {models[i] : i \in DOMAIN models} \X (1..runs)}
      OBVIOUS
<1>3. PICK nf \in Nat, ns \in Nat, nm \in Nat :
          DOMAIN fs = 1..nf /\ DOMAIN seeds = 1..ns /\ DOMAIN models = 1..nm
  <2>1. PICK F : F = ToSet(faults) \cup {None}
        OBVIOUS
  <2>2. \A x \in ToSet(faults) : x \in F
        BY <2>1
  <2>3. faults \in Seq(F) /\ None \in F
        BY <2>1, <2>2
  <2>4. fs \in Seq(F)
        BY <1>1, <2>3
  <2> QED
      BY <2>4
<1> DEFINE L3(f, s, m) == [r \in 1..runs |-> ExperimentCell(None, s, m, r, f)]
           L2(f, s) == FlattenSeq([i \in DOMAIN models |-> L3(f, s, models[i])])
           L1(f) == FlattenSeq([i \in DOMAIN seeds |-> L2(f, seeds[i])])
<1>4. build_evidence_grid(faults, seeds, models, runs)
          = FlattenSeq([i \in DOMAIN fs |-> L1(fs[i])])
      BY <1>1 DEF build_evidence_grid, ForEach
<1>5. ASSUME NEW i \in 1..nf, NEW j \in 1..ns, NEW k \in 1..nm
      PROVE  L3(fs[i], seeds[j], models[k]) \in Seq(T)
  <2>1. \A r \in 1..runs : ExperimentCell(None, seeds[j], models[k], r, fs[i]) \in T
    <3> SUFFICES ASSUME NEW r \in 1..runs
                 PROVE  ExperimentCell(None, seeds[j], models[k], r, fs[i]) \in T
        OBVIOUS
    <3>1. PICK p : p = <<fs[i], seeds[j], models[k], r>>
          OBVIOUS
    <3>2. /\ p[1] = fs[i] /\ p[2] = seeds[j] /\ p[3] = models[k] /\ p[4] = r
          /\ p \in {fs[x] : x \in DOMAIN fs} \X {seeds[x] : x \in DOMAIN seeds}
                     \X {models[x] : x \in DOMAIN models} \X (1..runs)
          BY <1>3, <3>1
    <3> QED
        BY <1>2, <3>2
  <2>2. [r \in 1..runs |-> ExperimentCell(None, seeds[j], models[k], r, fs[i])]
            \in [1..runs -> T]
        BY <2>1
  <2> QED
      BY <2>2, IsASeq
<1> HIDE DEF L3
<1>6. ASSUME NEW i \in 1..nf, NEW j \in 1..ns PROVE L2(fs[i], seeds[j]) \in Seq(T)
  <2>1. PICK ss : ss = [k \in DOMAIN models |-> L3(fs[i], seeds[j], models[k])]
        OBVIOUS
  <2>2. /\ DOMAIN ss = 1..nm /\ ss = [k \in 1..nm |-> ss[k]]
        /\ \A k \in 1..nm : ss[k] \in Seq(T)
        BY <1>3, <1>5, <2>1
  <2> QED
      BY <2>1, <2>2, JoinedLists
<1> HIDE DEF L2
<1>7. ASSUME NEW i \in 1..nf PROVE L1(fs[i]) \in Seq(T)
  <2>1. PICK ss : ss = [j \in DOMAIN seeds |-> L2(fs[i], seeds[j])]
        OBVIOUS
  <2>2. /\ DOMAIN ss = 1..ns /\ ss = [j \in 1..ns |-> ss[j]]
        /\ \A j \in 1..ns : ss[j] \in Seq(T)
        BY <1>3, <1>6, <2>1
  <2> QED
      BY <2>1, <2>2, JoinedLists
<1> HIDE DEF L1
<1>8. PICK ss : ss = [i \in DOMAIN fs |-> L1(fs[i])]
      OBVIOUS
<1>9. /\ DOMAIN ss = 1..nf /\ ss = [i \in 1..nf |-> ss[i]]
      /\ \A i \in 1..nf : ss[i] \in Seq(T)
      BY <1>3, <1>7, <1>8
<1>10. FlattenSeq(ss) \in Seq(T)
       BY <1>9, JoinedLists
<1> QED
    BY <1>4, <1>8, <1>10

\* And those of the false-assurance grid.
LEMMA CrossedGrid ==
    ASSUME NEW behaviors, behaviors \in Seq(ToSet(behaviors)),
           NEW telemetries, telemetries \in Seq(ToSet(telemetries)),
           NEW seeds, seeds \in Seq(ToSet(seeds)),
           NEW models, models \in Seq(ToSet(models))
    PROVE  \E T : build_false_assurance_grid(behaviors, telemetries, seeds, models)
                     \in Seq(T)
<1>1. PICK fs, es : fs = <<None>> \o behaviors /\ es = <<None>> \o telemetries
      OBVIOUS
<1>2. PICK T : T = {ExperimentCell(p[1], p[3], p[4], 1, p[2]) :
                      p \in {fs[i] : i \in DOMAIN fs} \X {es[i] : i \in DOMAIN es}
                              \X {seeds[i] : i \in DOMAIN seeds}
                              \X {models[i] : i \in DOMAIN models}}
      OBVIOUS
<1>3. PICK nf \in Nat, ne \in Nat, ns \in Nat, nm \in Nat :
          /\ DOMAIN fs = 1..nf /\ DOMAIN es = 1..ne
          /\ DOMAIN seeds = 1..ns /\ DOMAIN models = 1..nm
  <2>1. ASSUME NEW p, p \in Seq(ToSet(p)), NEW q, q = <<None>> \o p
        PROVE  \E n \in Nat : DOMAIN q = 1..n
    <3>1. PICK F : F = ToSet(p) \cup {None}
          OBVIOUS
    <3>2. \A x \in ToSet(p) : x \in F
          BY <3>1
    <3>3. p \in Seq(F) /\ <<None>> \in Seq(F)
          BY <2>1, <3>1, <3>2
    <3>4. q \in Seq(F)
          BY <2>1, <3>3
    <3> QED
        BY <3>4
  <2>2. (\E n \in Nat : DOMAIN fs = 1..n) /\ (\E n \in Nat : DOMAIN es = 1..n)
        BY <1>1, <2>1
  <2>3. (\E n \in Nat : DOMAIN seeds = 1..n) /\ (\E n \in Nat : DOMAIN models = 1..n)
        OBVIOUS
  <2> QED
      BY <2>2, <2>3
<1> DEFINE L3(f, e, s) == [k \in DOMAIN models |-> ExperimentCell(f, s, models[k], 1, e)]
           L2(f, e) == FlattenSeq([i \in DOMAIN seeds |-> L3(f, e, seeds[i])])
           L1(f) == FlattenSeq([i \in DOMAIN es |-> L2(f, es[i])])
<1>4. build_false_assurance_grid(behaviors, telemetries, seeds, models)
          = FlattenSeq([i \in DOMAIN fs |-> L1(fs[i])])
      BY <1>1 DEF build_false_assurance_grid, ForEach
<1>5. ASSUME NEW i \in 1..nf, NEW j \in 1..ne, NEW k \in 1..ns
      PROVE  L3(fs[i], es[j], seeds[k]) \in Seq(T)
  <2>1. \A r \in 1..nm : ExperimentCell(fs[i], seeds[k], models[r], 1, es[j]) \in T
    <3> SUFFICES ASSUME NEW r \in 1..nm
                 PROVE  ExperimentCell(fs[i], seeds[k], models[r], 1, es[j]) \in T
        OBVIOUS
    <3>1. PICK p : p = <<fs[i], es[j], seeds[k], models[r]>>
          OBVIOUS
    <3>2. /\ p[1] = fs[i] /\ p[2] = es[j] /\ p[3] = seeds[k] /\ p[4] = models[r]
          /\ p \in {fs[x] : x \in DOMAIN fs} \X {es[x] : x \in DOMAIN es}
                     \X {seeds[x] : x \in DOMAIN seeds}
                     \X {models[x] : x \in DOMAIN models}
          BY <1>3, <3>1
    <3> QED
        BY <1>2, <3>2
  <2>2. [r \in 1..nm |-> ExperimentCell(fs[i], seeds[k], models[r], 1, es[j])]
            \in [1..nm -> T]
        BY <2>1
  <2> QED
      BY <1>3, <2>2, IsASeq
<1> HIDE DEF L3
<1>6. ASSUME NEW i \in 1..nf, NEW j \in 1..ne PROVE L2(fs[i], es[j]) \in Seq(T)
  <2>1. PICK ss : ss = [k \in DOMAIN seeds |-> L3(fs[i], es[j], seeds[k])]
        OBVIOUS
  <2>2. /\ DOMAIN ss = 1..ns /\ ss = [k \in 1..ns |-> ss[k]]
        /\ \A k \in 1..ns : ss[k] \in Seq(T)
        BY <1>3, <1>5, <2>1
  <2> QED
      BY <2>1, <2>2, JoinedLists
<1> HIDE DEF L2
<1>7. ASSUME NEW i \in 1..nf PROVE L1(fs[i]) \in Seq(T)
  <2>1. PICK ss : ss = [j \in DOMAIN es |-> L2(fs[i], es[j])]
        OBVIOUS
  <2>2. /\ DOMAIN ss = 1..ne /\ ss = [j \in 1..ne |-> ss[j]]
        /\ \A j \in 1..ne : ss[j] \in Seq(T)
        BY <1>3, <1>6, <2>1
  <2> QED
      BY <2>1, <2>2, JoinedLists
<1> HIDE DEF L1
<1>8. PICK ss : ss = [i \in DOMAIN fs |-> L1(fs[i])]
      OBVIOUS
<1>9. /\ DOMAIN ss = 1..nf /\ ss = [i \in 1..nf |-> ss[i]]
      /\ \A i \in 1..nf : ss[i] \in Seq(T)
      BY <1>3, <1>7, <1>8
<1>10. FlattenSeq(ss) \in Seq(T)
       BY <1>9, JoinedLists
<1> QED
    BY <1>4, <1>8, <1>10

-----------------------------------------------------------------------------
\* Some list: the set of its entries is of no interest.
IsList(p) == \E T : p \in Seq(T)

\* The two files are as long as each other, no longer than the grid, and have
\* the cells of the grid in its order, with the two findings of one outcome.
GridInv ==
    /\ IsList(grid) /\ IsList(a) /\ IsList(b)
    /\ Len(a) = Len(b) /\ Len(a) <= Len(grid)
    /\ \A i \in DOMAIN a : \E outcome \in Outcomes :
          /\ a[i] = CellResult(grid[i], outcome[1])
          /\ b[i] = CellResult(grid[i], outcome[2])

\* A list is a function on 1..n.
LEMMA ListFacts ==
    ASSUME NEW p, IsList(p)
    PROVE  Len(p) \in Nat /\ DOMAIN p = 1..Len(p) /\ p = [i \in 1..Len(p) |-> p[i]]
BY DEF IsList

\* q is p and one more entry, x.
OneMore(q, p, x) ==
    /\ IsList(q) /\ Len(q) = Len(p) + 1 /\ q[Len(p) + 1] = x
    /\ \A k \in 1..Len(p) : q[k] = p[k]

\* Append adds one entry at the end.
LEMMA ListGrows ==
    ASSUME NEW p, IsList(p), NEW x
    PROVE  OneMore(Append(p, x), p, x)
<1> PICK q, m : q = Append(p, x) /\ m = Len(p)
    OBVIOUS
<1>1. PICK T : p \in Seq(T)
      BY DEF IsList
<1>2. PICK U : U = T \cup {x}
      OBVIOUS
<1>3. p \in Seq(U) /\ x \in U
      BY <1>1, <1>2
<1>4. q \in Seq(U) /\ Len(q) = m + 1 /\ q[m + 1] = x /\ \A k \in 1..m : q[k] = p[k]
      BY <1>3, Appended
<1> QED
    BY <1>4 DEF IsList, OneMore

\* The empty list is a list.
LEMMA EmptyList == IsList(<<>>) /\ Len(<<>>) = 0
<1>1. <<>> \in Seq(Nat)
      OBVIOUS
<1> QED
    BY <1>1 DEF IsList

\* The invariant of the two files holds before the first cell is run.
LEMMA GridInit == Init => GridInv
<1> SUFFICES ASSUME Init PROVE GridInv
    OBVIOUS
<1>1. a = <<>> /\ b = <<>> /\ (grid \in Grids \/ grid = <<>>)
      BY DEF Init
<1>2. IsList(grid)
  <2>1. CASE grid \in Grids
    <3>1. IsList(build_grid(Behaviors, Seeds, Models, Runs))
          BY GridsAssumption, BehaviorGrid DEF IsList
    <3>2. IsList(build_evidence_grid(Telemetries, Seeds, Models, Runs))
          BY GridsAssumption, EvidenceGrid DEF IsList
    <3>3. IsList(build_false_assurance_grid(Behaviors, Telemetries, Seeds, Models))
          BY GridsAssumption, CrossedGrid DEF IsList
    <3> QED
        BY <2>1, <3>1, <3>2, <3>3 DEF Grids
  <2> QED
      BY <1>1, <2>1, EmptyList
<1>3. IsList(a) /\ IsList(b) /\ Len(a) = 0 /\ Len(b) = 0
      BY <1>1, EmptyList
<1>4. Len(grid) \in Nat /\ DOMAIN a = 1..0
      BY <1>2, <1>3, ListFacts
<1> QED
    BY <1>2, <1>3, <1>4 DEF GridInv

\* Every step keeps the invariant of the two files.
LEMMA GridNext == GridInv /\ [Next]_vars => GridInv'
<1> SUFFICES ASSUME GridInv, [Next]_vars PROVE GridInv'
    OBVIOUS
<1>1. CASE UNCHANGED gridVars
      BY <1>1 DEF GridInv, gridVars
<1>2. ASSUME NEW o \in Outcomes, RunCell(o) PROVE GridInv'
  <2>1. PICK p, q, g, n : p = a /\ q = b /\ g = grid /\ n = Len(p)
        OBVIOUS
  <2>2. /\ IsList(p) /\ IsList(q) /\ IsList(g) /\ Len(q) = n /\ n <= Len(g)
        /\ \A i \in DOMAIN p : \E outcome \in Outcomes :
              /\ p[i] = CellResult(g[i], outcome[1])
              /\ q[i] = CellResult(g[i], outcome[2])
        BY <2>1 DEF GridInv
  <2>3. PICK x, y : x = CellResult(g[n + 1], o[1]) /\ y = CellResult(g[n + 1], o[2])
        OBVIOUS
  <2>4. PICK u, v : u = Append(p, x) /\ v = Append(q, y)
        OBVIOUS
  <2>5. n < Len(g) /\ a' = u /\ b' = v /\ grid' = g
        BY <1>2, <2>1, <2>2, <2>3, <2>4 DEF RunCell
  <2>5a. IsList(p) /\ IsList(q) /\ n = Len(p) /\ n = Len(q) 
        BY <2>1, <2>2
  <2>5b. u = Append(p, x) /\ v = Append(q, y)
        BY <2>4
  <2>5c. OneMore(u, p, x) /\ OneMore(v, q, y)
        BY <2>5a, <2>5b, ListGrows
  <2>6. /\ IsList(u) /\ Len(u) = n + 1 /\ u[n + 1] = x
        /\ \A k \in 1..n : u[k] = p[k]
        BY <2>5a, <2>5c DEF OneMore
  <2>7. /\ IsList(v) /\ Len(v) = n + 1 /\ v[n + 1] = y
        /\ \A k \in 1..n : v[k] = q[k]
        BY <2>5a, <2>5c DEF OneMore
  <2>8. n \in Nat /\ DOMAIN p = 1..n /\ DOMAIN u = 1..n + 1 /\ Len(g) \in Nat
        BY <2>1, <2>2, <2>6, ListFacts
  <2>9. n + 1 <= Len(g)
        BY <2>5, <2>8
  <2>10. \A i \in 1..n + 1 : i \in 1..n \/ i = n + 1
         BY <2>8
  <2>11. ASSUME NEW i \in DOMAIN u
         PROVE  \E outcome \in Outcomes : /\ u[i] = CellResult(g[i], outcome[1])
                                         /\ v[i] = CellResult(g[i], outcome[2])
    <3>1. CASE i \in 1..n
          BY <2>2, <2>6, <2>7, <2>8, <3>1
    <3>2. CASE i = n + 1
          BY <2>3, <2>6, <2>7, <3>2
    <3> QED
        BY <2>8, <2>10, <3>1, <3>2
  <2> QED
      BY <2>2, <2>5, <2>6, <2>7, <2>9, <2>11 DEF GridInv
<1>3. ASSUME NEW s \in ToSet(trace), Arrive(s) PROVE GridInv'
  <2>1. UNCHANGED gridVars
        BY <1>3 DEF Arrive
  <2> QED
      BY <1>1, <2>1
<1>4. ASSUME NEW f, NEW g, JudgeCell(f, g) PROVE GridInv'
  <2>1. UNCHANGED gridVars
        BY <1>4 DEF JudgeCell
  <2> QED
      BY <1>1, <2>1
<1> QED
    BY <1>1, <1>2, <1>3, <1>4 DEF Next, vars

\* GridInv is an invariant of Experiments: both results files are prefixes of
\* one run of the grid (experiments/run.py).
THEOREM GridInvariant == Spec => []GridInv
<1>1. Init => GridInv
      BY GridInit
<1>2. GridInv /\ [Next]_vars => GridInv'
      BY GridNext
<1> QED
    BY <1>1, <1>2, PTL DEF Spec

-----------------------------------------------------------------------------
\* A cell has one of the verdicts, and one whose evidence has a gap abstains,
\* unless a verifier other than the judge saw a violation.
VerdictNames == {"PASS", "FAIL", "FLAGGED", "INCONCLUSIVE", "NO_REPORT"}

JudgeAloneObjects(findings) ==
    \A f \in Rated(findings) : f.severity = "critical" => f.verifier = "judge"

IsResult(c) ==
    /\ c.verdict \in VerdictNames
    /\ EvidenceGaps(c.findings) # {} /\ JudgeAloneObjects(c.findings)
          => c.verdict = "INCONCLUSIVE"

\* CellResult keeps the cell's coordinates and is judged when there is a report.
LEMMA CellFacts ==
    ASSUME NEW cell, NEW found, NEW c, c = CellResult(cell, found)
    PROVE  /\ IsResult(c)
           /\ c.fault = cell.fault /\ c.seed = cell.seed /\ c.model = cell.model
           /\ c.run = cell.run /\ c.evidence = cell.evidence
           /\ c.judged <=> found # NoReport
<1>1. /\ c.fault = cell.fault /\ c.seed = cell.seed /\ c.model = cell.model
      /\ c.run = cell.run /\ c.evidence = cell.evidence
      /\ c.judged <=> found # NoReport
      BY DEF CellResult
<1>2. CASE found = NoReport
  <2>1. c.verdict = "NO_REPORT" /\ c.findings = {}
        BY <1>2 DEF CellResult
  <2>2. EvidenceGaps(c.findings) = {}
        BY <2>1 DEF EvidenceGaps
  <2> QED
      BY <1>1, <2>1, <2>2 DEF IsResult, VerdictNames
<1>3. CASE found # NoReport
  <2>1. c.verdict = verdictFor(found) /\ c.findings = found
        BY <1>3 DEF CellResult
  <2>2. verdictFor(found) \in VerdictNames
        BY DEF verdictFor, VerdictNames
  <2>3. JudgeAloneObjects(found) => ~DetCritical(found)
        BY DEF JudgeAloneObjects, DetCritical, JudgeOpinion
  <2>4. EvidenceGaps(found) # {} /\ JudgeAloneObjects(found)
            => verdictFor(found) = "INCONCLUSIVE"
        BY <2>3 DEF verdictFor
  <2> QED
      BY <1>1, <2>1, <2>2, <2>4 DEF IsResult
<1> QED
    BY <1>2, <1>3

-----------------------------------------------------------------------------
\* Two sets with nothing in common, and what is left of a set.
LEMMA ApartSizes ==
    ASSUME NEW X, IsFiniteSet(X), NEW U \in SUBSET X
    PROVE  /\ Cardinality(X) = Cardinality(U) + Cardinality(X \ U)
           /\ Cardinality(X) \in Nat /\ Cardinality(U) \in Nat
           /\ Cardinality(X \ U) \in Nat
<1> PICK V : V = X \ U
    OBVIOUS
<1>1. IsFiniteSet(U) /\ IsFiniteSet(V)
  <2>1. V \in SUBSET X
        OBVIOUS
  <2> QED
      BY <2>1, FS_Subset
<1>2. /\ Cardinality(U \cup V)
           = Cardinality(U) + Cardinality(V) - Cardinality(U \cap V)
      /\ Cardinality(U) \in Nat /\ Cardinality(V) \in Nat
      BY <1>1, FS_Union, FS_CardinalityType
<1>3. U \cup V = X /\ U \cap V = {}
      OBVIOUS
<1>4. Cardinality(U \cap V) = 0
      BY <1>3, FS_EmptySet
<1>5. Cardinality(X) \in Nat
      BY FS_CardinalityType
<1>6. Cardinality(X) = Cardinality(U) + Cardinality(V) - 0
  <2>1. Cardinality(X) = Cardinality(U \cup V)
        BY <1>3
  <2> QED
      BY <1>2, <1>4, <2>1
<1> QED
    BY <1>2, <1>5, <1>6

-----------------------------------------------------------------------------
\* The cells of one condition, and those of them with one of some verdicts.
Within(p, cond) == {i \in DOMAIN p : condition_of(p[i]) = cond}

Ended(p, cond, V) == {i \in DOMAIN p : condition_of(p[i]) = cond /\ p[i].verdict \in V}

\* The four-condition table counts them.
LEMMA TableRows ==
    ASSUME NEW p, NEW table, table = condition_summary(p)
    PROVE  /\ DOMAIN table = {condition_of(c) : c \in ToSet(p)}
           /\ \A cond \in DOMAIN table :
                /\ table[cond].passes.runs = Cardinality(Within(p, cond))
                /\ table[cond].passes.hits = Cardinality(Ended(p, cond, {"PASS"}))
                /\ table[cond].fails.hits
                      = Cardinality(Ended(p, cond, {"FAIL", "FLAGGED"}))
                /\ table[cond].inconclusive.hits
                      = Cardinality(Ended(p, cond, {"INCONCLUSIVE"}))
                /\ table[cond].passes
                      = Rate(table[cond].passes.hits, table[cond].passes.runs)
<1>1. DOMAIN table = {condition_of(c) : c \in ToSet(p)}
      BY DEF condition_summary
<1>2. ASSUME NEW cond \in DOMAIN table
      PROVE  /\ table[cond].passes
                   = Rate(Cardinality({i \in DOMAIN p :
                               condition_of(p[i]) = cond /\ Passed(p[i])}),
                          Cardinality(Within(p, cond)))
             /\ table[cond].fails.hits
                   = Cardinality({i \in DOMAIN p :
                               condition_of(p[i]) = cond /\ Caught(p[i])})
             /\ table[cond].inconclusive.hits
                   = Cardinality({i \in DOMAIN p :
                               condition_of(p[i]) = cond /\ Abstained(p[i])})
      BY <1>1 DEF condition_summary, Share, HowMany, Rate, Within
<1>3. ASSUME NEW cond
      PROVE  /\ {i \in DOMAIN p : condition_of(p[i]) = cond /\ Passed(p[i])}
                   = Ended(p, cond, {"PASS"})
             /\ {i \in DOMAIN p : condition_of(p[i]) = cond /\ Caught(p[i])}
                   = Ended(p, cond, {"FAIL", "FLAGGED"})
             /\ {i \in DOMAIN p : condition_of(p[i]) = cond /\ Abstained(p[i])}
                   = Ended(p, cond, {"INCONCLUSIVE"})
      BY DEF Ended, Passed, Caught, Abstained
<1>4. ASSUME NEW cond \in DOMAIN table
      PROVE  /\ table[cond].passes = Rate(Cardinality(Ended(p, cond, {"PASS"})),
                                          Cardinality(Within(p, cond)))
             /\ table[cond].fails.hits
                   = Cardinality(Ended(p, cond, {"FAIL", "FLAGGED"}))
             /\ table[cond].inconclusive.hits
                   = Cardinality(Ended(p, cond, {"INCONCLUSIVE"}))
      BY <1>2, <1>3
<1>5. ASSUME NEW cond \in DOMAIN table
      PROVE  /\ table[cond].passes.runs = Cardinality(Within(p, cond))
             /\ table[cond].passes.hits = Cardinality(Ended(p, cond, {"PASS"}))
             /\ table[cond].passes
                   = Rate(table[cond].passes.hits, table[cond].passes.runs)
  <2>1. PICK x, y : /\ x = Cardinality(Ended(p, cond, {"PASS"}))
                    /\ y = Cardinality(Within(p, cond))
        OBVIOUS
  <2>2. table[cond].passes = Rate(x, y)
        BY <1>4, <2>1
  <2>3. Rate(x, y).hits = x /\ Rate(x, y).runs = y
        BY DEF Rate
  <2> QED
      BY <2>1, <2>2, <2>3
<1> QED
    BY <1>1, <1>4, <1>5

-----------------------------------------------------------------------------
\* What is in a condition, and what becomes of it.
LEMMA WithinFacts ==
    ASSUME NEW p, IsList(p), NEW cond, NEW V
    PROVE  /\ IsFiniteSet(DOMAIN p) /\ Cardinality(DOMAIN p) = Len(p)
           /\ Ended(p, cond, V) \in SUBSET Within(p, cond)
           /\ Within(p, cond) \in SUBSET DOMAIN p
           /\ IsFiniteSet(Within(p, cond)) /\ IsFiniteSet(Ended(p, cond, V))
<1>1. PICK n \in Nat : n = Len(p) /\ DOMAIN p = 1..n
      BY ListFacts
<1>2. IsFiniteSet(1..n) /\ Cardinality(1..n) = n
  <2>1. 1 \in Int /\ n \in Int
        OBVIOUS
  <2>2. /\ IsFiniteSet(1..n)
        /\ Cardinality(1..n) = IF 1 > n THEN 0 ELSE n - 1 + 1
        BY <2>1, FS_Interval
  <2> QED
      BY <2>2
<1>3. /\ Ended(p, cond, V) \in SUBSET Within(p, cond)
      /\ Within(p, cond) \in SUBSET DOMAIN p
      BY DEF Ended, Within
<1>4. IsFiniteSet(Within(p, cond)) /\ IsFiniteSet(Ended(p, cond, V))
  <2>1. Ended(p, cond, V) \in SUBSET (1..n) /\ Within(p, cond) \in SUBSET (1..n)
        BY <1>1, <1>3
  <2> QED
      BY <1>2, <2>1, FS_Subset
<1> QED
    BY <1>1, <1>2, <1>3, <1>4

\* The conditions that occur.
LEMMA ConditionsFinite ==
    ASSUME NEW p, IsList(p), NEW f
    PROVE  IsFiniteSet({f[c] : c \in ToSet(p)}) /\ IsFiniteSet(ToSet(p))
<1>1. IsFiniteSet(DOMAIN p)
      BY WithinFacts
<1>2. PICK S : S = DOMAIN p
      OBVIOUS
<1>3. IsFiniteSet({p[i] : i \in S})
      BY <1>1, <1>2, ValuesFinite
<1>4. ToSet(p) = {p[i] : i \in S}
      BY <1>2 DEF ToSet
<1>5. IsFiniteSet(ToSet(p))
      BY <1>3, <1>4
<1> QED
    BY <1>5, ValuesFinite

\* A file has finitely many conditions.
LEMMA TableFinite ==
    ASSUME NEW p, IsList(p)
    PROVE  IsFiniteSet({condition_of(c) : c \in ToSet(p)})
<1>1. PICK f : f = [c \in ToSet(p) |-> condition_of(c)]
      OBVIOUS
<1>2. PICK S, U : S = {f[c] : c \in ToSet(p)} /\ U = {condition_of(c) : c \in ToSet(p)}
      OBVIOUS
<1>3. IsFiniteSet(S)
      BY <1>2, ConditionsFinite
<1>4. S = U
      BY <1>1, <1>2
<1> QED
    BY <1>2, <1>3, <1>4

\* The conditions divide the cells.
LEMMA ConditionsDivide ==
    ASSUME NEW p, IsList(p), NEW table, table = condition_summary(p)
    PROVE  SumFunction([cond \in DOMAIN table |-> table[cond].passes.runs]) = Len(p)
<1>1. PICK X, S : X = DOMAIN p /\ S = DOMAIN table
      OBVIOUS
<1>2. PICK f : f = [i \in X |-> condition_of(p[i])]
      OBVIOUS
<1>3. PICK g : g = [cond \in S |-> table[cond].passes.runs]
      OBVIOUS
<1>4. IsFiniteSet(X) /\ Cardinality(X) = Len(p)
      BY <1>1, WithinFacts
<1>5. S = {condition_of(c) : c \in ToSet(p)}
      BY <1>1, TableRows
<1>6. IsFiniteSet(S)
      BY <1>5, TableFinite
<1>7. \A i \in X : f[i] \in S
      BY <1>1, <1>2, <1>5 DEF ToSet
<1>8. ASSUME NEW s \in S PROVE g[s] = Cardinality({i \in X : f[i] = s})
  <2>1. g[s] = Cardinality(Within(p, s))
        BY <1>1, <1>3, TableRows
  <2>2. {i \in X : f[i] = s} = Within(p, s)
        BY <1>1, <1>2 DEF Within
  <2> QED
      BY <2>1, <2>2
<1>9. S = DOMAIN g
      BY <1>3
<1>10. SumFunction(g) = Cardinality(X)
       BY <1>4, <1>6, <1>7, <1>8, <1>9, SumDivides
<1> QED
    BY <1>1, <1>3, <1>4, <1>10

\* Three parts of a set that have nothing in common and leave nothing out.
LEMMA ThreeParts ==
    ASSUME NEW X, IsFiniteSet(X), NEW A \in SUBSET X, NEW B \in SUBSET X,
           NEW C \in SUBSET X, A \cap B = {}, C = X \ (A \cup B)
    PROVE  Cardinality(A) + Cardinality(B) + Cardinality(C) = Cardinality(X)
<1>1. PICK Y : Y = X \ A
      OBVIOUS
<1>2. /\ Cardinality(X) = Cardinality(A) + Cardinality(Y)
      /\ Cardinality(A) \in Nat /\ Cardinality(Y) \in Nat
      BY <1>1, ApartSizes
<1>3. B \in SUBSET Y /\ C = Y \ B /\ Y \in SUBSET X
      BY <1>1
<1>4. IsFiniteSet(Y)
      BY <1>3, FS_Subset
<1>5. /\ Cardinality(Y) = Cardinality(B) + Cardinality(C)
      /\ Cardinality(B) \in Nat /\ Cardinality(C) \in Nat
  <2>1. PICK U : U = B
        OBVIOUS
  <2>2. PICK V : V = C
        OBVIOUS
  <2>3. U \in SUBSET Y /\ V = Y \ U /\ IsFiniteSet(Y)
        BY <1>3, <1>4, <2>1, <2>2
  <2>4. /\ Cardinality(Y) = Cardinality(U) + Cardinality(V)
        /\ Cardinality(U) \in Nat /\ Cardinality(V) \in Nat
        BY ONLY <2>3, ApartSizes
  <2> QED
      BY <2>1, <2>2, <2>4
<1> QED
    BY <1>2, <1>5

\* The cells that got a report are those that the table has under some verdict.
LEMMA VerdictsDivide ==
    ASSUME NEW p, IsList(p), \A i \in DOMAIN p : p[i].verdict \in VerdictNames,
           NEW table, table = condition_summary(p)
    PROVE  SumFunction([cond \in DOMAIN table |-> table[cond].passes.hits
                + table[cond].fails.hits + table[cond].inconclusive.hits])
             + NoReports(p) = Len(p)
<1>1. PICK X, S, N : /\ X = {i \in DOMAIN p : p[i].verdict # "NO_REPORT"}
                     /\ S = DOMAIN table
                     /\ N = {i \in DOMAIN p : p[i].verdict = "NO_REPORT"}
      OBVIOUS
<1>2. PICK f : f = [i \in X |-> condition_of(p[i])]
      OBVIOUS
<1>3. PICK g : g = [cond \in S |-> table[cond].passes.hits
                       + table[cond].fails.hits + table[cond].inconclusive.hits]
      OBVIOUS
<1>4. PICK D : D = DOMAIN p
      OBVIOUS
<1>5. IsFiniteSet(D) /\ Cardinality(D) = Len(p)
      BY <1>4, WithinFacts
<1>6. /\ N \in SUBSET D /\ X = D \ N
      BY <1>1, <1>4
<1>7. /\ Cardinality(D) = Cardinality(N) + Cardinality(X)
      /\ Cardinality(N) \in Nat /\ Cardinality(X) \in Nat
      BY <1>5, <1>6, ApartSizes
<1>8. IsFiniteSet(X)
  <2>1. X \in SUBSET D
        BY <1>6
  <2> QED
      BY <1>5, <2>1, FS_Subset
<1>9. S = {condition_of(c) : c \in ToSet(p)}
      BY <1>1, TableRows
<1>10. IsFiniteSet(S)
       BY <1>9, TableFinite
<1>11. \A i \in X : f[i] \in S
       BY <1>1, <1>2, <1>9 DEF ToSet
<1>12. ASSUME NEW s \in S PROVE g[s] = Cardinality({i \in X : f[i] = s})
  <2>1. PICK A, B, C, Y : /\ A = Ended(p, s, {"PASS"})
                          /\ B = Ended(p, s, {"FAIL", "FLAGGED"})
                          /\ C = Ended(p, s, {"INCONCLUSIVE"})
                          /\ Y = {i \in X : f[i] = s}
        OBVIOUS
  <2>2. g[s] = Cardinality(A) + Cardinality(B) + Cardinality(C)
        BY <1>1, <1>3, <2>1, TableRows
  <2>3. \A i \in X : /\ i \in D /\ f[i] = condition_of(p[i])
                     /\ p[i].verdict \in {"PASS", "FAIL", "FLAGGED", "INCONCLUSIVE"}
        BY <1>1, <1>2, <1>4 DEF VerdictNames
  <2>4. A \in SUBSET Y /\ B \in SUBSET Y /\ C \in SUBSET Y
        BY <1>1, <1>2, <2>1 DEF Ended
  <2>5. A \cap B = {}
        BY <2>1 DEF Ended
  <2>6. C = Y \ (A \cup B)
    <3>1. \A i \in Y : i \in A \/ i \in B \/ i \in C
          BY <1>4, <2>1, <2>3 DEF Ended
    <3>2. \A i \in C : i \notin A /\ i \notin B
          BY <2>1 DEF Ended
    <3> QED
        BY <2>4, <3>1, <3>2
  <2>7. IsFiniteSet(Y)
    <3>1. Y \in SUBSET X
          BY <2>1
    <3> QED
        BY <1>8, <3>1, FS_Subset
  <2>8. Cardinality(A) + Cardinality(B) + Cardinality(C) = Cardinality(Y)
        BY <2>4, <2>5, <2>6, <2>7, ThreeParts
  <2> QED
      BY <2>1, <2>2, <2>8
<1>13. S = DOMAIN g
       BY <1>3
<1>14. SumFunction(g) = Cardinality(X)
       BY <1>8, <1>10, <1>11, <1>12, <1>13, SumDivides
<1>15. NoReports(p) = Cardinality(N)
       BY <1>1 DEF NoReports, HowMany
<1>16. SumFunction(g) + NoReports(p) = Len(p)
       BY <1>5, <1>7, <1>14, <1>15
<1> QED
    BY <1>1, <1>3, <1>16

\* A behaviour and a telemetry fault together make the condition of a cell.
ConditionOf(p) ==
    <<IF p[1] = None THEN "clean_behavior" ELSE "faulty_behavior",
      IF p[2] = None THEN "clean_telemetry" ELSE "faulty_telemetry">>

FaultsOf(c) == <<behavior_fault(c), telemetry_fault(c)>>

\* The matrix shows in the rows and columns of a condition what passed there.
LEMMA MatrixDivides ==
    ASSUME NEW p, IsList(p), NEW cond
    PROVE  MatrixPasses(p, cond) = Cardinality(Ended(p, cond, {"PASS"}))
<1>1. PICK X, M : X = Ended(p, cond, {"PASS"}) /\ M = behavior_by_telemetry_matrix(p)
      OBVIOUS
<1>2. PICK Rs, Cs : /\ Rs = {behavior_fault(c) : c \in ToSet(p)}
                    /\ Cs = {telemetry_fault(c) : c \in ToSet(p)}
      OBVIOUS
<1>3. PICK S : S = {q \in Rs \X Cs : ConditionOf(q) = cond}
      OBVIOUS
<1>4. PICK g : g = [q \in S |-> M[q[1]][q[2]].hits]
      OBVIOUS
<1>5. MatrixPasses(p, cond) = SumFunction(g)
  <2>1. S = {q \in Rs \X Cs :
               <<IF q[1] = None THEN "clean_behavior" ELSE "faulty_behavior",
                 IF q[2] = None THEN "clean_telemetry" ELSE "faulty_telemetry">> = cond}
        BY <1>3 DEF ConditionOf
  <2> QED
      BY <1>1, <1>2, <1>4, <2>1 DEF MatrixPasses
<1>6. PICK f : f = [i \in X |-> FaultsOf(p[i])]
      OBVIOUS
<1>7. IsFiniteSet(X)
      BY <1>1, WithinFacts
<1>8. IsFiniteSet(Rs) /\ IsFiniteSet(Cs)
  <2>1. PICK h, k : /\ h = [c \in ToSet(p) |-> behavior_fault(c)]
                    /\ k = [c \in ToSet(p) |-> telemetry_fault(c)]
        OBVIOUS
  <2>2. IsFiniteSet({h[c] : c \in ToSet(p)}) /\ IsFiniteSet({k[c] : c \in ToSet(p)})
        BY ConditionsFinite
  <2>3. Rs = {h[c] : c \in ToSet(p)} /\ Cs = {k[c] : c \in ToSet(p)}
        BY <1>2, <2>1
  <2> QED
      BY <2>2, <2>3
<1>9. IsFiniteSet(S)
  <2>1. IsFiniteSet(Rs \X Cs)
        BY <1>8, FS_Product
  <2>2. S \in SUBSET (Rs \X Cs)
        BY <1>3
  <2> QED
      BY <2>1, <2>2, FS_Subset
<1>10. ASSUME NEW c PROVE ConditionOf(FaultsOf(c)) = condition_of(c)
  <2>1. PICK x, y : x = behavior_fault(c) /\ y = telemetry_fault(c)
        OBVIOUS
  <2>2. PICK q : q = <<x, y>>
        OBVIOUS
  <2>3. q[1] = x /\ q[2] = y
        BY <2>2
  <2>4. ConditionOf(q) = condition_of(c)
        BY <2>1, <2>3 DEF ConditionOf, condition_of
  <2> QED
      BY <2>1, <2>2, <2>4 DEF FaultsOf
<1>11. ASSUME NEW i \in X PROVE f[i] \in S
  <2>1. i \in DOMAIN p /\ condition_of(p[i]) = cond
        BY <1>1 DEF Ended
  <2>2. p[i] \in ToSet(p)
        BY <2>1 DEF ToSet
  <2>3. FaultsOf(p[i]) \in Rs \X Cs
        BY <1>2, <2>2 DEF FaultsOf
  <2>4. ConditionOf(FaultsOf(p[i])) = cond
        BY <1>10, <2>1
  <2> QED
      BY <1>3, <1>6, <2>3, <2>4
<1>12. ASSUME NEW q \in S PROVE g[q] = Cardinality({i \in X : f[i] = q})
  <2>1. PICK x, y : q = <<x, y>> /\ x \in Rs /\ y \in Cs
        BY <1>3
  <2>2. q[1] = x /\ q[2] = y /\ ConditionOf(q) = cond
        BY <1>3, <2>1
  <2>3. M[x][y].hits = Cardinality({i \in DOMAIN p :
              (behavior_fault(p[i]) = x /\ telemetry_fault(p[i]) = y) /\ Passed(p[i])})
        BY <1>1, <1>2, <2>1
           DEF behavior_by_telemetry_matrix, Share, HowMany, Rate
  <2>4. ASSUME NEW i
        PROVE  i \in DOMAIN p /\ (behavior_fault(p[i]) = x /\ telemetry_fault(p[i]) = y)
                   /\ Passed(p[i])
               <=> i \in X /\ f[i] = q
    <3>1. (behavior_fault(p[i]) = x /\ telemetry_fault(p[i]) = y) <=> FaultsOf(p[i]) = q
          BY <2>1 DEF FaultsOf
    <3>2. FaultsOf(p[i]) = q => condition_of(p[i]) = cond
          BY <1>10, <2>2
    <3>3. i \in X <=> i \in DOMAIN p /\ condition_of(p[i]) = cond /\ Passed(p[i])
          BY <1>1 DEF Ended, Passed
    <3>4. i \in X => f[i] = FaultsOf(p[i])
          BY <1>6
    <3> QED
        BY <3>1, <3>2, <3>3, <3>4
  <2>5. PICK U, V : /\ U = {i \in DOMAIN p :
                              (behavior_fault(p[i]) = x /\ telemetry_fault(p[i]) = y)
                                  /\ Passed(p[i])}
                    /\ V = {i \in X : f[i] = q}
        OBVIOUS
  <2>6. U = V
        BY <2>4, <2>5
  <2> QED
      BY <1>4, <2>2, <2>3, <2>5, <2>6
<1>13. S = DOMAIN g
       BY <1>4
<1>14. SumFunction(g) = Cardinality(X)
       BY <1>7, <1>9, <1>11, <1>12, <1>13, SumDivides
<1> QED
    BY <1>1, <1>5, <1>14

\* Who flags a fault: the judge's column of the coverage is made of opinions.
LEMMA JudgesColumn ==
    ASSUME NEW p, NEW label \in DOMAIN fault_coverage(p),
           "judge" \in DOMAIN fault_coverage(p)[label]
    PROVE  fault_coverage(p)[label]["judge"].hits
             = Cardinality({i \in DOMAIN p :
                              positive_label(p[i]) = label /\ JudgeFlags(p[i])})
<1>1. PICK F : F = {c \in ToSet(p) : positive_label(c) # None}
      OBVIOUS
<1>2. PICK L, W : /\ L = {positive_label(c) : c \in F}
                  /\ W = UNION {{f.verifier : f \in c.findings} : c \in F}
      OBVIOUS
<1>3. fault_coverage(p) = [l \in L |-> [v \in W |->
          Share(p, LAMBDA c : positive_label(c) = l,
                LAMBDA c : \E f \in c.findings :
                              f.verifier = v /\ ~is_judge_error(f))]]
      BY <1>1, <1>2 DEF fault_coverage
<1>4. label \in L /\ "judge" \in W
      BY <1>3
<1>5. fault_coverage(p)[label]["judge"].hits
          = Cardinality({i \in DOMAIN p : positive_label(p[i]) = label
                /\ \E f \in p[i].findings :
                      f.verifier = "judge" /\ ~is_judge_error(f)})
      BY <1>3, <1>4 DEF Share, HowMany, Rate
<1>6. Cardinality({i \in DOMAIN p : positive_label(p[i]) = label /\ JudgeFlags(p[i])})
          = Cardinality({i \in DOMAIN p : positive_label(p[i]) = label
                /\ \E f \in p[i].findings :
                      f.verifier = "judge" /\ ~is_judge_error(f)})
      BY DEF JudgeFlags, is_judge_opinion
<1> QED
    BY <1>5, <1>6

\* No gap is talked away by a judge.
LEMMA GapsPreserved ==
    ASSUME NEW p, \A i \in DOMAIN p : IsResult(p[i])
    PROVE  evidence_gap_preservation(p).hits = evidence_gap_preservation(p).runs
<1>1. PICK U, V : /\ U = {i \in DOMAIN p :
                            (EvidenceGaps(p[i].findings) # {}
                                /\ JudgeAloneObjects(p[i].findings))
                              /\ Abstained(p[i])}
                  /\ V = {i \in DOMAIN p : EvidenceGaps(p[i].findings) # {}
                                /\ JudgeAloneObjects(p[i].findings)}
      OBVIOUS
<1>2. U = V
      BY <1>1 DEF IsResult, Abstained
<1>3. evidence_gap_preservation(p) = Rate(Cardinality(U), Cardinality(V))
      BY <1>1 DEF evidence_gap_preservation, Share, HowMany, JudgeAloneObjects
<1> QED
    BY <1>2, <1>3 DEF Rate

\* The cells that are not passed among the clean ones raise a false alarm.
LEMMA AlarmsCount ==
    ASSUME NEW p, IsList(p), NEW cond, NEW U, U = Ended(p, cond, {"PASS"})
    PROVE  /\ Cardinality({i \in DOMAIN p :
                             condition_of(p[i]) = cond /\ Flagged(p[i])})
                = Cardinality(Within(p, cond)) - Cardinality(U)
<1>1. PICK X, V : /\ X = Within(p, cond)
                  /\ V = {i \in DOMAIN p :
                             condition_of(p[i]) = cond /\ Flagged(p[i])}
      OBVIOUS
<1>2. IsFiniteSet(X) /\ U \in SUBSET X
      BY <1>1, WithinFacts
<1>3. V = X \ U
      BY <1>1 DEF Within, Ended, Flagged, Passed
<1>4. /\ Cardinality(X) = Cardinality(U) + Cardinality(V)
      /\ Cardinality(U) \in Nat /\ Cardinality(V) \in Nat
      BY <1>2, <1>3, ApartSizes
<1> QED
    BY <1>1, <1>4

\* A condition that does not occur has no cells.
LEMMA NoCellsNoSize ==
    ASSUME NEW p, NEW cond, cond \notin {condition_of(c) : c \in ToSet(p)}, NEW V
    PROVE  /\ Within(p, cond) = {} /\ Ended(p, cond, V) = {}
           /\ Cardinality(Within(p, cond)) = 0 /\ Cardinality(Ended(p, cond, V)) = 0
<1>1. Within(p, cond) = {}
      BY DEF Within, ToSet
<1>2. Ended(p, cond, V) = {}
      BY <1>1 DEF Within, Ended
<1> QED
    BY <1>1, <1>2, FS_EmptySet

\* The part of a cell that its place in the grid settles.
SamePlace(c, d) ==
    /\ c.fault = d.fault /\ c.seed = d.seed /\ c.model = d.model
    /\ c.run = d.run /\ c.evidence = d.evidence

\* The signature of the planned cells fits the whole file only.
LEMMA SignatureFits ==
    ASSUME NEW p, IsList(p), NEW g, IsList(g), Len(p) <= Len(g),
           \A i \in DOMAIN p : SamePlace(p[i], g[i])
    PROVE  verify_integrity([cells |-> p, cellsSignature |-> cells_signature(g)])
             <=> Len(p) = Len(g)
<1>1. PICK n \in Nat, m \in Nat : /\ n = Len(p) /\ DOMAIN p = 1..n
                                  /\ m = Len(g) /\ DOMAIN g = 1..m
      BY ListFacts
<1>2. PICK s, t : s = cells_signature(p) /\ t = cells_signature(g)
      OBVIOUS
<1>3. verify_integrity([cells |-> p, cellsSignature |-> cells_signature(g)]) <=> t = s
      BY <1>2 DEF verify_integrity
<1>4. /\ s = [i \in 1..n |-> ExperimentCell(p[i].fault, p[i].seed, p[i].model,
                                            p[i].run, p[i].evidence)]
      /\ t = [i \in 1..m |-> ExperimentCell(g[i].fault, g[i].seed, g[i].model,
                                            g[i].run, g[i].evidence)]
      BY <1>1, <1>2 DEF cells_signature
<1>5. ASSUME n = m PROVE t = s
  <2>1. \A i \in 1..n : SamePlace(p[i], g[i])
        BY <1>1
  <2>2. \A i \in 1..n : s[i] = t[i]
        BY <1>4, <1>5, <2>1 DEF SamePlace
  <2>3. s = [i \in 1..n |-> s[i]] /\ t = [i \in 1..n |-> t[i]]
        BY <1>4, <1>5
  <2> QED
      BY <2>2, <2>3
<1>6. ASSUME t = s PROVE n = m
  <2>1. DOMAIN s = 1..n /\ DOMAIN t = 1..m
        BY <1>4
  <2>2. 1..n = 1..m
        BY <1>6, <2>1
  <2>3. n > 0 => n \in 1..m
        BY <2>2
  <2>4. m > 0 => m \in 1..n
        BY <2>2
  <2> QED
      BY <2>3, <2>4
<1> QED
    BY <1>1, <1>3, <1>5, <1>6

-----------------------------------------------------------------------------
\* What the tables of a results file say of each other.
LEMMA TablesFit ==
    ASSUME NEW p, IsList(p), \A i \in DOMAIN p : IsResult(p[i]),
           NEW table, table = condition_summary(p),
           NEW rate, rate = [cond \in {"clean_behavior", "faulty_behavior"}
                                       \X {"clean_telemetry", "faulty_telemetry"} |->
                        IF cond \in DOMAIN table THEN table[cond].passes
                        ELSE Rate(0, 0)]
    PROVE  /\ \A cond \in DOMAIN table :
                 MatrixPasses(p, cond) = table[cond].passes.hits
           /\ false_assurance_rate_2x2(p)
                 = rate[<<"faulty_behavior", "faulty_telemetry">>]
           /\ clean_false_positive_rate(p).hits
                 = rate[<<"clean_behavior", "clean_telemetry">>].runs
                     - rate[<<"clean_behavior", "clean_telemetry">>].hits
<1>1. PICK K : K = {"clean_behavior", "faulty_behavior"}
                     \X {"clean_telemetry", "faulty_telemetry"}
      OBVIOUS
<1>2. DOMAIN table = {condition_of(c) : c \in ToSet(p)}
      BY TableRows
<1>3. ASSUME NEW cond \in K
      PROVE  rate[cond] = Rate(Cardinality(Ended(p, cond, {"PASS"})),
                               Cardinality(Within(p, cond)))
  <2>1. CASE cond \in DOMAIN table
    <3>1. rate[cond] = table[cond].passes
          BY <1>1, <2>1
    <3>2. /\ table[cond].passes.runs = Cardinality(Within(p, cond))
          /\ table[cond].passes.hits = Cardinality(Ended(p, cond, {"PASS"}))
          /\ table[cond].passes
                = Rate(table[cond].passes.hits, table[cond].passes.runs)
          BY <2>1, TableRows
    <3> QED
        BY <3>1, <3>2
  <2>2. CASE cond \notin DOMAIN table
    <3>1. rate[cond] = Rate(0, 0)
          BY <1>1, <2>2
    <3>2. /\ Cardinality(Within(p, cond)) = 0
          /\ Cardinality(Ended(p, cond, {"PASS"})) = 0
          BY <1>2, <2>2, NoCellsNoSize
    <3> QED
        BY <3>1, <3>2
  <2> QED
      BY <2>1, <2>2
<1>4. ASSUME NEW cond \in DOMAIN table
      PROVE  MatrixPasses(p, cond) = table[cond].passes.hits
  <2>1. MatrixPasses(p, cond) = Cardinality(Ended(p, cond, {"PASS"}))
        BY MatrixDivides
  <2>2. table[cond].passes.hits = Cardinality(Ended(p, cond, {"PASS"}))
        BY TableRows
  <2> QED
      BY <2>1, <2>2
<1>5. PICK worst, best : /\ worst = <<"faulty_behavior", "faulty_telemetry">>
                         /\ best = <<"clean_behavior", "clean_telemetry">>
      OBVIOUS
<1>6. worst \in K /\ best \in K
      BY <1>1, <1>5
<1>7. false_assurance_rate_2x2(p) = rate[worst]
  <2>1. {i \in DOMAIN p : condition_of(p[i]) = worst /\ Passed(p[i])}
            = Ended(p, worst, {"PASS"})
        BY DEF Ended, Passed
  <2>2. false_assurance_rate_2x2(p) = Rate(
            Cardinality({i \in DOMAIN p : condition_of(p[i]) = worst /\ Passed(p[i])}),
            Cardinality({i \in DOMAIN p : condition_of(p[i]) = worst}))
        BY <1>5 DEF false_assurance_rate_2x2, Share, HowMany
  <2> QED
      BY <1>3, <1>6, <2>1, <2>2 DEF Within
<1>8. clean_false_positive_rate(p).hits = rate[best].runs - rate[best].hits
  <2>1. clean_false_positive_rate(p).hits
            = Cardinality({i \in DOMAIN p : condition_of(p[i]) = best /\ Flagged(p[i])})
        BY <1>5 DEF clean_false_positive_rate, Share, HowMany, Rate
  <2>2. PICK U : U = Ended(p, best, {"PASS"})
        OBVIOUS
  <2>3. clean_false_positive_rate(p).hits
            = Cardinality(Within(p, best)) - Cardinality(U)
        BY <2>1, <2>2, AlarmsCount
  <2>4. PICK x, y : x = Cardinality(U) /\ y = Cardinality(Within(p, best))
        OBVIOUS
  <2>5. rate[best] = Rate(x, y)
        BY <1>3, <1>6, <2>2, <2>4
  <2>6. Rate(x, y).hits = x /\ Rate(x, y).runs = y
        BY DEF Rate
  <2> QED
      BY <2>3, <2>4, <2>5, <2>6
<1> QED
    BY <1>4, <1>5, <1>7, <1>8

\* For every grid, every outcome of its cells and every point of the run, the
\* four conditions divide the cells, the matrix hides a fault exactly where
\* the table and the headline rates count a pass, the judge's column is made
\* of opinions, no evidence gap is talked away by a judge, and the signature
\* fits no truncated file (experiments/analyze.py).
THEOREM TablesDoAgree == Spec => []TablesAgree
<1>1. GridInv => TablesAgree
  <2> SUFFICES ASSUME GridInv PROVE TablesAgree
      OBVIOUS
  <2>1. PICK p, g : p = a /\ g = grid
        OBVIOUS
  <2>2. /\ IsList(p) /\ IsList(g) /\ Len(p) <= Len(g)
        /\ \A i \in DOMAIN p : \E found : p[i] = CellResult(g[i], found)
        BY <2>1 DEF GridInv
  <2>3. \A i \in DOMAIN p : IsResult(p[i]) /\ SamePlace(p[i], g[i])
        BY <2>2, CellFacts DEF SamePlace
  <2>4. PICK table : table = condition_summary(p)
        OBVIOUS
  <2>5. SumFunction([cond \in DOMAIN table |-> table[cond].passes.runs]) = Len(p)
        BY <2>2, <2>4, ConditionsDivide
  <2>6. SumFunction([cond \in DOMAIN table |-> table[cond].passes.hits
                + table[cond].fails.hits + table[cond].inconclusive.hits])
             + NoReports(p) = Len(p)
    <3>1. \A i \in DOMAIN p : p[i].verdict \in VerdictNames
          BY <2>3 DEF IsResult
    <3> QED
        BY <2>2, <2>4, <3>1, VerdictsDivide
  <2>7. PICK K, rate :
             /\ K = {"clean_behavior", "faulty_behavior"}
                      \X {"clean_telemetry", "faulty_telemetry"}
             /\ rate = [cond \in K |-> IF cond \in DOMAIN table THEN table[cond].passes
                                       ELSE Rate(0, 0)]
        OBVIOUS
  <2>8. /\ \A cond \in DOMAIN table :
              MatrixPasses(p, cond) = table[cond].passes.hits
        /\ false_assurance_rate_2x2(p)
              = rate[<<"faulty_behavior", "faulty_telemetry">>]
        /\ clean_false_positive_rate(p).hits
              = rate[<<"clean_behavior", "clean_telemetry">>].runs
                  - rate[<<"clean_behavior", "clean_telemetry">>].hits
        BY <2>2, <2>3, <2>4, <2>7, TablesFit
  <2>9. PICK worst, best : /\ worst = <<"faulty_behavior", "faulty_telemetry">>
                           /\ best = <<"clean_behavior", "clean_telemetry">>
        OBVIOUS
  <2>10. worst \in K /\ best \in K
         BY <2>7, <2>9
  <2>11. /\ rate[worst] = IF worst \in DOMAIN table THEN table[worst].passes
                          ELSE Rate(0, 0)
         /\ rate[best] = IF best \in DOMAIN table THEN table[best].passes
                         ELSE Rate(0, 0)
         BY <2>7, <2>10
  <2>12. /\ \A cond \in DOMAIN table : MatrixPasses(p, cond) =
               (IF cond \in DOMAIN table THEN table[cond].passes ELSE Rate(0, 0)).hits
         /\ false_assurance_rate_2x2(p) = IF worst \in DOMAIN table
                                          THEN table[worst].passes ELSE Rate(0, 0)
         /\ clean_false_positive_rate(p).hits
               = (IF best \in DOMAIN table THEN table[best].passes ELSE Rate(0, 0)).runs
               - (IF best \in DOMAIN table THEN table[best].passes ELSE Rate(0, 0)).hits
         BY <2>8, <2>9, <2>11
  <2>13. \A label \in DOMAIN fault_coverage(p) :
             "judge" \in DOMAIN fault_coverage(p)[label] =>
               fault_coverage(p)[label]["judge"].hits
                 = Cardinality({i \in DOMAIN p :
                                  positive_label(p[i]) = label /\ JudgeFlags(p[i])})
         BY JudgesColumn
  <2>14. evidence_gap_preservation(p).hits = evidence_gap_preservation(p).runs
         BY <2>3, GapsPreserved
  <2>15. verify_integrity([cells |-> p, cellsSignature |-> cells_signature(g)])
             <=> Len(p) = Len(g)
         BY <2>2, <2>3, SignatureFits
  <2> QED
      BY <2>1, <2>4, <2>5, <2>6, <2>9, <2>12, <2>13, <2>14, <2>15
         DEF TablesAgree, HowMany
<1>2. Spec => []GridInv
      BY GridInvariant
<1> QED
    BY <1>1, <1>2, PTL

-----------------------------------------------------------------------------
\* Two raters: both yes, only one of them, both no.
LEMMA Squares ==
    ASSUME NEW p \in Nat, NEW q \in Nat, NEW r \in Nat, NEW s \in Nat
    PROVE  /\ (p + q + r + s) * (p + q + r + s)
                - ((p + q) * (p + r) + (r + s) * (q + s))
              = (p + q) * (q + s) + (r + s) * (p + r)
           /\ (p + q + r + s) * (p + q + r + s) - (p + q + r + s) * (p + s)
              = (p + q + r + s) * (q + r)
           /\ (p + q + r + s) * (p + s) + (p + q + r + s) * (p + q + r + s)
                - 2 * ((p + q) * (p + r) + (r + s) * (q + s))
              = 4 * (p * s) + p * q + p * r + q * s + r * s + (q - r) * (q - r)
BY SMTT(30)

\* A square is not negative.
LEMMA SquarePositive ==
    ASSUME NEW x \in Int
    PROVE  x * x \in Nat
<1>1. CASE x >= 0
      BY <1>1
<1>2. CASE x < 0
  <2>1. PICK y \in Nat : y = -x
        BY <1>2
  <2>2. x * x = y * y
        BY <2>1
  <2> QED
      BY <2>2
<1> QED
    BY <1>1, <1>2

\* Kappa as a function of the counts.
KappaOf(n, agreed, x, y) ==
    LET expected == x * y + (n - x) * (n - y)
    IN  IF n = 0 THEN NoKappa
        ELSE IF expected = n * n THEN Rate(IF agreed = n THEN 1 ELSE 0, 1)
        ELSE Rate(n * agreed - expected, n * n - expected)

Alike(f, g) == {i \in DOMAIN f : f[i] = g[i]}

Yes(f) == {i \in DOMAIN f : f[i]}

\* cohen_kappa depends only on four counts of the two raters' answers.
LEMMA KappaCounts ==
    ASSUME NEW f, NEW g
    PROVE  cohen_kappa(f, g) = KappaOf(Len(f), Cardinality(Alike(f, g)),
                                       Cardinality(Yes(f)), Cardinality(Yes(g)))
BY DEF cohen_kappa, KappaOf, Alike, Yes

\* A kappa lies between -1 and 1, and is 1 if the raters always agree.
IsKappa(k, always) ==
    /\ k.runs > 0 /\ -k.runs <= k.hits /\ k.hits <= k.runs
    /\ k.hits = k.runs <=> always

\* With p and s runs alike, q and r runs apart, kappa is in its range.
LEMMA KappaRange ==
    ASSUME NEW p \in Nat, NEW q \in Nat, NEW r \in Nat, NEW s \in Nat,
           p + q + r + s # 0
    PROVE  IsKappa(KappaOf(p + q + r + s, p + s, p + q, p + r), q + r = 0)
<1> PICK n \in Nat : n = p + q + r + s
    OBVIOUS
<1> PICK k : k = KappaOf(n, p + s, p + q, p + r)
    OBVIOUS
<1>0. n # 0
      OBVIOUS
<1>1. PICK e \in Int : e = (p + q) * (p + r) + (n - (p + q)) * (n - (p + r))
      OBVIOUS
<1>2. PICK nn \in Int, na \in Int : nn = n * n /\ na = n * (p + s)
      OBVIOUS
<1>3. e = (p + q) * (p + r) + (r + s) * (q + s)
  <2>1. n - (p + q) = r + s /\ n - (p + r) = q + s
        OBVIOUS
  <2> QED
      BY <1>1, <2>1
<1>4. k = IF e = nn THEN Rate(IF p + s = n THEN 1 ELSE 0, 1)
          ELSE Rate(na - e, nn - e)
      BY <1>1, <1>2 DEF KappaOf
<1>5. /\ nn - e = (p + q) * (q + s) + (r + s) * (p + r)
      /\ nn - na = n * (q + r)
      /\ na + nn - 2 * e
            = 4 * (p * s) + p * q + p * r + q * s + r * s + (q - r) * (q - r)
      BY <1>2, <1>3, Squares
<1>6. nn - e >= 0
  <2>1. PICK c \in Nat, d \in Nat : /\ c = (p + q) * (q + s)
                                    /\ d = (r + s) * (p + r)
        <3>1. PICK w \in Nat, x \in Nat, y \in Nat, z \in Nat :
                  w = p + q /\ x = q + s /\ y = r + s /\ z = p + r
              OBVIOUS
        <3>2. w * x \in Nat /\ y * z \in Nat
              BY Products
        <3> QED
            BY <3>1, <3>2
  <2> QED
      BY <1>5, <2>1
<1>7. na <= nn /\ (na = nn <=> q + r = 0)
  <2>1. PICK m \in Nat : m = q + r
        OBVIOUS
  <2>2. nn - na = n * m
        BY <1>5, <2>1
  <2>3. n * m \in Nat
        BY Products
  <2>4. n * m = 0 <=> m = 0
    <3>1. CASE m = 0
          BY <3>1
    <3>2. CASE m # 0
      <4>1. PICK i \in Nat : m = i + 1
        <5>1. m - 1 \in Nat /\ m = (m - 1) + 1
              BY <3>2
        <5> QED
            BY <5>1
      <4>2. (i + 1) * n = i * n + n /\ i * n \in Nat
            BY Products
      <4>3. n * m = i * n + n
            BY <4>1, <4>2
      <4> QED
          BY <3>2, <4>2, <4>3
    <3> QED
        BY <3>1, <3>2
  <2> QED
      BY <2>1, <2>2, <2>3, <2>4
<1>8. na + nn - 2 * e >= 0
  <2>1. /\ p * s \in Nat /\ p * q \in Nat /\ p * r \in Nat /\ q * s \in Nat
        /\ r * s \in Nat
        BY Products
  <2>2. (q - r) * (q - r) \in Nat
        BY SquarePositive
  <2>3. PICK c1 \in Nat, c2 \in Nat, c3 \in Nat, c4 \in Nat, c5 \in Nat, c6 \in Nat :
            /\ c1 = p * s /\ c2 = p * q /\ c3 = p * r /\ c4 = q * s /\ c5 = r * s
            /\ c6 = (q - r) * (q - r)
        BY <2>1, <2>2
  <2>4. na + nn - 2 * e = 4 * c1 + c2 + c3 + c4 + c5 + c6
        BY <1>5, <2>3
  <2> QED
      BY <2>4
<1>9. CASE e = nn
  <2>1. k = Rate(IF p + s = n THEN 1 ELSE 0, 1)
        BY <1>4, <1>9
  <2>2. k.runs = 1 /\ k.hits = IF p + s = n THEN 1 ELSE 0
        BY <2>1 DEF Rate
  <2>3. p + s = n <=> q + r = 0
        OBVIOUS
  <2> QED
      BY <2>2, <2>3 DEF IsKappa
<1>10. CASE e # nn
  <2>1. k = Rate(na - e, nn - e)
        BY <1>4, <1>10
  <2>2. k.runs = nn - e /\ k.hits = na - e
        BY <2>1 DEF Rate
  <2> QED
      BY <1>6, <1>7, <1>8, <1>10, <2>2 DEF IsKappa
<1> QED
    BY <1>9, <1>10

\* The runs divide into four: both yes, one of them, both no.
LEMMA RatersDivide ==
    ASSUME NEW n \in Nat, NEW f \in [1..n -> BOOLEAN], NEW g \in [1..n -> BOOLEAN]
    PROVE  \E p, q, r, s \in Nat :
              /\ n = p + q + r + s /\ Cardinality(Alike(f, g)) = p + s
              /\ Cardinality(Yes(f)) = p + q /\ Cardinality(Yes(g)) = p + r
              /\ q + r = 0 <=> f = g
<1>1. PICK D, X, Y, Z, A : /\ D = 1..n /\ X = Yes(f) /\ Y = Yes(g) /\ Z = D \ X
                           /\ A = Alike(f, g)
      OBVIOUS
<1>2. PICK P, Q, R, S : P = X \cap Y /\ Q = X \ P /\ R = Y \ P /\ S = Z \ R
      OBVIOUS
<1>3. IsFiniteSet(D) /\ Cardinality(D) = n
  <2>1. 1 \in Int /\ n \in Int
        OBVIOUS
  <2>2. /\ IsFiniteSet(1..n)
        /\ Cardinality(1..n) = IF 1 > n THEN 0 ELSE n - 1 + 1
        BY <2>1, FS_Interval
  <2> QED
      BY <1>1, <2>2
<1>4. X \in SUBSET D /\ Y \in SUBSET D /\ Z \in SUBSET D /\ A \in SUBSET D
      BY <1>1 DEF Yes, Alike
<1>5. IsFiniteSet(X) /\ IsFiniteSet(Y) /\ IsFiniteSet(Z) /\ IsFiniteSet(A)
      BY <1>3, <1>4, FS_Subset
<1>6. \A i \in D : /\ i \in X <=> f[i] = TRUE
                   /\ i \in Y <=> g[i] = TRUE
                   /\ i \in A <=> f[i] = g[i]
                   /\ f[i] \in BOOLEAN /\ g[i] \in BOOLEAN
      BY <1>1 DEF Yes, Alike
<1>7. P \in SUBSET X /\ P \in SUBSET Y /\ P \in SUBSET A /\ R \in SUBSET Z
  <2>1. P \in SUBSET X /\ P \in SUBSET Y
        BY <1>2
  <2>2. P \in SUBSET A
        BY <1>2, <1>4, <1>6
  <2>3. R \in SUBSET Z
        BY <1>1, <1>2, <1>4
  <2> QED
      BY <2>1, <2>2, <2>3
<1>8. A \ P = S
  <2>1. \A i \in D : i \in A \ P <=> f[i] = g[i] /\ f[i] # TRUE
        BY <1>2, <1>6
  <2>2. \A i \in D : i \in S <=> f[i] # TRUE /\ g[i] # TRUE
        BY <1>1, <1>2, <1>6
  <2>3. \A i \in D : i \in A \ P <=> i \in S
        BY <1>6, <2>1, <2>2
  <2>4. S \in SUBSET D /\ A \ P \in SUBSET D
        BY <1>2, <1>4
  <2> QED
      BY <2>3, <2>4
<1>9. /\ Cardinality(D) = Cardinality(X) + Cardinality(Z)
      /\ Cardinality(X) = Cardinality(P) + Cardinality(Q)
      /\ Cardinality(Y) = Cardinality(P) + Cardinality(R)
      /\ Cardinality(Z) = Cardinality(R) + Cardinality(S)
      /\ Cardinality(A) = Cardinality(P) + Cardinality(S)
      /\ Cardinality(P) \in Nat /\ Cardinality(Q) \in Nat /\ Cardinality(R) \in Nat
      /\ Cardinality(S) \in Nat
  <2>1. Cardinality(D) = Cardinality(X) + Cardinality(D \ X)
        BY <1>3, <1>4, ApartSizes
  <2>2. /\ Cardinality(X) = Cardinality(P) + Cardinality(X \ P)
        /\ Cardinality(P) \in Nat /\ Cardinality(X \ P) \in Nat
        BY <1>5, <1>7, ApartSizes
  <2>3. /\ Cardinality(Y) = Cardinality(P) + Cardinality(Y \ P)
        /\ Cardinality(Y \ P) \in Nat
        BY <1>5, <1>7, ApartSizes
  <2>4. /\ Cardinality(Z) = Cardinality(R) + Cardinality(Z \ R)
        /\ Cardinality(Z \ R) \in Nat
        BY <1>5, <1>7, ApartSizes
  <2>5. Cardinality(A) = Cardinality(P) + Cardinality(A \ P)
        BY <1>5, <1>7, ApartSizes
  <2> QED
      BY <1>1, <1>2, <1>8, <2>1, <2>2, <2>3, <2>4, <2>5
<1>10. PICK p, q, r, s : /\ p = Cardinality(P) /\ q = Cardinality(Q)
                         /\ r = Cardinality(R) /\ s = Cardinality(S)
       OBVIOUS
<1>11. p \in Nat /\ q \in Nat /\ r \in Nat /\ s \in Nat
       BY <1>9, <1>10
<1>12. /\ n = p + q + r + s /\ Cardinality(A) = p + s
       /\ Cardinality(X) = p + q /\ Cardinality(Y) = p + r
       BY <1>3, <1>9, <1>10, <1>11
<1>13. q + r = 0 <=> f = g
  <2>1. q = 0 <=> Q = {}
    <3>1. IsFiniteSet(Q)
      <4>1. Q \in SUBSET X
            BY <1>2
      <4> QED
          BY <1>5, <4>1, FS_Subset
    <3> QED
        BY <1>10, <3>1, FS_EmptySet
  <2>2. r = 0 <=> R = {}
    <3>1. IsFiniteSet(R)
      <4>1. R \in SUBSET Y
            BY <1>2
      <4> QED
          BY <1>5, <4>1, FS_Subset
    <3> QED
        BY <1>10, <3>1, FS_EmptySet
  <2>3. Q = {} /\ R = {} <=> X = Y
        BY <1>2
  <2>4. X = Y <=> \A i \in D : i \in X <=> i \in Y
        BY <1>4
  <2>5. X = Y <=> \A i \in D : f[i] = g[i]
        BY <1>6, <2>4
  <2>6. f = [i \in D |-> f[i]] /\ g = [i \in D |-> g[i]]
        BY <1>1
  <2>7. X = Y <=> f = g
        BY <2>5, <2>6
  <2>8. q + r = 0 <=> q = 0 /\ r = 0
        BY <1>11
  <2> QED
      BY <2>1, <2>2, <2>3, <2>7, <2>8
<1> QED
    BY <1>1, <1>11, <1>12, <1>13

\* Who is named first, and which answer is called yes, makes no difference.
LEMMA KappaTurns ==
    ASSUME NEW n \in Nat, NEW A, NEW x \in Int, NEW y \in Int
    PROVE  /\ KappaOf(n, A, y, x) = KappaOf(n, A, x, y)
           /\ KappaOf(n, A, n - x, n - y) = KappaOf(n, A, x, y)
<1>1. y * x + (n - y) * (n - x) = x * y + (n - x) * (n - y)
      OBVIOUS
<1>2. (n - x) * (n - y) + (n - (n - x)) * (n - (n - y))
          = x * y + (n - x) * (n - y)
  <2>1. n - (n - x) = x /\ n - (n - y) = y
        OBVIOUS
  <2>2. (n - (n - x)) * (n - (n - y)) = x * y
        BY <2>1
  <2>3. PICK c \in Int, d \in Int : c = (n - x) * (n - y) /\ d = x * y
        OBVIOUS
  <2>4. (n - (n - x)) * (n - (n - y)) = d
        BY <2>2, <2>3
  <2> QED
      BY <2>3, <2>4
<1> QED
    BY <1>1, <1>2 DEF KappaOf

\* Swapping or turning both raters keeps the runs on which they are alike.
LEMMA AlikeTurns ==
    ASSUME NEW n \in Nat, NEW f \in [1..n -> BOOLEAN], NEW g \in [1..n -> BOOLEAN]
    PROVE  /\ Alike(g, f) = Alike(f, g)
           /\ Alike(Turned(f), Turned(g)) = Alike(f, g)
           /\ Cardinality(Yes(Turned(f))) = n - Cardinality(Yes(f))
           /\ Cardinality(Yes(f)) \in Nat
           /\ Turned(f) \in [1..n -> BOOLEAN]
<1>1. Alike(g, f) = Alike(f, g)
      BY DEF Alike
<1>2. PICK h, k : h = Turned(f) /\ k = Turned(g)
      OBVIOUS
<1>3. /\ h \in [1..n -> BOOLEAN] /\ k \in [1..n -> BOOLEAN]
      /\ \A i \in 1..n : h[i] = ~f[i] /\ k[i] = ~g[i]
      BY <1>2 DEF Turned
<1>4. \A i \in 1..n : /\ f[i] \in BOOLEAN /\ g[i] \in BOOLEAN
                      /\ h[i] = ~f[i] /\ k[i] = ~g[i]
      BY <1>3
<1>5. \A i \in 1..n : h[i] = k[i] <=> f[i] = g[i]
      BY <1>4
<1>6. Alike(h, k) = Alike(f, g)
      BY <1>3, <1>5 DEF Alike
<1>7. PICK D, X : D = 1..n /\ X = Yes(f)
      OBVIOUS
<1>8. IsFiniteSet(D) /\ Cardinality(D) = n
  <2>1. 1 \in Int /\ n \in Int
        OBVIOUS
  <2>2. /\ IsFiniteSet(1..n)
        /\ Cardinality(1..n) = IF 1 > n THEN 0 ELSE n - 1 + 1
        BY <2>1, FS_Interval
  <2> QED
      BY <1>7, <2>2
<1>9. X \in SUBSET D
      BY <1>7 DEF Yes
<1>10. Yes(h) = D \ X
       BY <1>3, <1>4, <1>7 DEF Yes
<1>11. /\ Cardinality(D) = Cardinality(X) + Cardinality(D \ X)
       /\ Cardinality(X) \in Nat /\ Cardinality(D \ X) \in Nat
       BY <1>8, <1>9, ApartSizes
<1>12. PICK c \in Nat, d \in Nat : c = Cardinality(X) /\ d = Cardinality(Yes(h))
  <2>1. Cardinality(Yes(h)) = Cardinality(D \ X)
        BY <1>10
  <2> QED
      BY <1>11, <2>1
<1>13. n = c + d
  <2>1. Cardinality(Yes(h)) = Cardinality(D \ X)
        BY <1>10
  <2> QED
      BY <1>8, <1>11, <1>12, <2>1
<1>14. d = n - c
       BY <1>13
<1> QED
    BY <1>1, <1>2, <1>3, <1>6, <1>7, <1>12, <1>14

\* A kappa is fair to any two raters.
LEMMA KappaIsFair ==
    ASSUME NEW n \in Nat, NEW f \in [1..n -> BOOLEAN], NEW g \in [1..n -> BOOLEAN]
    PROVE  /\ FairKappa(f, g)
           /\ cohen_kappa(g, f) = cohen_kappa(f, g)
<1>1. Len(f) = n /\ Len(g) = n /\ f \in Seq(BOOLEAN) /\ g \in Seq(BOOLEAN)
      OBVIOUS
<1>2. PICK h, m : h = Turned(f) /\ m = Turned(g)
      OBVIOUS
<1>3. PICK A, x, y : /\ A = Cardinality(Alike(f, g)) /\ x = Cardinality(Yes(f))
                     /\ y = Cardinality(Yes(g))
      OBVIOUS
<1>4. PICK k : k = KappaOf(n, A, x, y)
      OBVIOUS
<1>5. cohen_kappa(f, g) = k
      BY <1>1, <1>3, <1>4, KappaCounts
<1>6. x \in Nat /\ y \in Nat
      BY <1>3, AlikeTurns
<1>7. cohen_kappa(g, f) = k
  <2>1. Cardinality(Alike(g, f)) = A
        BY <1>3, AlikeTurns
  <2>2. cohen_kappa(g, f) = KappaOf(n, A, y, x)
        BY <1>1, <1>3, <2>1, KappaCounts
  <2> QED
      BY <1>4, <1>6, <2>2, KappaTurns
<1>8. cohen_kappa(h, m) = k
  <2>1. /\ Cardinality(Alike(h, m)) = A /\ Cardinality(Yes(h)) = n - x
        /\ Cardinality(Yes(m)) = n - y
        BY <1>2, <1>3, AlikeTurns
  <2>2. h \in [1..n -> BOOLEAN]
        BY <1>2, AlikeTurns
  <2>3. Len(h) = n
        BY <2>2
  <2>4. cohen_kappa(h, m) = KappaOf(n, A, n - x, n - y)
        BY <2>1, <2>3, KappaCounts
  <2> QED
      BY <1>4, <1>6, <2>4, KappaTurns
<1>9. ASSUME f # <<>>
      PROVE  /\ k.runs > 0 /\ -k.runs <= k.hits /\ k.hits <= k.runs
             /\ k.hits = k.runs <=> f = g
  <2>1. n # 0
        BY <1>1, <1>9
  <2>2. PICK p \in Nat, q \in Nat, r \in Nat, s \in Nat :
            /\ n = p + q + r + s /\ A = p + s /\ x = p + q /\ y = p + r
            /\ q + r = 0 <=> f = g
    <3>1. \E p, q, r, s \in Nat :
              /\ n = p + q + r + s /\ Cardinality(Alike(f, g)) = p + s
              /\ Cardinality(Yes(f)) = p + q /\ Cardinality(Yes(g)) = p + r
              /\ q + r = 0 <=> f = g
          BY RatersDivide
    <3> QED
        BY <1>3, <3>1
  <2>3. k = KappaOf(n, p + s, p + q, p + r)
        BY <1>4, <2>2
  <2>4. n = p + q + r + s /\ p + q + r + s # 0
        BY <2>1, <2>2
  <2>5. k = KappaOf(p + q + r + s, p + s, p + q, p + r)
        BY <2>3, <2>4
  <2>6. IsKappa(k, q + r = 0)
        BY <2>4, <2>5, KappaRange
  <2> QED
      BY <2>2, <2>6 DEF IsKappa
<1>10. FairKappa(f, g)
       BY <1>2, <1>5, <1>7, <1>8, <1>9 DEF FairKappa
<1> QED
    BY <1>5, <1>7, <1>10

-----------------------------------------------------------------------------
\* Two files of the same cells, in the same order, none of them twice.
KeysMatch(p, q) ==
    /\ IsList(p) /\ IsList(q) /\ Len(q) = Len(p)
    /\ \A i \in DOMAIN p : KeyOf(q[i]) = KeyOf(p[i])
    /\ \A i, j \in DOMAIN p : KeyOf(p[i]) = KeyOf(p[j]) => i = j

\* The match of two files by key is symmetric.
LEMMA KeysMatchBack ==
    ASSUME NEW p, NEW q, KeysMatch(p, q)
    PROVE  KeysMatch(q, p) /\ KeysMatch(p, p) /\ DOMAIN q = DOMAIN p
<1>1. /\ IsList(p) /\ IsList(q) /\ Len(q) = Len(p)
      /\ \A i \in DOMAIN p : KeyOf(q[i]) = KeyOf(p[i])
      /\ \A i, j \in DOMAIN p : KeyOf(p[i]) = KeyOf(p[j]) => i = j
      BY DEF KeysMatch
<1>2. DOMAIN q = DOMAIN p
      BY <1>1, ListFacts
<1>3. KeysMatch(q, p)
      BY <1>1, <1>2 DEF KeysMatch
<1>4. KeysMatch(p, p)
      BY <1>1 DEF KeysMatch
<1> QED
    BY <1>2, <1>3, <1>4

\* A list that is written down as a function.
LEMMA ListOf ==
    ASSUME NEW n \in Nat, NEW f, f = [i \in 1..n |-> f[i]]
    PROVE  IsList(f) /\ Len(f) = n /\ DOMAIN f = 1..n
<1>1. PICK T : T = {f[i] : i \in 1..n}
      OBVIOUS
<1>2. f \in [1..n -> T]
      BY <1>1
<1>3. f \in Seq(T)
      BY <1>2, IsASeq
<1>4. Len(f) = n /\ DOMAIN f = 1..n
      BY <1>2, <1>3
<1> QED
    BY <1>3, <1>4 DEF IsList

\* The last entry of its kind is the only one.
LEMMA OnlyOne ==
    ASSUME NEW i \in Nat
    PROVE  Max({i}) = i /\ Min({i}) = i
<1>1. i \in Int /\ i >= i /\ i <= i
      OBVIOUS
<1> QED
    BY <1>1 DEF Max, Min

\* Each cell is paired with its own other half.
LEMMA PairsMatch ==
    ASSUME NEW p, NEW q, KeysMatch(p, q)
    PROVE  PairsOf(p, q) = [i \in DOMAIN p |-> <<p[i], q[i]>>]
<1>1. /\ IsList(p) /\ IsList(q) /\ Len(q) = Len(p)
      /\ \A i \in DOMAIN p : KeyOf(q[i]) = KeyOf(p[i])
      /\ \A i, j \in DOMAIN p : KeyOf(p[i]) = KeyOf(p[j]) => i = j
      BY DEF KeysMatch
<1>2. PICK n \in Nat : n = Len(p) /\ DOMAIN p = 1..n /\ DOMAIN q = 1..n /\ Len(q) = n
      BY <1>1, ListFacts
<1> DEFINE last(c) == SelectLastInSeq(q, LAMBDA d : KeyOf(d) = KeyOf(c))
<1>3. ASSUME NEW i \in 1..n PROVE last(p[i]) = i
  <2>1. {j \in 1..n : KeyOf(q[j]) = KeyOf(p[i])} = {i}
    <3>1. \A j \in 1..n : KeyOf(q[j]) = KeyOf(p[i]) <=> j = i
          BY <1>1, <1>2
    <3> QED
        BY <3>1
  <2>2. Max({i}) = i
        BY OnlyOne
  <2> QED
      BY <1>2, <2>1, <2>2 DEF SelectLastInSeq
<1> HIDE DEF last
<1>4. PICK S : S = {i \in DOMAIN p : last(p[i]) # 0}
      OBVIOUS
<1>5. DOMAIN p \subseteq S
      BY <1>2, <1>3, <1>4
<1>6. Picked(p, S) = p
      BY <1>1, <1>5, PickedAll DEF IsList
<1>7. PairsOf(p, q) = [i \in DOMAIN p |-> <<p[i], q[last(p[i])]>>]
  <2>1. PairsOf(p, q) =
            [i \in DOMAIN Picked(p, {k \in DOMAIN p : last(p[k]) # 0}) |->
                <<Picked(p, {k \in DOMAIN p : last(p[k]) # 0})[i],
                  q[last(Picked(p, {k \in DOMAIN p : last(p[k]) # 0})[i])]>>]
        BY Zenon DEF PairsOf, last
  <2>2. Picked(p, {k \in DOMAIN p : last(p[k]) # 0}) = p
        BY <1>4, <1>6
  <2> QED
      BY <2>1, <2>2
<1> QED
    BY <1>2, <1>3, <1>7

-----------------------------------------------------------------------------
\* The runs of a fault that were flagged in a file q.
FlaggedRuns(p, q, label) ==
    {i \in DOMAIN p : fault_label(p[i]) = label /\ Flagged(q[i])}

\* The flagged runs of a fault are finitely many.
LEMMA FlaggedCount ==
    ASSUME NEW p, IsList(p), NEW q, NEW label
    PROVE  Cardinality(FlaggedRuns(p, q, label)) \in Nat
<1>1. PICK D : D = DOMAIN p
      OBVIOUS
<1>2. IsFiniteSet(D)
      BY <1>1, WithinFacts
<1>3. FlaggedRuns(p, q, label) \in SUBSET D
      BY <1>1 DEF FlaggedRuns
<1>4. IsFiniteSet(FlaggedRuns(p, q, label))
      BY <1>2, <1>3, FS_Subset
<1> QED
    BY <1>4, FS_CardinalityType

\* delta counts, for each fault, the flagged runs of one file less the other's.
LEMMA DeltaRows ==
    ASSUME NEW p, NEW q, KeysMatch(p, q), NEW d, d = delta(p, q)
    PROVE  /\ d.pairedRuns = Len(p)
           /\ DOMAIN d.rows = {fault_label(p[i]) : i \in DOMAIN p}
           /\ \A label \in DOMAIN d.rows :
                 d.rows[label].delta = Cardinality(FlaggedRuns(p, q, label))
                                         - Cardinality(FlaggedRuns(p, p, label))
<1>1. PICK n \in Nat : n = Len(p) /\ DOMAIN p = 1..n
      BY ListFacts DEF KeysMatch
<1>2. PICK pairs : pairs = PairsOf(p, q)
      OBVIOUS
<1>3. pairs = [i \in 1..n |-> <<p[i], q[i]>>]
      BY <1>1, <1>2, PairsMatch
<1>4. DOMAIN pairs = 1..n /\ \A i \in 1..n : pairs[i][1] = p[i] /\ pairs[i][2] = q[i]
      BY <1>3
<1>5. Len(pairs) = n
  <2>1. pairs = [i \in 1..n |-> pairs[i]]
        BY <1>3
  <2> QED
      BY <2>1, ListOf
<1>6. PICK L : L = {fault_label(pairs[i][1]) : i \in DOMAIN pairs}
      OBVIOUS
<1>7. L = {fault_label(p[i]) : i \in DOMAIN p}
      BY <1>1, <1>4, <1>6
<1> DEFINE Of(label, side) == Cardinality({i \in DOMAIN pairs :
                fault_label(pairs[i][1]) = label /\ Flagged(pairs[i][side])})
<1>8. /\ d.pairedRuns = Len(pairs) /\ DOMAIN d.rows = L
      /\ \A label \in L : d.rows[label].delta = Of(label, 2) - Of(label, 1)
      BY <1>2, <1>6 DEF delta, Share, HowMany, Rate
<1>9. ASSUME NEW label
      PROVE  /\ Of(label, 2) = Cardinality(FlaggedRuns(p, q, label))
             /\ Of(label, 1) = Cardinality(FlaggedRuns(p, p, label))
  <2>1. {i \in DOMAIN pairs : fault_label(pairs[i][1]) = label /\ Flagged(pairs[i][2])}
            = FlaggedRuns(p, q, label)
        BY <1>1, <1>4 DEF FlaggedRuns
  <2>2. {i \in DOMAIN pairs : fault_label(pairs[i][1]) = label /\ Flagged(pairs[i][1])}
            = FlaggedRuns(p, p, label)
        BY <1>1, <1>4 DEF FlaggedRuns
  <2> QED
      BY <2>1, <2>2
<1> HIDE DEF Of
<1> QED
    BY <1>1, <1>5, <1>7, <1>8, <1>9

\* Swapping the files turns every delta round; a file does not differ from
\* itself.
LEMMA DeltasTurn ==
    ASSUME NEW p, NEW q, KeysMatch(p, q),
           \A i \in DOMAIN p : fault_label(q[i]) = fault_label(p[i]),
           NEW there, there = delta(p, q), NEW back, back = delta(q, p),
           NEW same, same = delta(p, p)
    PROVE  /\ there.pairedRuns = Len(p) /\ back.pairedRuns = Len(p)
           /\ \A label \in DOMAIN there.rows :
                /\ there.rows[label].delta = -back.rows[label].delta
                /\ same.rows[label].delta = 0
<1>1. KeysMatch(q, p) /\ KeysMatch(p, p) /\ DOMAIN q = DOMAIN p /\ Len(q) = Len(p)
      /\ IsList(p) /\ IsList(q)
      BY KeysMatchBack DEF KeysMatch
<1>2. /\ there.pairedRuns = Len(p)
      /\ DOMAIN there.rows = {fault_label(p[i]) : i \in DOMAIN p}
      /\ \A label \in DOMAIN there.rows :
            there.rows[label].delta = Cardinality(FlaggedRuns(p, q, label))
                                        - Cardinality(FlaggedRuns(p, p, label))
      BY DeltaRows
<1>3. /\ back.pairedRuns = Len(q)
      /\ DOMAIN back.rows = {fault_label(q[i]) : i \in DOMAIN q}
      /\ \A label \in DOMAIN back.rows :
            back.rows[label].delta = Cardinality(FlaggedRuns(q, p, label))
                                        - Cardinality(FlaggedRuns(q, q, label))
      BY <1>1, DeltaRows
<1>4. /\ DOMAIN same.rows = {fault_label(p[i]) : i \in DOMAIN p}
      /\ \A label \in DOMAIN same.rows :
            same.rows[label].delta = Cardinality(FlaggedRuns(p, p, label))
                                        - Cardinality(FlaggedRuns(p, p, label))
  <2>1. PICK r : r = p
        OBVIOUS
  <2>2. KeysMatch(p, r) /\ same = delta(p, r)
        BY <1>1, <2>1
  <2>3. /\ DOMAIN same.rows = {fault_label(p[i]) : i \in DOMAIN p}
        /\ \A label \in DOMAIN same.rows :
              same.rows[label].delta = Cardinality(FlaggedRuns(p, r, label))
                                          - Cardinality(FlaggedRuns(p, p, label))
        BY <2>2, DeltaRows
  <2> QED
      BY <2>1, <2>3
<1>5. DOMAIN back.rows = DOMAIN there.rows /\ DOMAIN same.rows = DOMAIN there.rows
      BY <1>1, <1>2, <1>3, <1>4
<1>6. ASSUME NEW label \in DOMAIN there.rows
      PROVE  /\ there.rows[label].delta = -back.rows[label].delta
             /\ same.rows[label].delta = 0
  <2>1. FlaggedRuns(q, p, label) = FlaggedRuns(p, p, label)
        BY <1>1 DEF FlaggedRuns
  <2>2. FlaggedRuns(q, q, label) = FlaggedRuns(p, q, label)
        BY <1>1 DEF FlaggedRuns
  <2>3. PICK x \in Nat, y \in Nat : /\ x = Cardinality(FlaggedRuns(p, q, label))
                                    /\ y = Cardinality(FlaggedRuns(p, p, label))
        BY <1>1, FlaggedCount
  <2>4. there.rows[label].delta = x - y
        BY <1>2, <2>3
  <2>5. back.rows[label].delta = y - x
        BY <1>3, <1>5, <2>1, <2>2, <2>3
  <2>6. same.rows[label].delta = y - y
        BY <1>4, <1>5, <2>3
  <2> QED
      BY <2>4, <2>5, <2>6
<1> QED
    BY <1>1, <1>2, <1>3, <1>6

-----------------------------------------------------------------------------
\* What is picked from a list of images are the images of what is picked.
LEMMA PickedMapped ==
    ASSUME NEW T, NEW seq \in Seq(T), NEW S, NEW h,
           NEW m, m = [i \in DOMAIN seq |-> h[seq[i]]],
           NEW p, p = Picked(seq, S)
    PROVE  Picked(m, S) = [k \in DOMAIN p |-> h[p[k]]]
<1>1. PICK N \in Nat : N = Len(seq) /\ DOMAIN seq = 1..N
      OBVIOUS
<1>2. PICK U : U = {h[x] : x \in T}
      OBVIOUS
<1>3. m \in Seq(U) /\ Len(m) = N /\ \A i \in 1..N : m[i] = h[seq[i]] /\ m[i] \in U
  <2>1. \A i \in 1..N : m[i] = h[seq[i]] /\ m[i] \in U
        BY <1>1, <1>2
  <2>2. m \in [1..N -> U]
    <3>1. m = [i \in 1..N |-> m[i]]
          BY <1>1
    <3> QED
        BY <2>1, <3>1
  <2>3. m \in Seq(U)
        BY <2>2, IsASeq
  <2> QED
      BY <2>1, <2>2, <2>3
<1>4. PICK F : PicksUpto(F, T, N, seq, S) /\ Picked(seq, S) = F[N]
      BY <1>1, PickedSteps
<1>5. PICK G : PicksUpto(G, U, N, m, S) /\ Picked(m, S) = G[N]
  <2>1. PICK l : l = m
        OBVIOUS
  <2>2. l \in Seq(U) /\ N = Len(l) /\ N \in Nat
        BY <1>3, <2>1
  <2>3. \E G : PicksUpto(G, U, N, l, S) /\ Picked(l, S) = G[N]
        BY ONLY <2>2, PickedSteps
  <2> QED
      BY <2>1, <2>3
<1>6. /\ F \in [0..N -> Seq(T)] /\ F[0] = <<>>
      /\ \A n \in 1..N : F[n] = IF n \in S THEN Append(F[n - 1], seq[n]) ELSE F[n - 1]
      BY <1>4 DEF PicksUpto
<1>7. /\ G \in [0..N -> Seq(U)] /\ G[0] = <<>>
      /\ \A n \in 1..N : G[n] = IF n \in S THEN Append(G[n - 1], m[n]) ELSE G[n - 1]
      BY <1>5 DEF PicksUpto
<1> DEFINE H == {n \in 0..N : /\ Len(G[n]) = Len(F[n])
                              /\ \A k \in 1..Len(F[n]) : G[n][k] = h[F[n][k]]}
<1>8. 0 \in H
      BY <1>6, <1>7
<1>9. ASSUME NEW n \in 1..N, n - 1 \in H PROVE n \in H
  <2>1. n - 1 \in 0..N /\ n \in 0..N
        OBVIOUS
  <2>2. PICK f, g, c : f = F[n - 1] /\ g = G[n - 1] /\ c = Len(f)
        OBVIOUS
  <2>3. /\ f \in Seq(T) /\ g \in Seq(U) /\ c \in Nat /\ Len(g) = c
        /\ \A k \in 1..c : g[k] = h[f[k]]
        BY <1>6, <1>7, <1>9, <2>1, <2>2
  <2>4. CASE n \notin S
    <3>1. F[n] = f /\ G[n] = g
          BY <1>6, <1>7, <2>2, <2>4
    <3> QED
        BY <2>1, <2>2, <2>3, <3>1
  <2>5. CASE n \in S
    <3>1. PICK x, y : x = seq[n] /\ y = m[n]
          OBVIOUS
    <3>2. x \in T /\ y \in U /\ y = h[x]
          BY <1>1, <1>3, <3>1
    <3>3. PICK u, v : u = Append(f, x) /\ v = Append(g, y)
          OBVIOUS
    <3>4. F[n] = u /\ G[n] = v
          BY <1>6, <1>7, <2>2, <2>5, <3>1, <3>3
    <3>5. Len(u) = c + 1 /\ u[c + 1] = x /\ \A k \in 1..c : u[k] = f[k]
          BY <2>2, <2>3, <3>2, <3>3, Appended
    <3>6. Len(v) = c + 1 /\ v[c + 1] = y /\ \A k \in 1..c : v[k] = g[k]
          BY <2>3, <3>2, <3>3, Appended
    <3>7. \A k \in 1..c + 1 : k \in 1..c \/ k = c + 1
          BY <2>3
    <3>8. \A k \in 1..c + 1 : v[k] = h[u[k]]
          BY <2>3, <3>2, <3>5, <3>6, <3>7
    <3> QED
        BY <2>1, <3>4, <3>5, <3>6, <3>8
  <2> QED
      BY <2>4, <2>5
<1> HIDE DEF H
<1>10. \A n \in 0..N : n \in H
       BY <1>8, <1>9, UpTo
<1>11. PICK q : q = G[N]
       OBVIOUS
<1>12. /\ p \in Seq(T) /\ q \in Seq(U) /\ Len(q) = Len(p)
       /\ \A k \in 1..Len(p) : q[k] = h[p[k]]
  <2>1. N \in 0..N /\ N \in H
        BY <1>10
  <2> QED
      BY <1>4, <1>6, <1>7, <1>11, <2>1 DEF H
<1>13. q = [k \in DOMAIN p |-> h[p[k]]]
       BY <1>12
<1> QED
    BY <1>5, <1>11, <1>13

\* The runs that both judges judged, in order.
BothJudged(p, q) ==
    Picked([i \in DOMAIN p |-> i], {i \in DOMAIN p : p[i].judged /\ q[i].judged})

JudgeSays(p, runs) == [k \in DOMAIN runs |-> JudgeFlags(p[runs[k]])]

\* BothJudged lists places of the file, and both judges answer at each of them.
LEMMA BothJudgedFacts ==
    ASSUME NEW p, IsList(p), NEW q, NEW runs, runs = BothJudged(p, q)
    PROVE  /\ runs \in Seq(DOMAIN p)
           /\ DOMAIN runs = 1..Len(runs) /\ Len(runs) \in Nat
           /\ JudgeSays(p, runs) \in [1..Len(runs) -> BOOLEAN]
           /\ JudgeSays(q, runs) \in [1..Len(runs) -> BOOLEAN]
<1>1. PICK n \in Nat : n = Len(p) /\ DOMAIN p = 1..n
      BY ListFacts
<1>2. PICK ids : ids = [i \in 1..n |-> i]
      OBVIOUS
<1>3. ids \in Seq(1..n)
      BY <1>2
<1>4. runs \in Seq(1..n)
      BY <1>1, <1>2, <1>3, PickedFacts DEF BothJudged
<1>5. DOMAIN runs = 1..Len(runs) /\ Len(runs) \in Nat
      BY <1>4
<1>6. ASSUME NEW r PROVE JudgeSays(r, runs) \in [1..Len(runs) -> BOOLEAN]
      BY <1>5 DEF JudgeSays, JudgeFlags
<1> QED
    BY <1>1, <1>4, <1>5, <1>6

\* The agreement is taken over those.
LEMMA AgreementIs ==
    ASSUME NEW p, NEW q, KeysMatch(p, q), NEW runs, runs = BothJudged(p, q)
    PROVE  judge_agreement(p, q) = Kappa(JudgeSays(p, runs), JudgeSays(q, runs), 2)
<1>1. PICK n \in Nat : n = Len(p) /\ DOMAIN p = 1..n
      BY ListFacts DEF KeysMatch
<1>2. PICK pairs, h, ids : /\ pairs = PairsOf(p, q) /\ ids = [i \in 1..n |-> i]
                           /\ h = [i \in 1..n |-> <<p[i], q[i]>>]
      OBVIOUS
<1>3. pairs = h
      BY <1>1, <1>2, PairsMatch
<1>4. ids \in Seq(1..n) /\ DOMAIN ids = 1..n /\ \A i \in 1..n : ids[i] = i
      BY <1>2
<1>5. pairs = [i \in DOMAIN ids |-> h[ids[i]]]
  <2>1. [i \in DOMAIN ids |-> h[ids[i]]] = [i \in 1..n |-> h[i]]
        BY <1>4
  <2>2. h = [i \in 1..n |-> h[i]]
        BY <1>2
  <2> QED
      BY <1>3, <2>1, <2>2
<1>6. PICK S : S = {i \in DOMAIN p : p[i].judged /\ q[i].judged}
      OBVIOUS
<1>7. {i \in DOMAIN pairs : pairs[i][1].judged /\ pairs[i][2].judged} = S
  <2>1. DOMAIN pairs = 1..n /\ \A i \in 1..n : pairs[i][1] = p[i] /\ pairs[i][2] = q[i]
        BY <1>2, <1>3
  <2> QED
      BY <1>1, <1>6, <2>1
<1>8. runs = Picked(ids, S)
      BY <1>1, <1>2, <1>6 DEF BothJudged
<1>9. PICK judgedPairs : judgedPairs = Picked(pairs, S)
      OBVIOUS
<1>10. judgedPairs = [k \in DOMAIN runs |-> h[runs[k]]]
  <2>1. PICK T : T = 1..n
        OBVIOUS
  <2>2. ids \in Seq(T)
        BY <1>4, <2>1
  <2>3. Picked(pairs, S) = [k \in DOMAIN runs |-> h[runs[k]]]
        BY <1>5, <1>8, <2>2, PickedMapped
  <2> QED
      BY <1>9, <2>3
<1>11. \A k \in DOMAIN runs : runs[k] \in 1..n
  <2>1. runs \in Seq(1..n)
        BY <1>4, <1>8, PickedFacts
  <2> QED
      BY <2>1
<1>12. /\ DOMAIN judgedPairs = DOMAIN runs
       /\ \A k \in DOMAIN runs : /\ judgedPairs[k][1] = p[runs[k]]
                                 /\ judgedPairs[k][2] = q[runs[k]]
       BY <1>2, <1>10, <1>11
<1>14. /\ [k \in DOMAIN judgedPairs |-> JudgeFlags(judgedPairs[k][1])] = JudgeSays(p, runs)
       /\ [k \in DOMAIN judgedPairs |-> JudgeFlags(judgedPairs[k][2])] = JudgeSays(q, runs)
       BY <1>12 DEF JudgeSays
<1>15. judge_agreement(p, q) =
           Kappa([k \in DOMAIN Picked(pairs, S) |-> JudgeFlags(Picked(pairs, S)[k][1])],
                 [k \in DOMAIN Picked(pairs, S) |-> JudgeFlags(Picked(pairs, S)[k][2])], 2)
  <2>1. PICK Y : Y = {i \in DOMAIN PairsOf(p, q) :
                         PairsOf(p, q)[i][1].judged /\ PairsOf(p, q)[i][2].judged}
        OBVIOUS
  <2>2. Y = S
        BY <1>2, <1>7, <2>1
  <2>3. judge_agreement(p, q) =
           Kappa([k \in DOMAIN Picked(PairsOf(p, q), Y) |->
                      JudgeFlags(Picked(PairsOf(p, q), Y)[k][1])],
                 [k \in DOMAIN Picked(PairsOf(p, q), Y) |->
                      JudgeFlags(Picked(PairsOf(p, q), Y)[k][2])], 2)
        BY <2>1 DEF judge_agreement, FlagsOf
  <2> QED
      BY <1>2, <2>2, <2>3
<1> QED
    BY <1>9, <1>14, <1>15

-----------------------------------------------------------------------------
\* The library's list of a set has each member once.
LEMMA SetListed ==
    ASSUME NEW S, IsFiniteSet(S), NEW l, l = SetToSeq(S), NEW n, n = Cardinality(S)
    PROVE  /\ n \in Nat /\ l \in [1..n -> S]
           /\ \A i, j \in 1..n : l[i] = l[j] => i = j
<1>1. n \in Nat /\ ExistsBijection(1..n, S)
      BY FS_CardinalityType
<1>2. PICK f : f \in Bijection(1..n, S)
      BY <1>1 DEF ExistsBijection
<1>3. f \in [1..n -> S] /\ IsInjective(f)
      BY <1>2 DEF Bijection, Injection
<1>4. l = CHOOSE g \in [1..n -> S] : IsInjective(g)
      BY DEF SetToSeq
<1>5. l \in [1..n -> S] /\ IsInjective(l)
      BY <1>3, <1>4, Zenon
<1> QED
    BY <1>1, <1>5 DEF IsInjective

\* A renumbering of the runs moves none of them to the place of another.
Renumbers(m, n) ==
    /\ m \in [1..n -> 1..n]
    /\ \A i, j \in 1..n : m[i] = m[j] => i = j

\* A renumbering keeps the size of every set of runs.
LEMMA Renumbered ==
    ASSUME NEW n \in Nat, NEW m, Renumbers(m, n), NEW P \in SUBSET (1..n)
    PROVE  Cardinality({i \in 1..n : m[i] \in P}) = Cardinality(P)
<1>1. PICK D : D = 1..n
      OBVIOUS
<1>2. IsFiniteSet(D)
  <2>1. 1 \in Int /\ n \in Int
        OBVIOUS
  <2> QED
      BY <1>1, <2>1, FS_Interval
<1>3. PICK E : E = D
      OBVIOUS
<1>4. m \in Injection(D, E)
      BY <1>1, <1>3 DEF Renumbers, Injection, IsInjective
<1>5. Cardinality(D) = Cardinality(E) /\ IsFiniteSet(E)
      BY <1>2, <1>3
<1>6. m \in Surjection(D, E)
      BY <1>4, <1>5, FS_Injection
<1>7. \A j \in D : \E i \in D : m[i] = j
      BY <1>3, <1>6 DEF Surjection
<1>8. PICK Q : Q = {i \in D : m[i] \in P}
      OBVIOUS
<1>9. PICK f : f = [i \in Q |-> m[i]]
      OBVIOUS
<1>10. f \in Bijection(Q, P)
  <2>1. f \in [Q -> P]
        BY <1>8, <1>9
  <2>2. \A i, j \in Q : f[i] = f[j] => i = j
        BY <1>1, <1>8, <1>9 DEF Renumbers
  <2>3. \A x \in P : \E i \in Q : f[i] = x
        BY <1>1, <1>7, <1>8, <1>9
  <2> QED
      BY <2>1, <2>2, <2>3 DEF Bijection, Injection, Surjection, IsInjective
<1>11. ExistsBijection(Q, P)
       BY <1>10 DEF ExistsBijection
<1>12. IsFiniteSet(Q)
  <2>1. Q \in SUBSET D
        BY <1>8
  <2> QED
      BY <1>2, <2>1, FS_Subset
<1>13. Cardinality(P) = Cardinality(Q)
       BY <1>11, <1>12, FS_Bijection
<1> QED
    BY <1>1, <1>8, <1>13

\* The answers in another order.
Renumber(f, m, n) == [i \in 1..n |-> f[m[i]]]

\* Kappa does not depend on the order of the runs.
LEMMA KappaRenumbered ==
    ASSUME NEW n \in Nat, NEW m, Renumbers(m, n),
           NEW f \in [1..n -> BOOLEAN], NEW g \in [1..n -> BOOLEAN]
    PROVE  cohen_kappa(Renumber(f, m, n), Renumber(g, m, n)) = cohen_kappa(f, g)
<1>0. PICK h, k : h = Renumber(f, m, n) /\ k = Renumber(g, m, n)
      OBVIOUS
<1>a. h = [i \in 1..n |-> f[m[i]]] /\ k = [i \in 1..n |-> g[m[i]]]
      BY <1>0 DEF Renumber
<1>1. \A i \in 1..n : m[i] \in 1..n
      BY DEF Renumbers
<1>2. Len(f) = n /\ DOMAIN f = 1..n
      OBVIOUS
<1>3. Len(h) = n /\ DOMAIN h = 1..n /\ DOMAIN k = 1..n
  <2>1. h = [i \in 1..n |-> h[i]]
        BY <1>a
  <2> QED
      BY <1>a, <2>1, ListOf
<1>4. PICK A, X, Y : A = Alike(f, g) /\ X = Yes(f) /\ Y = Yes(g)
      OBVIOUS
<1>5. A \in SUBSET (1..n) /\ X \in SUBSET (1..n) /\ Y \in SUBSET (1..n)
      BY <1>4 DEF Alike, Yes
<1>6. /\ Alike(h, k) = {i \in 1..n : m[i] \in A}
      /\ Yes(h) = {i \in 1..n : m[i] \in X}
      /\ Yes(k) = {i \in 1..n : m[i] \in Y}
      BY <1>a, <1>1, <1>2, <1>3, <1>4 DEF Alike, Yes
<1>7. /\ Cardinality(Alike(h, k)) = Cardinality(A)
      /\ Cardinality(Yes(h)) = Cardinality(X)
      /\ Cardinality(Yes(k)) = Cardinality(Y)
      BY <1>5, <1>6, Renumbered
<1>8. cohen_kappa(h, k) = KappaOf(n, Cardinality(A), Cardinality(X), Cardinality(Y))
      BY <1>3, <1>7, KappaCounts
<1>9. cohen_kappa(f, g) = KappaOf(n, Cardinality(A), Cardinality(X), Cardinality(Y))
      BY <1>2, <1>4, KappaCounts
<1> QED
    BY <1>0, <1>8, <1>9

-----------------------------------------------------------------------------
\* The place of the first cell with a key.
FirstWith(p, key) == SelectInSeq(p, LAMBDA c : KeyOf(c) = key)

\* The first cell with a key is the cell itself when keys are not repeated.
LEMMA FirstIsOnly ==
    ASSUME NEW p, IsList(p), NEW i \in DOMAIN p,
           \A j \in DOMAIN p : KeyOf(p[j]) = KeyOf(p[i]) => j = i,
           NEW key, key = KeyOf(p[i])
    PROVE  FirstWith(p, key) = i
<1>1. Len(p) \in Nat /\ DOMAIN p = 1..Len(p)
      BY ListFacts
<1>2. {j \in 1..Len(p) : KeyOf(p[j]) = key} = {i}
      BY <1>1
<1>3. Min({i}) = i
  <2>1. i \in Nat
        BY <1>1
  <2> QED
      BY <2>1, OnlyOne
<1> QED
    BY <1>2, <1>3 DEF FirstWith, SelectInSeq

\* When every run was judged, the matrix of two judges has their agreement.
LEMMA MatrixAgrees ==
    ASSUME NEW p, NEW q, KeysMatch(p, q), Len(p) > 1,
           \A i \in DOMAIN p : p[i].judged /\ q[i].judged
    PROVE  judge_agreement_matrix(<<p, q>>).pairs[<<1, 2>>]
             = judge_agreement(p, q).kappa
<1>1. /\ IsList(p) /\ IsList(q) /\ Len(q) = Len(p)
      /\ \A i \in DOMAIN p : KeyOf(q[i]) = KeyOf(p[i])
      /\ \A i, j \in DOMAIN p : KeyOf(p[i]) = KeyOf(p[j]) => i = j
      BY DEF KeysMatch
<1>2. PICK n \in Nat : /\ n = Len(p) /\ DOMAIN p = 1..n /\ DOMAIN q = 1..n
                       /\ Len(q) = n /\ n > 1
      BY <1>1, ListFacts
<1>3. PICK f, g : /\ f = [i \in 1..n |-> JudgeFlags(p[i])]
                  /\ g = [i \in 1..n |-> JudgeFlags(q[i])]
      OBVIOUS
<1>4. f \in [1..n -> BOOLEAN] /\ g \in [1..n -> BOOLEAN]
      BY <1>3 DEF JudgeFlags
<1>5. judge_agreement(p, q).kappa = cohen_kappa(f, g)
  <2>1. PICK ids, runs : ids = [i \in 1..n |-> i] /\ runs = BothJudged(p, q)
        OBVIOUS
  <2>2. ids \in Seq(1..n) /\ DOMAIN ids = 1..n /\ \A i \in 1..n : ids[i] = i
        BY <2>1
  <2>3. PICK S : S = {i \in DOMAIN p : p[i].judged /\ q[i].judged}
        OBVIOUS
  <2>4. DOMAIN ids \subseteq S
        BY <1>2, <2>2, <2>3
  <2>5. Picked(ids, S) = ids
        BY <2>2, <2>4, PickedAll
  <2>6. runs = ids
        BY <1>2, <2>1, <2>3, <2>5 DEF BothJudged
  <2>7. JudgeSays(p, runs) = f /\ JudgeSays(q, runs) = g
        BY <1>3, <2>2, <2>6 DEF JudgeSays
  <2>8. judge_agreement(p, q) = Kappa(f, g, 2)
        BY <2>1, <2>7, AgreementIs
  <2>9. Len(f) = n
        BY <1>4
  <2> QED
      BY <1>2, <2>8, <2>9 DEF Kappa
<1>6. PICK K : K = {KeyOf(c) : c \in ToSet(p)}
      OBVIOUS
<1>7. PICK key : key = [i \in 1..n |-> KeyOf(p[i])]
      OBVIOUS
<1>8. key \in Bijection(1..n, K)
  <2>1. K = {key[i] : i \in 1..n}
        BY <1>2, <1>6, <1>7 DEF ToSet
  <2>2. key \in [1..n -> K]
        BY <1>7, <2>1
  <2>3. \A i, j \in 1..n : key[i] = key[j] => i = j
        BY <1>1, <1>2, <1>7
  <2> QED
      BY <2>1, <2>2, <2>3 DEF Bijection, Injection, Surjection, IsInjective
<1>9. IsFiniteSet(K) /\ Cardinality(K) = n
  <2>1. 1 \in Int /\ n \in Int
        OBVIOUS
  <2>2. IsFiniteSet(1..n) /\ Cardinality(1..n) = IF 1 > n THEN 0 ELSE n - 1 + 1
        BY <2>1, FS_Interval
  <2>3. ExistsBijection(1..n, K)
        BY <1>8 DEF ExistsBijection
  <2>4. IsFiniteSet(K) /\ Cardinality(K) = Cardinality(1..n)
        BY <2>2, <2>3, FS_Bijection
  <2> QED
      BY <2>2, <2>4
<1>10. PICK order : order = SetToSeq(K)
       OBVIOUS
<1>11. order \in [1..n -> K] /\ \A i, j \in 1..n : order[i] = order[j] => i = j
       BY <1>9, <1>10, SetListed
<1>12. \A i \in 1..n : \E j \in 1..n : key[j] = order[i]
       BY <1>8, <1>11 DEF Bijection, Surjection
<1>13. PICK m : m = [i \in 1..n |-> CHOOSE j \in 1..n : key[j] = order[i]]
       OBVIOUS
<1>14. \A i \in 1..n : m[i] \in 1..n /\ key[m[i]] = order[i]
       BY <1>12, <1>13
<1>15. Renumbers(m, n)
       BY <1>11, <1>13, <1>14 DEF Renumbers
<1> DEFINE first(l, k) == l[FirstWith(l, k)]
<1>16. ASSUME NEW i \in 1..n
       PROVE  first(p, order[i]) = p[m[i]] /\ first(q, order[i]) = q[m[i]]
  <2>1. PICK j, k : j = m[i] /\ k = order[i]
        OBVIOUS
  <2>2. j \in 1..n /\ KeyOf(p[j]) = k /\ KeyOf(q[j]) = k
        BY <1>1, <1>2, <1>7, <1>14, <2>1
  <2>3. \A x \in 1..n : KeyOf(p[x]) = KeyOf(p[j]) => x = j
        BY <1>1, <1>2, <2>2
  <2>4. \A x \in 1..n : KeyOf(q[x]) = KeyOf(q[j]) => x = j
        BY <1>1, <1>2, <2>2
  <2>5. FirstWith(p, k) = j
        BY <1>1, <1>2, <2>2, <2>3, FirstIsOnly
  <2>6. FirstWith(q, k) = j
        BY <1>1, <1>2, <2>2, <2>4, FirstIsOnly
  <2> QED
      BY <2>1, <2>5, <2>6
<1>17. PICK h, k : /\ h = [i \in 1..n |-> JudgeFlags(first(p, order[i]))]
                   /\ k = [i \in 1..n |-> JudgeFlags(first(q, order[i]))]
       OBVIOUS
<1>18. h = Renumber(f, m, n) /\ k = Renumber(g, m, n)
       BY <1>3, <1>14, <1>16, <1>17 DEF Renumber
<1>19. cohen_kappa(h, k) = cohen_kappa(f, g)
       BY <1>4, <1>15, <1>18, KappaRenumbered
<1>20. PICK files : files = <<p, q>>
       OBVIOUS
<1>21. DOMAIN files = {1, 2} /\ files[1] = p /\ files[2] = q
       BY <1>20
<1>22. {x \in {KeyOf(c) : c \in ToSet(files[1])} :
          \A j \in DOMAIN files : \E c \in ToSet(files[j]) : KeyOf(c) = x} = K
  <2>1. \A x \in K : \E c \in ToSet(p) : KeyOf(c) = x
        BY <1>6
  <2>2. \A x \in K : \E c \in ToSet(q) : KeyOf(c) = x
    <3>1. ASSUME NEW x \in K PROVE \E c \in ToSet(q) : KeyOf(c) = x
      <4>1. PICK i \in 1..n : x = KeyOf(p[i])
            BY <1>2, <1>6 DEF ToSet
      <4>2. KeyOf(q[i]) = x /\ q[i] \in ToSet(q)
            BY <1>1, <1>2, <4>1 DEF ToSet
      <4> QED
          BY <4>2
    <3> QED
        BY <3>1
  <2> QED
      BY <1>6, <1>21, <2>1, <2>2
<1> HIDE DEF first
<1>23. <<1, 2>> \in {x \in (DOMAIN files) \X (DOMAIN files) : x[1] # x[2]}
       BY <1>21
<1>24. judge_agreement_matrix(files).pairs[<<1, 2>>]
           = cohen_kappa([i \in DOMAIN order |-> JudgeFlags(first(files[1], order[i]))],
                         [i \in DOMAIN order |-> JudgeFlags(first(files[2], order[i]))])
  <2>1. PICK common : common = {x \in {KeyOf(c) : c \in ToSet(files[1])} :
                \A j \in DOMAIN files : \E c \in ToSet(files[j]) : KeyOf(c) = x}
        OBVIOUS
  <2>2. PICK flags : flags = [j \in DOMAIN files |->
                [i \in DOMAIN SetToSeq(common) |->
                    JudgeFlags(first(files[j], SetToSeq(common)[i]))]]
        OBVIOUS
  <2>3. judge_agreement_matrix(files).pairs
            = [x \in {y \in (DOMAIN files) \X (DOMAIN files) : y[1] # y[2]} |->
                  cohen_kappa(flags[x[1]], flags[x[2]])]
        BY <2>1, <2>2 DEF judge_agreement_matrix, first, FirstWith
  <2>4. judge_agreement_matrix(files).pairs[<<1, 2>>] = cohen_kappa(flags[1], flags[2])
    <3>1. PICK x : x = <<1, 2>>
          OBVIOUS
    <3>2. x[1] = 1 /\ x[2] = 2
          BY <3>1
    <3> QED
        BY <1>23, <2>3, <3>1, <3>2
  <2>5. SetToSeq(common) = order
        BY <1>10, <1>22, <2>1
  <2> QED
      BY <1>21, <2>2, <2>4, <2>5
<1>25. DOMAIN order = 1..n
       BY <1>11
<1> QED
    BY <1>5, <1>17, <1>19, <1>20, <1>21, <1>24, <1>25

-----------------------------------------------------------------------------
\* What a judge family said of one cell.
IsRow(row) ==
    \E c : \E asked \in [RenderKeys -> Answers] : row = JudgeRow(c, asked)

\* Each cell that was judged has a row of either family.
JudgedInv ==
    /\ IsList(judged)
    /\ \A i \in DOMAIN judged : \E x, y :
          judged[i] = <<x, y>> /\ IsRow(x) /\ IsRow(y)

\* No trace has been judged before the first step.
LEMMA JudgedInit == Init => JudgedInv
<1> SUFFICES ASSUME Init PROVE JudgedInv
    OBVIOUS
<1>1. judged = <<>>
      BY DEF Init
<1>2. IsList(judged) /\ Len(judged) = 0
      BY <1>1, EmptyList
<1>3. DOMAIN judged = 1..0
      BY <1>2, ListFacts
<1> QED
    BY <1>2, <1>3 DEF JudgedInv

\* Every step adds at most one pair of rows to the judged ones.
LEMMA JudgedNext == JudgedInv /\ [Next]_vars => JudgedInv'
<1> SUFFICES ASSUME JudgedInv, [Next]_vars PROVE JudgedInv'
    OBVIOUS
<1>1. CASE UNCHANGED judged
      BY <1>1 DEF JudgedInv
<1>2. ASSUME NEW o, RunCell(o) PROVE JudgedInv'
  <2>1. UNCHANGED judged
        BY <1>2 DEF RunCell
  <2> QED
      BY <1>1, <2>1
<1>3. ASSUME NEW s, Arrive(s) PROVE JudgedInv'
  <2>1. UNCHANGED judged
        BY <1>3 DEF Arrive
  <2> QED
      BY <1>1, <2>1
<1>4. ASSUME NEW f \in [RenderKeys -> Answers], NEW g \in [RenderKeys -> Answers],
             JudgeCell(f, g)
      PROVE  JudgedInv'
  <2>1. PICK p, q, c, n : /\ p = judged /\ c = Swept[Len(judged) + 1] /\ n = Len(p)
                          /\ q = Append(p, <<JudgeRow(c, f), JudgeRow(c, g)>>)
        OBVIOUS
  <2>2. judged' = q
        BY <1>4, <2>1 DEF JudgeCell
  <2>3. PICK z : z = <<JudgeRow(c, f), JudgeRow(c, g)>>
        OBVIOUS
  <2>4. \E x, y : z = <<x, y>> /\ IsRow(x) /\ IsRow(y)
        BY <2>3 DEF IsRow
  <2>5. /\ IsList(p)
        /\ \A i \in DOMAIN p : \E x, y : p[i] = <<x, y>> /\ IsRow(x) /\ IsRow(y)
        BY <2>1 DEF JudgedInv
  <2>6. OneMore(q, p, z)
        BY <2>1, <2>3, <2>5, ListGrows
  <2>7. /\ IsList(q) /\ Len(q) = n + 1 /\ q[n + 1] = z
        /\ \A k \in 1..n : q[k] = p[k]
        BY <2>1, <2>6 DEF OneMore
  <2>8. n \in Nat /\ DOMAIN p = 1..n /\ DOMAIN q = 1..n + 1
        BY <2>1, <2>5, <2>7, ListFacts
  <2>9. \A i \in 1..n + 1 : i \in 1..n \/ i = n + 1
        BY <2>8
  <2>10. \A i \in DOMAIN q : \E x, y : q[i] = <<x, y>> /\ IsRow(x) /\ IsRow(y)
         BY <2>4, <2>5, <2>7, <2>8, <2>9
  <2> QED
      BY <2>2, <2>7, <2>10 DEF JudgedInv
<1> QED
    BY <1>1, <1>2, <1>3, <1>4 DEF Next, vars

\* JudgedInv is an invariant of Experiments: the rows of the two families are
\* those of the same cells (experiments/causal_judge.py).
THEOREM JudgedInvariant == Spec => []JudgedInv
<1>1. Init => JudgedInv
      BY JudgedInit
<1>2. JudgedInv /\ [Next]_vars => JudgedInv'
      BY JudgedNext
<1> QED
    BY <1>1, <1>2, PTL DEF Spec

-----------------------------------------------------------------------------
\* A row has an answer or an error for each rendering.
LEMMA RowFacts ==
    ASSUME NEW row, IsRow(row)
    PROVE  /\ DOMAIN row.renderings = RenderKeys \ row.errors
           /\ DOMAIN row.renderings \in SUBSET RenderKeys
           /\ DOMAIN Answered(row) = {r \in DOMAIN row.renderings :
                                        row.renderings[r] # NoAnswer}
           /\ \A r \in DOMAIN Answered(row) : Answered(row)[r] = row.renderings[r]
           /\ DOMAIN Answered(row) \in SUBSET RenderKeys
<1>0. PICK c : \E asked \in [RenderKeys -> Answers] : row = JudgeRow(c, asked)
      BY DEF IsRow
<1>1. PICK asked \in [RenderKeys -> Answers] : row = JudgeRow(c, asked)
      BY <1>0
<1>2. PICK got : got = {r \in DOMAIN asked : asked[r] # Outage}
      OBVIOUS
<1>3. row.renderings = [r \in got |-> asked[r]] /\ row.errors = DOMAIN asked \ got
      BY <1>1, <1>2 DEF JudgeRow
<1>4. DOMAIN asked = RenderKeys /\ got \in SUBSET RenderKeys
      BY <1>2
<1>5. /\ DOMAIN row.renderings = RenderKeys \ row.errors
      /\ DOMAIN row.renderings \in SUBSET RenderKeys
      BY <1>3, <1>4
<1>6. /\ DOMAIN Answered(row) = {r \in DOMAIN row.renderings :
                                   row.renderings[r] # NoAnswer}
      /\ \A r \in DOMAIN Answered(row) : Answered(row)[r] = row.renderings[r]
      BY DEF Answered
<1> QED
    BY <1>5, <1>6

\* Two or more.
LEMMA TwoMembers ==
    ASSUME NEW S, IsFiniteSet(S)
    PROVE  Cardinality(S) > 1 <=> \E x, y \in S : x # y
<1>1. PICK n \in Nat : n = Cardinality(S)
      BY FS_CardinalityType
<1>2. n = 0 <=> S = {}
      BY <1>1, FS_EmptySet
<1>3. n = 1 <=> \E x : S = {x}
      BY <1>1, FS_Singleton
<1>4. (\E x, y \in S : x # y) <=> S # {} /\ ~\E x : S = {x}
      OBVIOUS
<1>5. n > 1 <=> n # 0 /\ n # 1
      OBVIOUS
<1> QED
    BY <1>1, <1>2, <1>3, <1>4, <1>5

\* A judge flips if two of the renderings it answered got different verdicts.
LEMMA FlipIsDifference ==
    ASSUME NEW row, IsRow(row)
    PROVE  causal_judge_flip_rate(<<row>>).hits = 1 <=>
             \E r, q \in RenderKeys \ row.errors :
                /\ row.renderings[r] # row.renderings[q]
                /\ NoAnswer \notin {row.renderings[r], row.renderings[q]}
<1>1. PICK f, D : f = Answered(row) /\ D = DOMAIN f
      OBVIOUS
<1>2. /\ D = {r \in RenderKeys \ row.errors : row.renderings[r] # NoAnswer}
      /\ \A r \in D : f[r] = row.renderings[r]
      /\ D \in SUBSET RenderKeys
      BY <1>1, RowFacts
<1>3. PICK O : O = {f[r] : r \in D}
      OBVIOUS
<1>4. Opinions(row) = O
      BY <1>1, <1>3 DEF Opinions
<1>5. IsFiniteSet(O)
  <2>1. IsFiniteSet(D)
        BY <1>2, JudgesAssumption, FS_Subset
  <2> QED
      BY <1>3, <2>1, ValuesFinite
<1>6. Differ(O) <=> \E x, y \in O : x # y
      BY <1>5, TwoMembers DEF Differ
<1>7. Differ(O) <=> \E r, q \in D : f[r] # f[q]
      BY <1>3, <1>6
<1>8. PICK rows : rows = <<row>>
      OBVIOUS
<1>9. DOMAIN rows = {1} /\ rows[1] = row
      BY <1>8
<1>10. PICK H : H = {i \in DOMAIN rows : Opinions(rows[i]) # {} /\ Differ(Opinions(rows[i]))}
       OBVIOUS
<1>11. causal_judge_flip_rate(rows).hits = Cardinality(H)
       BY <1>10 DEF causal_judge_flip_rate, Share, HowMany, Rate
<1>12. CASE Differ(O)
  <2>1. O # {}
        BY <1>6, <1>12
  <2>2. H = {1}
        BY <1>4, <1>9, <1>10, <1>12, <2>1
  <2>3. Cardinality({1}) = 1
        BY FS_Singleton
  <2>4. \E r, q \in RenderKeys \ row.errors :
            /\ row.renderings[r] # row.renderings[q]
            /\ NoAnswer \notin {row.renderings[r], row.renderings[q]}
        BY <1>2, <1>7, <1>12
  <2> QED
      BY <1>8, <1>11, <2>2, <2>3, <2>4
<1>13. CASE ~Differ(O)
  <2>1. H = {}
        BY <1>4, <1>9, <1>10, <1>13
  <2>2. Cardinality(H) = 0
        BY <2>1, FS_EmptySet
  <2>3. ~\E r, q \in RenderKeys \ row.errors :
            /\ row.renderings[r] # row.renderings[q]
            /\ NoAnswer \notin {row.renderings[r], row.renderings[q]}
        BY <1>2, <1>7, <1>13
  <2> QED
      BY <1>8, <1>11, <2>2, <2>3
<1> QED
    BY <1>12, <1>13

-----------------------------------------------------------------------------
\* The keys that a family judged are finitely many.
LEMMA IndexFinite ==
    ASSUME NEW rows, IsList(rows), \A i \in DOMAIN rows : IsRow(rows[i])
    PROVE  IsFiniteSet(DOMAIN Index(rows))
<1>1. PICK R : R = ToSet(rows)
      OBVIOUS
<1>2. IsFiniteSet(R)
      BY <1>1, ConditionsFinite
<1>3. IsFiniteSet(R \X RenderKeys)
      BY <1>2, JudgesAssumption, FS_Product
<1>4. PICK h : h = [p \in R \X RenderKeys |-> <<p[1].trace, p[1].evidence, p[2]>>]
      OBVIOUS
<1>5. PICK K : K = {h[p] : p \in R \X RenderKeys}
      OBVIOUS
<1>6. IsFiniteSet(K)
      BY <1>3, <1>5, ValuesFinite
<1>7. DOMAIN Index(rows) = UNION {{<<row.trace, row.evidence, r>> :
                                      r \in DOMAIN Answered(row)} : row \in R}
      BY <1>1 DEF Index
<1>8. ASSUME NEW row \in R, NEW r \in DOMAIN Answered(row)
      PROVE  <<row.trace, row.evidence, r>> \in K
  <2>1. IsRow(row)
        BY <1>1 DEF ToSet
  <2>2. r \in RenderKeys
        BY <2>1, RowFacts
  <2>3. PICK p : p = <<row, r>>
        OBVIOUS
  <2>4. p \in R \X RenderKeys /\ p[1] = row /\ p[2] = r
        BY <2>2, <2>3
  <2>5. h[p] = <<row.trace, row.evidence, r>>
        BY <1>4, <2>4
  <2> QED
      BY <1>5, <2>4, <2>5
<1>9. DOMAIN Index(rows) \in SUBSET K
      BY <1>7, <1>8
<1> QED
    BY <1>6, <1>9, FS_Subset

\* Who is named first makes no difference to the causal judges, and their
\* matrix says what their agreement says.
LEMMA CausalJudgesAgree ==
    ASSUME NEW p, IsList(p), \A i \in DOMAIN p : IsRow(p[i]),
           NEW q, IsList(q), \A i \in DOMAIN q : IsRow(q[i]),
           NEW agreed, agreed = causal_judge_agreement(p, q)
    PROVE  /\ agreed = causal_judge_agreement(q, p)
           /\ agreed.n > 1 =>
                causal_judge_agreement_matrix(<<p, q>>).pairs[<<1, 2>>] = agreed.kappa
<1>1. PICK K, P, Q : /\ P = Index(p) /\ Q = Index(q)
                     /\ K = DOMAIN P \cap DOMAIN Q
      OBVIOUS
<1>2. IsFiniteSet(K)
  <2>1. IsFiniteSet(DOMAIN P)
        BY <1>1, IndexFinite
  <2>2. K \in SUBSET (DOMAIN P)
        BY <1>1
  <2> QED
      BY <2>1, <2>2, FS_Subset
<1>3. PICK order, n : order = SetToSeq(K) /\ n = Cardinality(K)
      OBVIOUS
<1>4. n \in Nat /\ order \in [1..n -> K]
      BY <1>2, <1>3, SetListed
<1>5. PICK f, g : f = Doubts(P, order) /\ g = Doubts(Q, order)
      OBVIOUS
<1>6. f \in [1..n -> BOOLEAN] /\ g \in [1..n -> BOOLEAN]
      BY <1>4, <1>5 DEF Doubts
<1>7. Len(f) = n /\ Len(g) = n
      BY <1>4, <1>6
<1>8. agreed = Kappa(f, g, 2)
      BY <1>1, <1>3, <1>5 DEF causal_judge_agreement
<1>9. causal_judge_agreement(q, p) = Kappa(g, f, 2)
  <2>1. DOMAIN Q \cap DOMAIN P = K
        BY <1>1
  <2>2. SetToSeq(DOMAIN Q \cap DOMAIN P) = order
        BY <1>3, <2>1
  <2> QED
      BY <1>1, <1>5, <2>2 DEF causal_judge_agreement
<1>10. cohen_kappa(g, f) = cohen_kappa(f, g)
       BY <1>4, <1>6, KappaIsFair
<1>11. agreed = causal_judge_agreement(q, p)
       BY <1>7, <1>8, <1>9, <1>10 DEF Kappa
<1>12. ASSUME agreed.n > 1
       PROVE  causal_judge_agreement_matrix(<<p, q>>).pairs[<<1, 2>>] = agreed.kappa
  <2>1. agreed.kappa = cohen_kappa(f, g)
        BY <1>4, <1>7, <1>8, <1>12 DEF Kappa
  <2>2. PICK files : files = <<p, q>>
        OBVIOUS
  <2>3. DOMAIN files = {1, 2} /\ files[1] = p /\ files[2] = q
        BY <2>2
  <2>4. PICK common : common = {k \in DOMAIN Index(files[1]) :
                \A j \in DOMAIN files : k \in DOMAIN Index(files[j])}
        OBVIOUS
  <2>5. common = K
        BY <1>1, <2>3, <2>4
  <2>6. PICK flags : flags = [j \in DOMAIN files |->
                                Doubts(Index(files[j]), SetToSeq(common))]
        OBVIOUS
  <2>7. causal_judge_agreement_matrix(files).pairs
            = [x \in {y \in (DOMAIN files) \X (DOMAIN files) : y[1] # y[2]} |->
                  cohen_kappa(flags[x[1]], flags[x[2]])]
        BY <2>4, <2>6 DEF causal_judge_agreement_matrix
  <2>8. causal_judge_agreement_matrix(files).pairs[<<1, 2>>]
            = cohen_kappa(flags[1], flags[2])
    <3>1. PICK x : x = <<1, 2>>
          OBVIOUS
    <3>2. /\ x[1] = 1 /\ x[2] = 2
          /\ x \in {y \in (DOMAIN files) \X (DOMAIN files) : y[1] # y[2]}
          BY <2>3, <3>1
    <3> QED
        BY <2>7, <3>1, <3>2
  <2>9. flags[1] = f /\ flags[2] = g
        BY <1>1, <1>3, <1>5, <2>3, <2>5, <2>6
  <2> QED
      BY <2>1, <2>2, <2>8, <2>9
<1> QED
    BY <1>11, <1>12

-----------------------------------------------------------------------------
\* The cells of the two files have the keys of the grid.
LEMMA FilesMatch ==
    ASSUME GridInv, NEW p, p = a, NEW q, q = b,
           Cardinality({KeyOf(c) : c \in ToSet(grid)}) = Len(grid)
    PROVE  /\ KeysMatch(p, q)
           /\ \A i \in DOMAIN p : fault_label(q[i]) = fault_label(p[i])
<1>1. PICK g : g = grid
      OBVIOUS
<1>2. /\ IsList(g) /\ IsList(p) /\ IsList(q) /\ Len(p) = Len(q) /\ Len(p) <= Len(g)
      /\ \A i \in DOMAIN p : \E x, y : /\ p[i] = CellResult(g[i], x)
                                       /\ q[i] = CellResult(g[i], y)
  <2>1. /\ IsList(g) /\ IsList(p) /\ IsList(q) /\ Len(p) = Len(q) /\ Len(p) <= Len(g)
        BY <1>1 DEF GridInv
  <2>2. \A i \in DOMAIN p : \E outcome \in Outcomes :
           /\ p[i] = CellResult(g[i], outcome[1])
           /\ q[i] = CellResult(g[i], outcome[2])
        BY <1>1, Zenon DEF GridInv
  <2>3. ASSUME NEW i \in DOMAIN p
        PROVE  \E x, y : p[i] = CellResult(g[i], x) /\ q[i] = CellResult(g[i], y)
    <3>1. PICK outcome \in Outcomes : /\ p[i] = CellResult(g[i], outcome[1])
                                      /\ q[i] = CellResult(g[i], outcome[2])
          BY <2>2, Zenon
    <3> QED
        BY <3>1, Zenon
  <2> QED
      BY <2>1, <2>3
<1>3. PICK n \in Nat, m \in Nat : /\ n = Len(p) /\ DOMAIN p = 1..n
                                  /\ m = Len(g) /\ DOMAIN g = 1..m
      BY <1>2, ListFacts
<1>4. \A i \in 1..n : SamePlace(p[i], g[i]) /\ SamePlace(q[i], g[i])
      BY <1>2, <1>3, CellFacts DEF SamePlace
<1>5. \A i \in 1..n : /\ KeyOf(p[i]) = KeyOf(g[i]) /\ KeyOf(q[i]) = KeyOf(g[i])
                      /\ fault_label(q[i]) = fault_label(p[i])
      BY <1>4 DEF SamePlace, KeyOf, fault_label
<1>6. PICK K : K = {KeyOf(c) : c \in ToSet(g)}
      OBVIOUS
<1>7. PICK key : key = [i \in 1..m |-> KeyOf(g[i])]
      OBVIOUS
<1>8. key \in Surjection(1..m, K)
  <2>1. K = {key[i] : i \in 1..m}
        BY <1>3, <1>6, <1>7 DEF ToSet
  <2>2. key \in [1..m -> K]
        BY <1>7, <2>1
  <2> QED
      BY <2>1, <2>2 DEF Surjection
<1>9. IsFiniteSet(1..m) /\ Cardinality(1..m) = m
  <2>1. 1 \in Int /\ m \in Int
        OBVIOUS
  <2>2. IsFiniteSet(1..m) /\ Cardinality(1..m) = IF 1 > m THEN 0 ELSE m - 1 + 1
        BY <2>1, FS_Interval
  <2> QED
      BY <2>2
<1>10. Cardinality(K) = m
       BY <1>1, <1>3, <1>6
<1>11. key \in Injection(1..m, K)
       BY <1>8, <1>9, <1>10, FS_Surjection
<1>12. \A i, j \in 1..m : KeyOf(g[i]) = KeyOf(g[j]) => i = j
       BY <1>7, <1>11 DEF Injection, IsInjective
<1>13. \A i \in 1..n : i \in 1..m
       BY <1>2, <1>3
<1>14. \A i, j \in 1..n : KeyOf(p[i]) = KeyOf(p[j]) => i = j
       BY <1>5, <1>12, <1>13
<1> QED
    BY <1>2, <1>3, <1>5, <1>14 DEF KeysMatch

\* The flags of two judges on the runs of one grid have a fair kappa.
LEMMA FlagsAreFair ==
    ASSUME NEW p, IsList(p), NEW q, IsList(q), Len(p) = Len(q)
    PROVE  FairKappa(FlagsOf(p, JudgeFlags), FlagsOf(q, JudgeFlags))
<1>1. PICK n \in Nat : n = Len(p) /\ DOMAIN p = 1..n /\ DOMAIN q = 1..n
      BY ListFacts
<1>2. PICK f, g : /\ f = FlagsOf(p, JudgeFlags)
                  /\ g = FlagsOf(q, JudgeFlags)
      OBVIOUS
<1>3. f \in [1..n -> BOOLEAN] /\ g \in [1..n -> BOOLEAN]
      BY <1>1, <1>2 DEF FlagsOf, JudgeFlags
<1>4. FairKappa(f, g)
      BY <1>3, KappaIsFair
<1> QED
    BY <1>2, <1>4

\* What two files of one grid say of each other.
LEMMA FilesAreFair ==
    ASSUME NEW p, NEW q, KeysMatch(p, q)
    PROVE  /\ judge_agreement(p, q) = judge_agreement(q, p)
           /\ (\A c \in ToSet(p) \cup ToSet(q) : c.judged) /\ Len(p) > 1 =>
                 judge_agreement_matrix(<<p, q>>).pairs[<<1, 2>>]
                     = judge_agreement(p, q).kappa
<1>1. /\ IsList(p) /\ IsList(q) /\ Len(q) = Len(p)
      /\ KeysMatch(q, p) /\ DOMAIN q = DOMAIN p
      BY KeysMatchBack DEF KeysMatch
<1>2. PICK runs, n : runs = BothJudged(p, q) /\ n = Len(runs)
      OBVIOUS
<1>3. BothJudged(q, p) = runs
  <2>1. PICK S, R : /\ S = {i \in DOMAIN p : p[i].judged /\ q[i].judged}
                    /\ R = {i \in DOMAIN q : q[i].judged /\ p[i].judged}
        OBVIOUS
  <2>2. S = R
        BY <1>1, <2>1
  <2>3. runs = Picked([i \in DOMAIN p |-> i], S)
        BY <1>2, <2>1 DEF BothJudged
  <2>4. BothJudged(q, p) = Picked([i \in DOMAIN q |-> i], R)
        BY <2>1 DEF BothJudged
  <2> QED
      BY <1>1, <2>2, <2>3, <2>4
<1>4. PICK f, g : f = JudgeSays(p, runs) /\ g = JudgeSays(q, runs)
      OBVIOUS
<1>5. n \in Nat /\ f \in [1..n -> BOOLEAN] /\ g \in [1..n -> BOOLEAN]
      BY <1>1, <1>2, <1>4, BothJudgedFacts
<1>6. judge_agreement(p, q) = Kappa(f, g, 2)
      BY <1>2, <1>4, AgreementIs
<1>7. judge_agreement(q, p) = Kappa(g, f, 2)
      BY <1>1, <1>3, <1>4, AgreementIs
<1>8. cohen_kappa(g, f) = cohen_kappa(f, g)
      BY <1>5, KappaIsFair
<1>9. Len(f) = n /\ Len(g) = n
      BY <1>5
<1>10. judge_agreement(p, q) = judge_agreement(q, p)
       BY <1>6, <1>7, <1>8, <1>9 DEF Kappa
<1>12. ASSUME \A c \in ToSet(p) \cup ToSet(q) : c.judged, Len(p) > 1
       PROVE  judge_agreement_matrix(<<p, q>>).pairs[<<1, 2>>]
                  = judge_agreement(p, q).kappa
  <2>1. \A i \in DOMAIN p : p[i].judged /\ q[i].judged
        BY <1>1, <1>12 DEF ToSet
  <2> QED
      BY <1>12, <2>1, MatrixAgrees
<1> QED
    BY <1>10, <1>12

\* For every grid, every outcome of its cells and every answer of the judges,
\* and at every point of the run: two files of one grid are compared run by
\* run with their own other halves, the comparison turns round with the files,
\* every kappa lies between -1 and 1 whoever is named first and whichever
\* answer is called yes, and the matrices say what the pairwise agreements say
\* (experiments/analyze.py).
THEOREM ComparisonStaysFair == Spec => []ComparisonIsFair
<1>1. GridInv /\ JudgedInv => ComparisonIsFair
  <2> SUFFICES ASSUME GridInv, JudgedInv PROVE ComparisonIsFair
      OBVIOUS
  <2>1. PICK p, q, rows : p = a /\ q = b /\ rows = judged
        OBVIOUS
  <2>2. IsList(p) /\ IsList(q) /\ Len(p) = Len(q)
        BY <2>1 DEF GridInv
  <2>3. FairKappa(FlagsOf(p, JudgeFlags), FlagsOf(q, JudgeFlags))
        BY <2>2, FlagsAreFair
  <2>4. PICK first, second : /\ first = [i \in DOMAIN rows |-> rows[i][1]]
                             /\ second = [i \in DOMAIN rows |-> rows[i][2]]
        OBVIOUS
  <2>5. /\ IsList(rows)
        /\ \A i \in DOMAIN rows : IsRow(rows[i][1]) /\ IsRow(rows[i][2])
    <3>1. /\ IsList(rows)
          /\ \A i \in DOMAIN rows : \E x, y :
                rows[i] = <<x, y>> /\ IsRow(x) /\ IsRow(y)
          BY <2>1 DEF JudgedInv
    <3>2. ASSUME NEW i \in DOMAIN rows PROVE IsRow(rows[i][1]) /\ IsRow(rows[i][2])
      <4>1. PICK x, y : rows[i] = <<x, y>> /\ IsRow(x) /\ IsRow(y)
            BY <3>1
      <4>2. rows[i][1] = x /\ rows[i][2] = y
            BY <4>1
      <4> QED
          BY <4>1, <4>2
    <3> QED
        BY <3>1, <3>2
  <2>6. /\ IsList(first) /\ \A i \in DOMAIN first : IsRow(first[i])
        /\ IsList(second) /\ \A i \in DOMAIN second : IsRow(second[i])
    <3>1. PICK n \in Nat : n = Len(rows) /\ DOMAIN rows = 1..n
          BY <2>5, ListFacts
    <3>2. first = [i \in 1..n |-> first[i]] /\ second = [i \in 1..n |-> second[i]]
          BY <2>4, <3>1
    <3>3. IsList(first) /\ IsList(second)
          BY <3>2, ListOf
    <3> QED
        BY <2>4, <2>5, <3>3
  <2>7. PICK agreed : agreed = causal_judge_agreement(first, second)
        OBVIOUS
  <2>8. /\ agreed = causal_judge_agreement(second, first)
        /\ agreed.n > 1 =>
              causal_judge_agreement_matrix(<<first, second>>).pairs[<<1, 2>>]
                  = agreed.kappa
        BY <2>6, <2>7, CausalJudgesAgree
  <2>9. ASSUME NEW i \in DOMAIN rows, NEW side \in {1, 2}
        PROVE  causal_judge_flip_rate(<<rows[i][side]>>).hits = 1 <=>
                 \E r, s \in RenderKeys \ rows[i][side].errors :
                    /\ rows[i][side].renderings[r] # rows[i][side].renderings[s]
                    /\ NoAnswer \notin {rows[i][side].renderings[r],
                                        rows[i][side].renderings[s]}
    <3>1. PICK row : row = rows[i][side]
          OBVIOUS
    <3>2. IsRow(row)
          BY <2>5, <3>1
    <3> QED
        BY <3>1, <3>2, FlipIsDifference
  <2>10. PICK there, back, same :
            there = delta(p, q) /\ back = delta(q, p) /\ same = delta(p, p)
         OBVIOUS
  <2>11. ASSUME Cardinality({KeyOf(c) : c \in ToSet(grid)}) = Len(grid)
         PROVE  /\ there.pairedRuns = Len(p) /\ back.pairedRuns = Len(p)
                /\ \A f \in DOMAIN there.rows :
                      /\ there.rows[f].delta = -back.rows[f].delta
                      /\ same.rows[f].delta = 0
                /\ judge_agreement(p, q) = judge_agreement(q, p)
                /\ (\A c \in ToSet(p) \cup ToSet(q) : c.judged) /\ Len(p) > 1 =>
                      judge_agreement_matrix(<<p, q>>).pairs[<<1, 2>>]
                          = judge_agreement(p, q).kappa
    <3>1. /\ KeysMatch(p, q)
          /\ \A i \in DOMAIN p : fault_label(q[i]) = fault_label(p[i])
          BY <2>1, <2>11, FilesMatch
    <3>2. /\ there.pairedRuns = Len(p) /\ back.pairedRuns = Len(p)
          /\ \A f \in DOMAIN there.rows :
                /\ there.rows[f].delta = -back.rows[f].delta
                /\ same.rows[f].delta = 0
          BY <2>10, <3>1, DeltasTurn
    <3> QED
        BY <3>1, <3>2, FilesAreFair
  <2> QED
      BY <2>1, <2>3, <2>4, <2>7, <2>8, <2>9, <2>10, <2>11 DEF ComparisonIsFair
<1>2. Spec => []GridInv
      BY GridInvariant
<1>3. Spec => []JudgedInv
      BY JudgedInvariant
<1> QED
    BY <1>1, <1>2, <1>3, PTL

=============================================================================
