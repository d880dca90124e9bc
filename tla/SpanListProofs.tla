-------------------------- MODULE SpanListProofs ----------------------------
(***************************************************************************)
(* Lemmas about the spans of a trace: in what order the reconstruction and  *)
(* the recorder put them, the tree walked from its roots, and when two      *)
(* lists give the same run.                                                 *)
(***************************************************************************)
EXTENDS RunGraph, Artifacts, ListProofs

\* The order of the starts, and that of the recorder.
ByStart(T) == {e \in T \X T : StartsBefore(e[1], e[2])}
ByStartAndId(T) == {e \in T \X T : SpanBefore(e[1], e[2])}

\* graph.Reconstruct sorts the spans by their start.
LEMMA SortedByStart ==
    ASSUME NEW T, NEW seq \in Seq(T), NEW p, p = Sorted(seq, StartsBefore)
    PROVE  SortOf(p, seq, T, ByStart(T))
<1> PICK N \in Nat : N = Len(seq) /\ DOMAIN seq = 1..N
    OBVIOUS
<1> PICK R : R = ByStart(T)
    OBVIOUS
<1> DEFINE Place(s, x) == Cardinality({k \in DOMAIN s : ~StartsBefore(x, s[k])})
           IsUpto(F) == F = [n \in 0..N |->
                IF n = 0 THEN <<>>
                ELSE InsertAt(F[n - 1], Place(F[n - 1], seq[n]) + 1, seq[n])]
<1>1. \A n \in 1..N : seq[n] \in T
      OBVIOUS
<1>2. Sorted(seq, StartsBefore) = (CHOOSE F : IsUpto(F))[N]
      BY DEF Sorted
<1>3. ASSUME NEW s \in Seq(T), NEW x \in T
      PROVE  InsertAt(s, Place(s, x) + 1, x) = InsertSorted(s, x, R)
  <2>1. \A k \in DOMAIN s : s[k] \in T
        OBVIOUS
  <2>2. \A k \in DOMAIN s : ~StartsBefore(x, s[k]) <=> <<x, s[k]>> \notin R
        BY <2>1 DEF ByStart
  <2>3. {k \in DOMAIN s : ~StartsBefore(x, s[k])} = Ahead(s, x, R)
        BY <2>2 DEF Ahead
  <2> QED
      BY <2>3 DEF InsertSorted
<1> HIDE DEF Place
<1>4. PICK G : SortsUpto(G, T, N, seq, R)
      BY <1>1, SortExists
<1>5. /\ G \in [0..N -> Seq(T)] /\ G[0] = <<>>
      /\ \A n \in 1..N : G[n] = InsertSorted(G[n - 1], seq[n], R)
      BY <1>4 DEF SortsUpto
<1>6. IsUpto(G)
  <2>1. \A n \in 1..N : G[n - 1] \in Seq(T)
        BY <1>5
  <2>2. \A n \in 1..N :
            G[n] = InsertAt(G[n - 1], Place(G[n - 1], seq[n]) + 1, seq[n])
        BY <1>1, <1>3, <1>5, <2>1
  <2>3. \A n \in 0..N : n # 0 => n \in 1..N
        OBVIOUS
  <2>4. \A n \in 0..N : G[n] = IF n = 0 THEN <<>>
                ELSE InsertAt(G[n - 1], Place(G[n - 1], seq[n]) + 1, seq[n])
        BY <1>5, <2>2, <2>3
  <2>5. G = [n \in 0..N |-> G[n]]
        BY <1>5
  <2> QED
      BY <2>4, <2>5, Zenon
<1>7. PICK F : IsUpto(F) /\ p = F[N]
      BY <1>2, <1>6, Zenon
<1>8. \A n \in 0..N : F[n] = IF n = 0 THEN <<>>
                ELSE InsertAt(F[n - 1], Place(F[n - 1], seq[n]) + 1, seq[n])
      BY <1>7, Zenon
<1> HIDE DEF IsUpto
<1>9. F[0] = <<>>
      BY <1>8
<1>10. \A n \in 1..N : F[n - 1] \in Seq(T) =>
                           F[n] = InsertSorted(F[n - 1], seq[n], R)
  <2> SUFFICES ASSUME NEW n \in 1..N, F[n - 1] \in Seq(T)
               PROVE  F[n] = InsertSorted(F[n - 1], seq[n], R)
      OBVIOUS
  <2>1. n \in 0..N /\ n # 0
        OBVIOUS
  <2>2. F[n] = InsertAt(F[n - 1], Place(F[n - 1], seq[n]) + 1, seq[n])
        BY <1>8, <2>1
  <2> QED
      BY <1>1, <1>3, <2>2
<1>11. F[N] = G[N]
       BY <1>4, <1>9, <1>10, SortsAgree
<1>12. SortOf(G[N], seq, T, R)
       BY <1>4, SortResult
<1> QED
    BY <1>7, <1>11, <1>12

\* The same of the recorder's order.
LEMMA SortedByStartAndId ==
    ASSUME NEW T, NEW seq \in Seq(T), NEW p, p = Sorted(seq, SpanBefore)
    PROVE  SortOf(p, seq, T, ByStartAndId(T))
<1> PICK N \in Nat : N = Len(seq) /\ DOMAIN seq = 1..N
    OBVIOUS
<1> PICK R : R = ByStartAndId(T)
    OBVIOUS
<1> DEFINE Place(s, x) == Cardinality({k \in DOMAIN s : ~SpanBefore(x, s[k])})
           IsUpto(F) == F = [n \in 0..N |->
                IF n = 0 THEN <<>>
                ELSE InsertAt(F[n - 1], Place(F[n - 1], seq[n]) + 1, seq[n])]
<1>1. \A n \in 1..N : seq[n] \in T
      OBVIOUS
<1>2. Sorted(seq, SpanBefore) = (CHOOSE F : IsUpto(F))[N]
      BY DEF Sorted
<1>3. ASSUME NEW s \in Seq(T), NEW x \in T
      PROVE  InsertAt(s, Place(s, x) + 1, x) = InsertSorted(s, x, R)
  <2>1. \A k \in DOMAIN s : s[k] \in T
        OBVIOUS
  <2>2. \A k \in DOMAIN s : ~SpanBefore(x, s[k]) <=> <<x, s[k]>> \notin R
        BY <2>1 DEF ByStartAndId
  <2>3. {k \in DOMAIN s : ~SpanBefore(x, s[k])} = Ahead(s, x, R)
        BY <2>2 DEF Ahead
  <2> QED
      BY <2>3 DEF InsertSorted
<1> HIDE DEF Place
<1>4. PICK G : SortsUpto(G, T, N, seq, R)
      BY <1>1, SortExists
<1>5. /\ G \in [0..N -> Seq(T)] /\ G[0] = <<>>
      /\ \A n \in 1..N : G[n] = InsertSorted(G[n - 1], seq[n], R)
      BY <1>4 DEF SortsUpto
<1>6. IsUpto(G)
  <2>1. \A n \in 1..N : G[n - 1] \in Seq(T)
        BY <1>5
  <2>2. \A n \in 1..N :
            G[n] = InsertAt(G[n - 1], Place(G[n - 1], seq[n]) + 1, seq[n])
        BY <1>1, <1>3, <1>5, <2>1
  <2>3. \A n \in 0..N : n # 0 => n \in 1..N
        OBVIOUS
  <2>4. \A n \in 0..N : G[n] = IF n = 0 THEN <<>>
                ELSE InsertAt(G[n - 1], Place(G[n - 1], seq[n]) + 1, seq[n])
        BY <1>5, <2>2, <2>3
  <2>5. G = [n \in 0..N |-> G[n]]
        BY <1>5
  <2> QED
      BY <2>4, <2>5, Zenon
<1>7. PICK F : IsUpto(F) /\ p = F[N]
      BY <1>2, <1>6, Zenon
<1>8. \A n \in 0..N : F[n] = IF n = 0 THEN <<>>
                ELSE InsertAt(F[n - 1], Place(F[n - 1], seq[n]) + 1, seq[n])
      BY <1>7, Zenon
<1> HIDE DEF IsUpto
<1>9. F[0] = <<>>
      BY <1>8
<1>10. \A n \in 1..N : F[n - 1] \in Seq(T) =>
                           F[n] = InsertSorted(F[n - 1], seq[n], R)
  <2> SUFFICES ASSUME NEW n \in 1..N, F[n - 1] \in Seq(T)
               PROVE  F[n] = InsertSorted(F[n - 1], seq[n], R)
      OBVIOUS
  <2>1. n \in 0..N /\ n # 0
        OBVIOUS
  <2>2. F[n] = InsertAt(F[n - 1], Place(F[n - 1], seq[n]) + 1, seq[n])
        BY <1>8, <2>1
  <2> QED
      BY <1>1, <1>3, <2>2
<1>11. F[N] = G[N]
       BY <1>4, <1>9, <1>10, SortsAgree
<1>12. SortOf(G[N], seq, T, R)
       BY <1>4, SortResult
<1> QED
    BY <1>7, <1>11, <1>12

\* Starts that order all spans.
DistinctStarts(V) ==
    /\ \A s \in V : s.start \in Int /\ s.id \in Int
    /\ \A s, t \in V : s.start = t.start => s = t

\* Such starts make both orders strict and total on the spans.
LEMMA StartsOrder ==
    ASSUME NEW T, NEW V, V \subseteq T, DistinctStarts(V)
    PROVE  Orders(ByStart(T), V) /\ Orders(ByStartAndId(T), V)
<1>1. \A s, t \in V : <<s, t>> \in ByStart(T) <=> s.start < t.start
      BY DEF ByStart, StartsBefore
<1>2. \A s, t \in V : <<s, t>> \in ByStartAndId(T) <=> SpanBefore(s, t)
      BY DEF ByStartAndId
<1>3. \A s, t \in V : SpanBefore(s, t) <=> s.start < t.start
  <2> SUFFICES ASSUME NEW s \in V, NEW t \in V
               PROVE  SpanBefore(s, t) <=> s.start < t.start
      OBVIOUS
  <2>1. s.start \in Int /\ t.start \in Int /\ s.id \in Int
        /\ (s.start = t.start => s = t)
        BY DEF DistinctStarts
  <2> QED
      BY <2>1 DEF SpanBefore
<1>4. Orders(ByStart(T), V)
      BY <1>1 DEF Orders, DistinctStarts
<1>5. Orders(ByStartAndId(T), V)
      BY <1>2, <1>3 DEF Orders, DistinctStarts
<1> QED
    BY <1>4, <1>5

\* What Reconstruct makes of a list with ids and starts of their own does
\* not depend on the order of the list.
LEMMA SameRun ==
    ASSUME NEW T, NEW p \in Seq(T), NEW q \in Seq(T),
           DistinctIds(p), DistinctIds(q), ToSet(p) = ToSet(q),
           DistinctStarts(ToSet(p))
    PROVE  Reconstruct(p) = Reconstruct(q)
<1>1. PICK u : u = Unique(p)
      OBVIOUS
<1>2. PICK v : v = Unique(q)
      OBVIOUS
<1>3. /\ u \in Seq(T) /\ Distinct(u) /\ ToSet(u) = ToSet(p)
      /\ v \in Seq(T) /\ Distinct(v) /\ ToSet(v) = ToSet(p)
      BY <1>1, <1>2, UniqueFacts
<1>4. ToSet(p) \subseteq T
      BY DEF ToSet
<1>5. Orders(ByStart(T), ToSet(p))
      BY <1>4, StartsOrder
<1>6. PICK a : a = Sorted(u, StartsBefore)
      OBVIOUS
<1>7. PICK b : b = Sorted(v, StartsBefore)
      OBVIOUS
<1>8. SortOf(a, u, T, ByStart(T)) /\ SortOf(b, v, T, ByStart(T))
      BY <1>3, <1>6, <1>7, SortedByStart
<1>9. a = b
      BY <1>3, <1>5, <1>8, SortsEqual
<1>10. Ids(p) = Ids(q) /\ Orphans(p) = Orphans(q)
       BY <1>1, <1>2, <1>3 DEF Ids, Orphans
<1>11. DOMAIN p \ Kept(p) = {} /\ DOMAIN q \ Kept(q) = {}
       BY AllKept
<1>12. /\ {p[i].id : i \in DOMAIN p \ Kept(p)} = {}
       /\ {q[i].id : i \in DOMAIN q \ Kept(q)} = {}
       BY <1>11
<1> QED
    BY <1>1, <1>2, <1>3, <1>6, <1>7, <1>9, <1>10, <1>12 DEF Reconstruct

-----------------------------------------------------------------------------
\* W holds what a walk to each depth visits from each span of the order.
Below(order, s, w) ==
    <<s>> \o FlattenSeq([k \in DOMAIN Children(order, s) |->
                            w[Children(order, s)[k]]])

WalksUpto(W, N, order) ==
    /\ W \in [0..N -> [ToSet(order) -> Seq(ToSet(order))]]
    /\ \A s \in ToSet(order) : W[0][s] = <<>>
    /\ \A n \in 1..N : \A s \in ToSet(order) :
          W[n][s] = Below(order, s, W[n - 1])

\* The children of a span.
LEMMA ChildrenFacts ==
    ASSUME NEW T, NEW order \in Seq(T), NEW s, NEW c, c = Children(order, s)
    PROVE  /\ c \in Seq(ToSet(order))
           /\ ToSet(c) = {t \in ToSet(order) : t.parent = s.id}
<1>1. PICK O : O = ToSet(order)
      OBVIOUS
<1>2. order \in Seq(O)
      BY <1>1 DEF ToSet
<1>3. PICK S : S = {k \in DOMAIN order : order[k].parent = s.id}
      OBVIOUS
<1>4. c = Picked(order, S)
      BY <1>3 DEF Children
<1>5. c \in Seq(O) /\ ToSet(c) = {order[i] : i \in S \cap DOMAIN order}
      BY <1>2, <1>4, PickedFacts
<1>6. {order[i] : i \in S \cap DOMAIN order} = {t \in O : t.parent = s.id}
      BY <1>1, <1>3 DEF ToSet
<1> QED
    BY <1>1, <1>5, <1>6

\* A list of lists, each of which the walk made of a child.
LEMMA BelowFacts ==
    ASSUME NEW T, NEW order \in Seq(T), NEW s \in ToSet(order),
           NEW w \in [ToSet(order) -> Seq(ToSet(order))],
           NEW b, b = Below(order, s, w)
    PROVE  /\ b \in Seq(ToSet(order))
           /\ ToSet(b) = {s} \cup UNION {ToSet(w[t]) : t \in
                             {t \in ToSet(order) : t.parent = s.id}}
<1>1. PICK O : O = ToSet(order)
      OBVIOUS
<1>2. PICK c : c = Children(order, s)
      OBVIOUS
<1>3. c \in Seq(O) /\ ToSet(c) = {t \in O : t.parent = s.id}
      BY <1>1, <1>2, ChildrenFacts
<1>4. w \in [O -> Seq(O)]
      BY <1>1
<1>5. PICK ss : ss = [k \in DOMAIN c |-> w[c[k]]]
      OBVIOUS
<1>6. ss \in Seq(Seq(O)) /\ DOMAIN ss = DOMAIN c
      /\ \A k \in DOMAIN c : ss[k] = w[c[k]]
  <2>1. PICK m \in Nat : m = Len(c) /\ DOMAIN c = 1..m
        BY <1>3
  <2>2. \A k \in 1..m : c[k] \in O
        BY <1>3, <2>1
  <2>3. \A k \in 1..m : w[c[k]] \in Seq(O)
        BY <1>4, <2>2
  <2>4. ss \in [1..m -> Seq(O)] /\ \A k \in 1..m : ss[k] = w[c[k]]
        BY <1>5, <2>1, <2>3
  <2>5. DOMAIN ss = 1..m
        BY <2>4
  <2>6. ss \in Seq(Seq(O))
        BY <2>4, IsASeq
  <2> QED
      BY <2>1, <2>4, <2>5, <2>6
<1>7. PICK f : f = FlattenSeq(ss)
      OBVIOUS
<1>8. f \in Seq(O) /\ ToSet(f) = UNION {ToSet(ss[i]) : i \in DOMAIN ss}
      BY <1>6, <1>7, FlattenFacts
<1>e. PICK e : e = <<s>>
      OBVIOUS
<1>9. IsJoin(b, e, f)
      BY <1>2, <1>5, <1>7, <1>e DEF Below, IsJoin
<1>10. e \in Seq(O) /\ ToSet(e) = {s}
       BY <1>1, <1>e DEF ToSet
<1>11. b \in Seq(O) /\ ToSet(b) = {s} \cup ToSet(f)
  <2>1. e \in Seq(O) /\ f \in Seq(O)
        BY <1>8, <1>10
  <2>2. b \in Seq(O) /\ ToSet(b) = ToSet(e) \cup ToSet(f)
        BY <1>9, <2>1, JoinFacts
  <2> QED
      BY <1>10, <2>2
<1>12. {ToSet(ss[i]) : i \in DOMAIN ss}
           = {ToSet(w[t]) : t \in {t \in O : t.parent = s.id}}
  <2>1. {c[k] : k \in DOMAIN c} = {t \in O : t.parent = s.id}
        BY <1>3 DEF ToSet
  <2>2. ASSUME NEW X
        PROVE  X \in {ToSet(ss[i]) : i \in DOMAIN ss}
                   <=> X \in {ToSet(w[t]) : t \in {c[k] : k \in DOMAIN c}}
        BY <1>6
  <2> QED
      BY <2>1, <2>2
<1> QED
    BY <1>1, <1>8, <1>11, <1>12

\* What the recursive function in Walk computes.
LEMMA WalkSteps ==
    ASSUME NEW T, NEW order \in Seq(T), NEW N, N = Len(order)
    PROVE  \E W : WalksUpto(W, N, order) /\ Walk(order) = W[N]
<1> PICK O : O = ToSet(order)
    OBVIOUS
<1> PICK V : V = [O -> Seq(O)]
    OBVIOUS
<1> DEFINE Down(w) == [s \in O |-> Below(order, s, w)]
           None == [s \in O |-> <<>>]
           IsUpto(W) == W = [n \in 0..N |-> [s \in O |->
                IF n = 0 THEN <<>> ELSE Below(order, s, W[n - 1])]]
<1>1. N \in Nat
      OBVIOUS
<1>2. Walk(order) = (CHOOSE W : IsUpto(W))[N]
      BY DEF Walk, Below
<1>3. \A w \in V : Down(w) \in V
  <2>1. ASSUME NEW w \in V, NEW s \in O PROVE Below(order, s, w) \in Seq(O)
        BY BelowFacts
  <2> QED
      BY <2>1
<1>4. None \in V
      OBVIOUS
<1>5. \A w, s : s \in O => Down(w)[s] = Below(order, s, w) /\ None[s] = <<>>
      OBVIOUS
<1>6. /\ \A w : Down(w) = [s \in O |-> Down(w)[s]]
      /\ None = [s \in O |-> None[s]]
      OBVIOUS
<1> DEFINE G == [p \in (1..N) \X V |-> Down(p[2])]
<1>7. G \in [(1..N) \X V -> V] /\ \A n \in 1..N, w \in V : G[<<n, w>>] = Down(w)
  <2> HIDE DEF Down
  <2>1. \A p \in (1..N) \X V : p[2] \in V
        OBVIOUS
  <2> QED
      BY <1>3, <2>1
<1> HIDE DEF G
<1>8. PICK f \in [0..N -> V] : Recurs(f, N, None, G)
      BY <1>1, <1>4, <1>7, RecursionExists
<1>9. f[0] = None /\ \A n \in 1..N : f[n] = Down(f[n - 1])
  <2> HIDE DEF Down, None
  <2>1. \A n \in 1..N : f[n - 1] \in V /\ f[n] = G[<<n, f[n - 1]>>]
    <3>1. \A n \in 1..N : n - 1 \in 0..N
          BY <1>1
    <3>2. \A n \in 1..N : f[n - 1] \in V
          BY <1>8, <3>1
    <3> QED
        BY <1>8, <3>2 DEF Recurs
  <2> QED
      BY <1>7, <1>8, <2>1 DEF Recurs
<1> DEFINE Step2(W, n) == [s \in O |->
                IF n = 0 THEN <<>> ELSE Below(order, s, W[n - 1])]
<1>10. \A W : Step2(W, 0) = None /\ \A n \in 1..N : Step2(W, n) = Down(W[n - 1])
       OBVIOUS
<1>11. IsUpto(f)
  <2>1. \A n \in 0..N : n = 0 \/ n \in 1..N
        OBVIOUS
  <2>2. \A n \in 0..N : f[n] = Step2(f, n)
    <3> HIDE DEF Step2, Down, None
    <3> QED
        BY <1>9, <1>10, <2>1
  <2>3. f = [n \in 0..N |-> f[n]]
        BY <1>8
  <2> QED
      BY <2>2, <2>3, Zenon
<1>12. PICK W : IsUpto(W) /\ Walk(order) = W[N]
       BY <1>2, <1>11, Zenon
<1>13. W = [n \in 0..N |-> W[n]] /\ \A n \in 0..N : W[n] = Step2(W, n)
       BY <1>12, Zenon
<1> HIDE DEF IsUpto
<1>14. W[0] = None /\ \A n \in 1..N : W[n] = Down(W[n - 1])
  <2>1. 0 \in 0..N /\ \A n \in 1..N : n \in 0..N
        BY <1>1
  <2> HIDE DEF Step2, Down, None
  <2> QED
      BY <1>10, <1>13, <2>1
<1> HIDE DEF Step2
<1> DEFINE H == {n \in 0..N : W[n] \in V}
<1>15. \A n \in 0..N : n \in H
  <2>1. 0 \in H
    <3> HIDE DEF Down, None
    <3> QED
        BY <1>1, <1>4, <1>14
  <2>2. \A n \in 1..N : n - 1 \in H => n \in H
    <3> HIDE DEF Down, None
    <3> QED
        BY <1>1, <1>3, <1>14
  <2> HIDE DEF H
  <2> QED
      BY <1>1, <2>1, <2>2, UpTo
<1>16. W \in [0..N -> V]
       BY <1>13, <1>15
<1>17. \A s \in O : W[0][s] = <<>>
       BY <1>14
<1>18. \A n \in 1..N : \A s \in O : W[n][s] = Below(order, s, W[n - 1])
  <2> HIDE DEF Down
  <2> QED
      BY <1>5, <1>14
<1>19. WalksUpto(W, N, order)
       BY <1>16, <1>17, <1>18 DEF WalksUpto
<1> QED
    BY <1>12, <1>19

-----------------------------------------------------------------------------
\* Whom the walk reaches: the spans themselves, and what is below them, as
\* long as the depth allows.
LEMMA WalkReaches ==
    ASSUME NEW T, NEW order \in Seq(T), NEW N \in Nat, NEW W,
           WalksUpto(W, N, order), NEW n \in 1..N, NEW s \in ToSet(order)
    PROVE  /\ W[n][s] \in Seq(ToSet(order))
           /\ s \in ToSet(W[n][s])
           /\ \A t \in ToSet(order) : t.parent = s.id =>
                 ToSet(W[n - 1][t]) \subseteq ToSet(W[n][s])
<1> PICK O : O = ToSet(order)
    OBVIOUS
<1>1. /\ W \in [0..N -> [O -> Seq(O)]]
      /\ W[n][s] = Below(order, s, W[n - 1])
      BY DEF WalksUpto
<1>2. PICK w : w = W[n - 1]
      OBVIOUS
<1>3. w \in [O -> Seq(O)]
      BY <1>1, <1>2
<1>4. PICK b : b = Below(order, s, w)
      OBVIOUS
<1>5. /\ b \in Seq(O)
      /\ ToSet(b) = {s} \cup UNION {ToSet(w[t]) : t \in
                        {t \in O : t.parent = s.id}}
      BY <1>3, <1>4, BelowFacts
<1>6. W[n][s] = b
      BY <1>1, <1>2, <1>4
<1> QED
    BY <1>2, <1>5, <1>6

\* The roots of a run, orphans among them.
LEMMA RootsFacts ==
    ASSUME NEW T, NEW order \in Seq(T), NEW r, r = Roots(order)
    PROVE  /\ r \in Seq(ToSet(order))
           /\ ToSet(r) = {s \in ToSet(order) :
                             s.parent = NoSpan \/ s.parent \notin Ids(order)}
<1>1. PICK O : O = ToSet(order)
      OBVIOUS
<1>2. order \in Seq(O)
      BY <1>1 DEF ToSet
<1>3. PICK S : S = {k \in DOMAIN order :
                        order[k].parent = NoSpan \/ order[k].parent \notin Ids(order)}
      OBVIOUS
<1>4. r = Picked(order, S)
      BY <1>3 DEF Roots
<1>5. r \in Seq(O) /\ ToSet(r) = {order[i] : i \in S \cap DOMAIN order}
      BY <1>2, <1>4, PickedFacts
<1>6. {order[i] : i \in S \cap DOMAIN order}
          = {s \in O : s.parent = NoSpan \/ s.parent \notin Ids(order)}
      BY <1>1, <1>3 DEF ToSet
<1> QED
    BY <1>1, <1>5, <1>6

\* The steps are what the walk visits from the roots.
LEMMA StepsFacts ==
    ASSUME NEW T, NEW order \in Seq(T), NEW w, w = Walk(order),
           NEW x, x = Steps(order), NEW r, r = Roots(order)
    PROVE  /\ x \in Seq(ToSet(order))
           /\ ToSet(x) = UNION {ToSet(w[s]) : s \in ToSet(r)}
<1> PICK O : O = ToSet(order)
    OBVIOUS
<1> PICK N : N = Len(order)
    OBVIOUS
<1>1. PICK W : WalksUpto(W, N, order) /\ w = W[N]
      BY WalkSteps
<1>2. W \in [0..N -> [O -> Seq(O)]] /\ N \in Nat
      BY <1>1 DEF WalksUpto
<1>3. w \in [O -> Seq(O)]
      BY <1>1, <1>2
<1>4. r \in Seq(O)
      BY RootsFacts
<1>5. PICK ss : ss = [k \in DOMAIN r |-> w[r[k]]]
      OBVIOUS
<1>6. ss \in Seq(Seq(O)) /\ DOMAIN ss = DOMAIN r
      /\ \A k \in DOMAIN r : ss[k] = w[r[k]]
  <2>1. PICK m \in Nat : m = Len(r) /\ DOMAIN r = 1..m
        BY <1>4
  <2>2. \A k \in 1..m : r[k] \in O
        BY <1>4, <2>1
  <2>3. \A k \in 1..m : w[r[k]] \in Seq(O)
        BY <1>3, <2>2
  <2>4. ss \in [1..m -> Seq(O)] /\ \A k \in 1..m : ss[k] = w[r[k]]
        BY <1>5, <2>1, <2>3
  <2>5. DOMAIN ss = 1..m
        BY <2>4
  <2>6. ss \in Seq(Seq(O))
        BY <2>4, IsASeq
  <2> QED
      BY <2>1, <2>4, <2>5, <2>6
<1>7. x = FlattenSeq(ss)
      BY <1>5 DEF Steps
<1>8. x \in Seq(O) /\ ToSet(x) = UNION {ToSet(ss[i]) : i \in DOMAIN ss}
      BY <1>6, <1>7, FlattenFacts
<1>9. {ToSet(ss[i]) : i \in DOMAIN ss} = {ToSet(w[s]) : s \in ToSet(r)}
  <2>1. ASSUME NEW X
        PROVE  X \in {ToSet(ss[i]) : i \in DOMAIN ss}
                   <=> X \in {ToSet(w[s]) : s \in {r[k] : k \in DOMAIN r}}
        BY <1>6
  <2>2. ToSet(r) = {r[k] : k \in DOMAIN r}
        BY DEF ToSet
  <2> QED
      BY <2>1, <2>2
<1> QED
    BY <1>8, <1>9

\* Every span that hangs from a root, directly or by its parent, is a step.
LEMMA StepsReach ==
    ASSUME NEW T, NEW order \in Seq(T), NEW x, x = Steps(order),
           NEW r \in ToSet(order), NEW p \in ToSet(order), NEW s \in ToSet(order),
           r.parent = NoSpan \/ r.parent \notin Ids(order),
           p = r \/ p.parent = r.id,
           s = p \/ (s # r /\ p # r /\ s.parent = p.id)
    PROVE  s \in ToSet(x)
<1> PICK O : O = ToSet(order)
    OBVIOUS
<1> PICK N \in Nat : N = Len(order) /\ DOMAIN order = 1..N
    OBVIOUS
<1>1. PICK W : WalksUpto(W, N, order) /\ Walk(order) = W[N]
      BY WalkSteps
<1>2. r \in ToSet(Roots(order))
      BY RootsFacts
<1>3. ToSet(W[N][r]) \subseteq ToSet(x)
      BY <1>1, <1>2, StepsFacts
<1>4. \A a \in O : \E k \in 1..N : order[k] = a
      BY DEF ToSet
<1>5. N >= 1
      BY <1>4
<1>6. CASE s = r
  <2>1. r \in ToSet(W[N][r])
        BY <1>1, <1>5, WalkReaches
  <2> QED
      BY <1>3, <1>6, <2>1
<1>7. CASE s # r /\ (s = p \/ p = r)
  <2>1. s.parent = r.id
        BY <1>7
  <2>2. PICK i \in 1..N, j \in 1..N : order[i] = s /\ order[j] = r
        BY <1>4
  <2>3. i # j
        BY <1>7, <2>2
  <2>4. N \in 1..N /\ N - 1 \in 1..N
        BY <2>2, <2>3
  <2>5. s \in ToSet(W[N - 1][s])
        BY <1>1, <2>4, WalkReaches
  <2>6. ToSet(W[N - 1][s]) \subseteq ToSet(W[N][r])
        BY <1>1, <2>1, <2>4, WalkReaches
  <2> QED
      BY <1>3, <2>5, <2>6
<1>8. CASE s # r /\ s # p /\ p # r
  <2>1. s.parent = p.id /\ p.parent = r.id
        BY <1>8
  <2>2. PICK i \in 1..N, j \in 1..N, k \in 1..N :
            order[i] = s /\ order[j] = r /\ order[k] = p
        BY <1>4
  <2>3. i # j /\ i # k /\ j # k
        BY <1>8, <2>2
  <2>4. N \in 1..N /\ N - 1 \in 1..N /\ N - 2 \in 1..N /\ (N - 1) - 1 = N - 2
        BY <2>2, <2>3
  <2>5. s \in ToSet(W[N - 2][s])
        BY <1>1, <2>4, WalkReaches
  <2>6. ToSet(W[N - 2][s]) \subseteq ToSet(W[N - 1][p])
    <3>0. PICK m \in 1..N : m = N - 1
          BY <2>4
    <3>1. ToSet(W[m - 1][s]) \subseteq ToSet(W[m][p])
          BY <1>1, <2>1, WalkReaches
    <3> QED
        BY <2>4, <3>0, <3>1
  <2>7. ToSet(W[N - 1][p]) \subseteq ToSet(W[N][r])
        BY <1>1, <2>1, <2>4, WalkReaches
  <2> QED
      BY <1>3, <2>5, <2>6, <2>7
<1> QED
    BY <1>6, <1>7, <1>8

-----------------------------------------------------------------------------
\* The steps of a run are spans of the list; the list alone tells the rest.
LEMMA RunFacts ==
    ASSUME NEW T, NEW spans \in Seq(T), NEW run, run = Reconstruct(spans)
    PROVE  /\ run.steps \in Seq(ToSet(spans))
           /\ StepsOf(run) \subseteq ToSet(spans)
           /\ run.missingParents = Orphans(spans)
           /\ run.duplicates = {spans[i].id : i \in DOMAIN spans \ Kept(spans)}
<1>1. PICK u : u = Unique(spans)
      OBVIOUS
<1>2. u \in Seq(T) /\ ToSet(u) \subseteq ToSet(spans)
      BY <1>1, UniqueFacts
<1>3. PICK order : order = Sorted(u, StartsBefore)
      OBVIOUS
<1>4. order \in Seq(T) /\ ToSet(order) = ToSet(u)
      BY <1>2, <1>3, SortedByStart DEF SortOf
<1>5. PICK x : x = Steps(order)
      OBVIOUS
<1>6. x \in Seq(ToSet(order))
      BY <1>4, <1>5, StepsFacts
<1>7. x \in Seq(ToSet(spans)) /\ ToSet(x) \subseteq ToSet(spans)
  <2>1. \A k \in DOMAIN x : x[k] \in ToSet(spans)
        BY <1>2, <1>4, <1>6
  <2>2. x \in Seq(ToSet(spans))
        BY <1>6, <2>1
  <2> QED
      BY <2>1, <2>2 DEF ToSet
<1>8. run.steps = x
      BY <1>1, <1>3, <1>5 DEF Reconstruct
<1> QED
    BY <1>7, <1>8 DEF Reconstruct, StepsOf

\* A span hangs from a root, directly or by its parent.
Hangs(s, V) ==
    \E r, p \in V : /\ r.parent = NoSpan
                    /\ p = r \/ p.parent = r.id
                    /\ s = p \/ (s # r /\ p # r /\ s.parent = p.id)

\* A list of spans that form a tree is a run of all of them.
LEMMA WholeRun ==
    ASSUME NEW T, NEW spans \in Seq(T), DistinctIds(spans),
           NEW run, run = Reconstruct(spans)
    PROVE  \A s \in ToSet(spans) : Hangs(s, ToSet(spans)) => s \in StepsOf(run)
<1>1. PICK u : u = Unique(spans)
      OBVIOUS
<1>2. u \in Seq(T) /\ ToSet(u) = ToSet(spans)
      BY <1>1, UniqueFacts
<1>3. PICK order : order = Sorted(u, StartsBefore)
      OBVIOUS
<1>4. order \in Seq(T) /\ ToSet(order) = ToSet(spans)
      BY <1>2, <1>3, SortedByStart DEF SortOf
<1>5. PICK x : x = Steps(order)
      OBVIOUS
<1>6. run.steps = x
      BY <1>1, <1>3, <1>5 DEF Reconstruct
<1>7. ASSUME NEW s \in ToSet(spans), Hangs(s, ToSet(spans))
      PROVE  s \in ToSet(x)
  <2>1. PICK r \in ToSet(order), p \in ToSet(order) :
            /\ r.parent = NoSpan
            /\ p = r \/ p.parent = r.id
            /\ s = p \/ (s # r /\ p # r /\ s.parent = p.id)
        BY <1>4, <1>7 DEF Hangs
  <2> QED
      BY <1>4, <1>5, <2>1, StepsReach
<1> QED
    BY <1>6, <1>7 DEF StepsOf

\* What a list without repeated ids lacks: parents, and targets of links.
LEMMA MissingFacts ==
    ASSUME NEW T, NEW spans \in Seq(T), DistinctIds(spans),
           NEW run, run = Reconstruct(spans)
    PROVE  /\ run.missingParents = {s \in ToSet(spans) :
                 s.parent # NoSpan /\ s.parent \notin Ids(spans)}
           /\ \A s \in ToSet(spans) : \A l \in ToSet(s.links) :
                 /\ l \notin Ids(spans) => <<l, s.id>> \in run.missingLinks
           /\ \A e \in run.edges : \E s \in ToSet(spans) :
                 e[1] \in ToSet(s.links) /\ e[2] = s.id
           /\ \A e \in run.missingLinks : \E s \in ToSet(spans) :
                 e[1] \in ToSet(s.links) /\ e[1] \notin Ids(spans)
           /\ \A s \in ToSet(spans) : \A l \in ToSet(s.links) :
                 l \in Ids(spans) /\ l # s.id => <<l, s.id>> \in run.edges
           /\ run.duplicates = {}
           /\ run.closed <=> \E s \in ToSet(spans) : s.parent = NoSpan /\ s.closed
<1>1. PICK V : V = ToSet(spans)
      OBVIOUS
<1>2. PICK u : u = Unique(spans)
      OBVIOUS
<1>3. ToSet(u) = V
      BY <1>1, <1>2, UniqueFacts
<1>4. PICK links : links = UNION {{<<l, s.id>> : l \in ToSet(s.links)} : s \in V}
      OBVIOUS
<1>5. /\ run.missingParents = {s \in V : s.parent # NoSpan /\ s.parent \notin Ids(spans)}
      /\ run.missingLinks = {l \in links : l[1] \notin Ids(spans)}
      /\ run.edges = {l \in links : l[1] \in Ids(spans) /\ l[1] # l[2]}
      /\ run.closed = \E s \in V : s.parent = NoSpan /\ s.closed
      BY <1>2, <1>3, <1>4 DEF Reconstruct, Orphans, tracesClosed
<1>6. \A s \in V : \A l \in ToSet(s.links) : <<l, s.id>> \in links
      BY <1>4
<1>7. \A e \in links : \E s \in V : e[1] \in ToSet(s.links) /\ e[2] = s.id
      BY <1>4
<1>8. run.duplicates = {}
  <2>1. DOMAIN spans \ Kept(spans) = {}
        BY AllKept
  <2>2. run.duplicates = {spans[i].id : i \in DOMAIN spans \ Kept(spans)}
        BY RunFacts
  <2> QED
      BY <2>1, <2>2
<1> QED
    BY <1>1, <1>5, <1>6, <1>7, <1>8

\* The root of a run is a span without a parent in the list.
LEMMA RootIsThere ==
    ASSUME NEW T, NEW spans \in Seq(T), DistinctIds(spans),
           NEW run, run = Reconstruct(spans),
           NEW s \in ToSet(spans),
           s.parent = NoSpan \/ s.parent \notin Ids(spans)
    PROVE  /\ run.root \in ToSet(spans)
           /\ run.root.parent = NoSpan \/ run.root.parent \notin Ids(spans)
<1>1. PICK u : u = Unique(spans)
      OBVIOUS
<1>2. u \in Seq(T) /\ ToSet(u) = ToSet(spans)
      BY <1>1, UniqueFacts
<1>3. PICK order : order = Sorted(u, StartsBefore)
      OBVIOUS
<1>4. order \in Seq(T) /\ ToSet(order) = ToSet(spans)
      BY <1>2, <1>3, SortedByStart DEF SortOf
<1>5. PICK roots : roots = Roots(order)
      OBVIOUS
<1>6. /\ roots \in Seq(ToSet(order))
      /\ ToSet(roots) = {r \in ToSet(order) :
                            r.parent = NoSpan \/ r.parent \notin Ids(order)}
      BY <1>4, <1>5, RootsFacts
<1>7. Ids(order) = Ids(spans)
      BY <1>4 DEF Ids
<1>8. s \in ToSet(roots)
      BY <1>4, <1>6, <1>7
<1>9. 1 \in DOMAIN roots
  <2>1. PICK k \in DOMAIN roots : roots[k] = s
        BY <1>8 DEF ToSet
  <2> QED
      BY <1>6, <2>1
<1>10. roots[1] \in ToSet(roots)
       BY <1>9 DEF ToSet
<1>11. run.root = roots[1]
       BY <1>1, <1>3, <1>5 DEF Reconstruct
<1> QED
    BY <1>4, <1>6, <1>7, <1>10, <1>11

-----------------------------------------------------------------------------
\* Spans that are numbered, each higher than its parent, and told apart.
Upward(V) ==
    /\ \A s \in V : s.id \in Nat /\ s.parent \in Int /\ s.parent < s.id
    /\ IdsTell(V)

\* What a walk from s visits: s itself, and spans whose parent it visits.
Descends(w, s) ==
    /\ Distinct(w)
    /\ \A x \in ToSet(w) :
          /\ s.id <= x.id
          /\ x = s \/ \E y \in ToSet(w) : y.id = x.parent

\* The walks from two siblings, or from two roots, do not meet.
LEMMA WalksApart ==
    ASSUME NEW V, Upward(V), NEW s \in V, NEW t \in V, s # t,
           s.parent = t.parent,
           NEW a, ToSet(a) \subseteq V, Descends(a, s),
           NEW b, ToSet(b) \subseteq V, Descends(b, t)
    PROVE  Apart(a, b)
<1> SUFFICES ASSUME NEW z \in ToSet(a), z \in ToSet(b) PROVE FALSE
    BY DEF Apart
<1> PICK M : M = {x.id : x \in ToSet(a) \cap ToSet(b)}
    OBVIOUS
<1>1. M \in SUBSET Nat /\ M # {}
      BY DEF Upward
<1>2. PICK m \in M : \A n \in M : m <= n
      BY <1>1, LeastNumber
<1>3. PICK x \in ToSet(a) \cap ToSet(b) : x.id = m
      BY <1>2
<1>4. /\ x \in V /\ x.id \in Nat /\ x.parent \in Int /\ x.parent < x.id
      /\ s.id \in Nat /\ s.parent \in Int /\ s.parent < s.id
      /\ t.id \in Nat /\ t.parent \in Int /\ t.parent < t.id
      BY <1>3 DEF Upward
<1>5. x # s
  <2>1. ASSUME x = s PROVE FALSE
    <3>1. PICK y \in ToSet(b) : y.id = x.parent
          BY <1>3, <2>1 DEF Descends
    <3>2. t.id <= y.id
          BY <3>1 DEF Descends
    <3> QED
        BY <1>4, <2>1, <3>1, <3>2
  <2> QED
      BY <2>1
<1>6. x # t
  <2>1. ASSUME x = t PROVE FALSE
    <3>1. PICK y \in ToSet(a) : y.id = x.parent
          BY <1>3, <2>1 DEF Descends
    <3>2. s.id <= y.id
          BY <3>1 DEF Descends
    <3> QED
        BY <1>4, <2>1, <3>1, <3>2
  <2> QED
      BY <2>1
<1>7. PICK y \in ToSet(a) : y.id = x.parent
      BY <1>3, <1>5 DEF Descends
<1>8. PICK u \in ToSet(b) : u.id = x.parent
      BY <1>3, <1>6 DEF Descends
<1>9. y = u
      BY <1>7, <1>8 DEF Upward, IdsTell
<1>10. y.id \in M
       BY <1>7, <1>8, <1>9
<1>11. m <= y.id
       BY <1>2, <1>10
<1> QED
    BY <1>3, <1>4, <1>7, <1>11

\* A span followed by what the walks from its children visit.
LEMMA BelowDescends ==
    ASSUME NEW T, NEW order \in Seq(T), Distinct(order),
           NEW O, O = ToSet(order), Upward(O), NEW s \in O,
           NEW w \in [O -> Seq(O)], \A t \in O : Descends(w[t], t),
           NEW b, b = Below(order, s, w)
    PROVE  Descends(b, s)
<1>1. /\ b \in Seq(O)
      /\ ToSet(b) = {s} \cup UNION {ToSet(w[t]) : t \in {t \in O : t.parent = s.id}}
      BY BelowFacts
<1>2. PICK c : c = Children(order, s)
      OBVIOUS
<1>3. c \in Seq(O) /\ ToSet(c) = {t \in O : t.parent = s.id}
      BY <1>2, ChildrenFacts
<1>4. Distinct(c)
  <2>1. PICK S : S = {k \in DOMAIN order : order[k].parent = s.id}
        OBVIOUS
  <2>2. c = Picked(order, S)
        BY <1>2, <2>1 DEF Children
  <2>3. \A i, j \in S \cap DOMAIN order : order[i] = order[j] => i = j
        BY DEF Distinct
  <2> QED
      BY <2>2, <2>3, PickedDistinct
<1>5. PICK m \in Nat : m = Len(c) /\ DOMAIN c = 1..m
      BY <1>3
<1>6. \A k \in 1..m : c[k] \in O /\ c[k].parent = s.id
  <2>1. \A k \in 1..m : c[k] \in ToSet(c)
        BY <1>5 DEF ToSet
  <2> QED
      BY <1>3, <2>1
<1>7. PICK ss : ss = [k \in 1..m |-> w[c[k]]]
      OBVIOUS
<1>8. /\ ss \in [1..m -> Seq(O)] /\ DOMAIN ss = 1..m
      /\ \A k \in 1..m : ss[k] = w[c[k]]
      BY <1>6, <1>7
<1>9. ss \in Seq(Seq(O))
      BY <1>8, IsASeq
<1>10. \A k \in 1..m : Distinct(ss[k]) /\ Descends(ss[k], c[k])
       BY <1>6, <1>8 DEF Descends
<1>11. \A k \in 1..m : ToSet(ss[k]) \subseteq O
  <2>1. \A k \in 1..m : ss[k] \in Seq(O)
        BY <1>8
  <2> QED
      BY <2>1, SeqPart
<1>12. ASSUME NEW i \in 1..m, NEW j \in 1..m, i # j
       PROVE  Apart(ss[i], ss[j])
  <2>1. c[i] # c[j] /\ c[i] \in O /\ c[j] \in O /\ c[i].parent = c[j].parent
        BY <1>4, <1>5, <1>6, <1>12 DEF Distinct
  <2> QED
      BY <1>10, <1>11, <2>1, WalksApart
<1>13. PICK f : f = FlattenSeq(ss)
       OBVIOUS
<1>14. f \in Seq(O) /\ ToSet(f) = UNION {ToSet(ss[i]) : i \in DOMAIN ss}
       BY <1>9, <1>13, FlattenFacts
<1>15. Distinct(f)
       BY <1>8, <1>9, <1>10, <1>12, <1>13, FlattenDistinct
<1>e. PICK e : e = <<s>>
      OBVIOUS
<1>16. IsJoin(b, e, f)
       BY <1>2, <1>5, <1>7, <1>13, <1>e DEF Below, IsJoin
<1>17. e \in Seq(O) /\ ToSet(e) = {s} /\ Distinct(e)
       BY <1>e DEF ToSet, Distinct
<1>u. ToSet(b) = {s} \cup ToSet(f)
  <2>1. e \in Seq(O) /\ f \in Seq(O)
        BY <1>14, <1>17
  <2>2. ToSet(b) = ToSet(e) \cup ToSet(f)
        BY <1>16, <2>1, JoinFacts
  <2> QED
      BY <1>17, <2>2
<1>18. \A x \in ToSet(f) : \E k \in 1..m : x \in ToSet(ss[k])
       BY <1>8, <1>14
<1>19. ASSUME NEW x \in ToSet(f)
       PROVE  /\ s.id < x.id /\ x.id \in Nat
              /\ \E y \in ToSet(b) : y.id = x.parent
  <2>1. PICK k \in 1..m : x \in ToSet(ss[k])
        BY <1>18
  <2>2. /\ c[k] \in O /\ c[k].parent = s.id /\ c[k].id <= x.id
        /\ x = c[k] \/ \E y \in ToSet(ss[k]) : y.id = x.parent
        BY <1>6, <1>10, <2>1 DEF Descends
  <2>3. /\ s.id \in Nat /\ c[k].id \in Nat /\ s.id < c[k].id
        /\ x \in O /\ x.id \in Nat
        BY <1>11, <2>1, <2>2 DEF Upward
  <2>4. s \in ToSet(b) /\ ToSet(ss[k]) \subseteq ToSet(b)
    <3>1. ToSet(ss[k]) \subseteq ToSet(f)
          BY <1>8, <1>14
    <3> QED
        BY <1>u, <3>1
  <2>5. \E y \in ToSet(b) : y.id = x.parent
    <3>1. CASE x = c[k]
          BY <2>2, <2>4, <3>1
    <3>2. CASE \E y \in ToSet(ss[k]) : y.id = x.parent
          BY <2>4, <3>2
    <3> QED
        BY <2>2, <3>1, <3>2
  <2> QED
      BY <2>2, <2>3, <2>5
<1>20. Apart(e, f)
  <2>1. s.id \in Nat
        BY DEF Upward
  <2>2. s \notin ToSet(f)
        BY <1>19, <2>1
  <2> QED
      BY <1>17, <2>2 DEF Apart
<1>21. Distinct(b)
       BY <1>14, <1>15, <1>16, <1>17, <1>20, JoinDistinct
<1>22. s.id \in Nat
       BY DEF Upward
<1> QED
    BY <1>u, <1>19, <1>21, <1>22 DEF Descends

\* So it is with every walk.
LEMMA WalkDescends ==
    ASSUME NEW T, NEW order \in Seq(T), Distinct(order),
           Upward(ToSet(order)), NEW s \in ToSet(order)
    PROVE  Descends(Walk(order)[s], s)
<1> PICK O : O = ToSet(order)
    OBVIOUS
<1> PICK N : N = Len(order)
    OBVIOUS
<1>1. PICK W : WalksUpto(W, N, order) /\ Walk(order) = W[N]
      BY WalkSteps
<1>2. /\ W \in [0..N -> [O -> Seq(O)]] /\ N \in Nat
      /\ \A t \in O : W[0][t] = <<>>
      /\ \A n \in 1..N : \A t \in O : W[n][t] = Below(order, t, W[n - 1])
      BY <1>1 DEF WalksUpto
<1> DEFINE H == {n \in 0..N : \A t \in O : Descends(W[n][t], t)}
<1>3. 0 \in H
  <2>1. ToSet(<<>>) = {} /\ Distinct(<<>>)
        BY DEF ToSet, Distinct
  <2>2. \A t \in O : Descends(<<>>, t)
        BY <2>1 DEF Descends
  <2> QED
      BY <1>2, <2>2
<1>4. ASSUME NEW n \in 1..N, n - 1 \in H PROVE n \in H
  <2>1. n - 1 \in 0..N /\ n \in 0..N /\ \A t \in O : Descends(W[n - 1][t], t)
        BY <1>2, <1>4
  <2>2. PICK w : w = W[n - 1]
        OBVIOUS
  <2>3. w \in [O -> Seq(O)] /\ \A t \in O : Descends(w[t], t)
        BY <1>2, <2>1, <2>2
  <2>4. ASSUME NEW t \in O PROVE Descends(W[n][t], t)
    <3>1. W[n][t] = Below(order, t, w)
          BY <1>2, <2>2
    <3> QED
        BY <2>3, <3>1, BelowDescends
  <2> QED
      BY <2>1, <2>4
<1>5. N \in H
  <2> HIDE DEF H
  <2>1. \A n \in 0..N : n \in H
        BY <1>2, <1>3, <1>4, UpTo
  <2> QED
      BY <1>2, <2>1
<1> QED
    BY <1>1, <1>5

\* When no parent is missing, no span becomes a step twice.
LEMMA StepsDistinct ==
    ASSUME NEW T, NEW order \in Seq(T), Distinct(order), Upward(ToSet(order)),
           \A s \in ToSet(order) : s.parent = NoSpan \/ s.parent \in Ids(order),
           NEW x, x = Steps(order)
    PROVE  Distinct(x)
<1> PICK O : O = ToSet(order)
    OBVIOUS
<1> PICK N : N = Len(order)
    OBVIOUS
<1>1. PICK w : w = Walk(order)
      OBVIOUS
<1>2. w \in [O -> Seq(O)]
  <2>1. PICK W : WalksUpto(W, N, order) /\ w = W[N]
        BY <1>1, WalkSteps
  <2>2. W \in [0..N -> [O -> Seq(O)]] /\ N \in Nat
        BY <2>1 DEF WalksUpto
  <2> QED
      BY <2>1, <2>2
<1>3. \A s \in O : Descends(w[s], s)
      BY <1>1, WalkDescends
<1>4. PICK r : r = Roots(order)
      OBVIOUS
<1>5. r \in Seq(O) /\ \A s \in ToSet(r) : s \in O /\ s.parent = NoSpan
      BY <1>4, RootsFacts
<1>6. Distinct(r)
  <2>1. PICK S : S = {k \in DOMAIN order : order[k].parent = NoSpan
                                           \/ order[k].parent \notin Ids(order)}
        OBVIOUS
  <2>2. r = Picked(order, S)
        BY <1>4, <2>1 DEF Roots
  <2>3. \A i, j \in S \cap DOMAIN order : order[i] = order[j] => i = j
        BY DEF Distinct
  <2> QED
      BY <2>2, <2>3, PickedDistinct
<1>7. PICK m \in Nat : m = Len(r) /\ DOMAIN r = 1..m
      BY <1>5
<1>8. \A k \in 1..m : r[k] \in O /\ r[k].parent = NoSpan
  <2>1. \A k \in 1..m : r[k] \in ToSet(r)
        BY <1>7 DEF ToSet
  <2> QED
      BY <1>5, <2>1
<1>9. PICK ss : ss = [k \in 1..m |-> w[r[k]]]
      OBVIOUS
<1>10. /\ ss \in [1..m -> Seq(O)] /\ DOMAIN ss = 1..m
       /\ \A k \in 1..m : ss[k] = w[r[k]]
       BY <1>2, <1>8, <1>9
<1>11. ss \in Seq(Seq(O))
       BY <1>10, IsASeq
<1>12. \A k \in 1..m : Distinct(ss[k]) /\ Descends(ss[k], r[k])
  <2>1. \A k \in 1..m : Descends(ss[k], r[k])
        BY <1>3, <1>8, <1>10
  <2> QED
      BY <2>1 DEF Descends
<1>13. \A k \in 1..m : ToSet(ss[k]) \subseteq O
  <2>1. \A k \in 1..m : ss[k] \in Seq(O)
        BY <1>10
  <2> QED
      BY <2>1, SeqPart
<1>14. ASSUME NEW i \in 1..m, NEW j \in 1..m, i # j
       PROVE  Apart(ss[i], ss[j])
  <2>1. r[i] # r[j] /\ r[i] \in O /\ r[j] \in O /\ r[i].parent = r[j].parent
        BY <1>6, <1>7, <1>8, <1>14 DEF Distinct
  <2> QED
      BY <1>12, <1>13, <2>1, WalksApart
<1>15. x = FlattenSeq(ss)
       BY <1>1, <1>4, <1>7, <1>9 DEF Steps
<1> QED
    BY <1>10, <1>11, <1>12, <1>14, <1>15, FlattenDistinct

\* The run of a list of spans in which no id is repeated and no parent is
\* missing has no step twice.
LEMMA TreeRun ==
    ASSUME NEW T, NEW spans \in Seq(T), DistinctIds(spans),
           Upward(ToSet(spans)), DistinctStarts(ToSet(spans)),
           \A s \in ToSet(spans) : s.parent = NoSpan \/ s.parent \in Ids(spans),
           NEW run, run = Reconstruct(spans)
    PROVE  Distinct(run.steps)
<1>1. PICK u : u = Unique(spans)
      OBVIOUS
<1>2. u \in Seq(T) /\ ToSet(u) = ToSet(spans) /\ Distinct(u)
      BY <1>1, UniqueFacts
<1>3. PICK order : order = Sorted(u, StartsBefore)
      OBVIOUS
<1>4. order \in Seq(T) /\ ToSet(order) = ToSet(spans) /\ SortOf(order, u, T, ByStart(T))
      BY <1>2, <1>3, SortedByStart DEF SortOf
<1>5. Distinct(order)
  <2>1. ToSet(u) \subseteq T
        BY <1>2 DEF ToSet
  <2>2. Orders(ByStart(T), ToSet(u))
        BY <1>2, <2>1, StartsOrder
  <2>3. Ascends(order, ByStart(T))
        BY <1>2, <1>4, <2>2 DEF SortOf
  <2>4. PICK R : R = ByStart(T)
        OBVIOUS
  <2>5. ASSUME NEW k \in DOMAIN order, NEW l \in DOMAIN order, order[k] = order[l],
               k < l
        PROVE  FALSE
    <3>1. <<order[k], order[l]>> \in R
          BY <2>3, <2>4, <2>5 DEF Ascends
    <3>2. order[k] \in ToSet(u)
          BY <1>2, <1>4 DEF ToSet
    <3>3. <<order[k], order[k]>> \notin R
          BY <2>2, <2>4, <3>2 DEF Orders
    <3> QED
        BY <2>5, <3>1, <3>3
  <2>6. DOMAIN order \subseteq Nat
        BY <1>4
  <2>7. ASSUME NEW k \in DOMAIN order, NEW l \in DOMAIN order, order[k] = order[l]
        PROVE  k = l
    <3>1. k \in Nat /\ l \in Nat
          BY <2>6
    <3>2. ~(k < l) /\ ~(l < k)
          BY <2>5, <2>7
    <3> QED
        BY <3>1, <3>2
  <2> QED
      BY <2>7 DEF Distinct
<1>6. Ids(order) = Ids(spans)
      BY <1>4 DEF Ids
<1>7. PICK x : x = Steps(order)
      OBVIOUS
<1>8. Distinct(x)
      BY <1>4, <1>5, <1>6, <1>7, StepsDistinct
<1>9. run.steps = x
      BY <1>1, <1>3, <1>7 DEF Reconstruct
<1> QED
    BY <1>8, <1>9

=============================================================================
