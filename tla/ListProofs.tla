----------------------------- MODULE ListProofs ------------------------------
(***************************************************************************)
(* Lemmas about lists: the sum over some of their entries; a list filtered, *)
(* sorted, flattened or turned around; and which lists are the same.        *)
(*                                                                          *)
(* The sum of Harness is the library's MapThenSumSet, which folds a set in  *)
(* an order that CHOOSE picks; here it is shown that the order is of no     *)
(* consequence. Induction, over the size of a set or the length of a list,  *)
(* is done by least counterexample, since the induction theorems of the     *)
(* library take an operator.                                                *)
(***************************************************************************)
EXTENDS SpanLists, FiniteSetsExt, FiniteSetTheorems, TLAPS

-----------------------------------------------------------------------------
\* Sums of tokens.

\* The tokens of the spans of batch b whose index is in S.
Spent(b, S) == MapThenSumSet(LAMBDA i : b[i].tokens, S)

\* The element that a fold takes out of a set first.
First(S) == CHOOSE x \in S : TRUE

\* One step of the fold, given what it makes of smaller sets.
Step(b, g, s) ==
    IF s = {} THEN 0 ELSE b[First(s)].tokens + g[s \ {First(s)}]

\* g is the fold's function on the subsets of S.
IsFold(g, b, S) == g = [s \in SUBSET S |-> Step(b, g, s)]

Counted(b, S) == \A i \in S : b[i].tokens \in Nat

-----------------------------------------------------------------------------
\* What the library's definition amounts to.
LEMMA SpentIsFold ==
    ASSUME NEW b, NEW S
    PROVE  Spent(b, S) = (CHOOSE g : IsFold(g, b, S))[S]
BY DEF Spent, MapThenSumSet, MapThenFoldSet, IsFold, Step, First

\* A set of numbers has a least one.
LEMMA LeastNumber ==
    ASSUME NEW T \in SUBSET Nat, T # {}
    PROVE  \E m \in T : \A n \in T : m <= n
<1>1. PICK m \in T : \A n \in T : ~(<<n, m>> \in OpToRel(<, Nat))
      BY WFMin, NatLessThanWellFounded, Zenon
<1>2. \A n \in T : ~(n < m)
  <2> SUFFICES ASSUME NEW n \in T PROVE ~(n < m)
      OBVIOUS
  <2> QED
      BY <1>1 DEF OpToRel
<1> QED
    BY <1>2

\* The first element of a nonempty set is one of it, and what remains is
\* smaller.
LEMMA FirstLeavesFewer ==
    ASSUME NEW S, IsFiniteSet(S), NEW s \in SUBSET S, s # {}
    PROVE  /\ First(s) \in s
           /\ s \ {First(s)} \in SUBSET S
           /\ IsFiniteSet(s) /\ Cardinality(s) \in Nat
           /\ Cardinality(s \ {First(s)}) \in Nat
           /\ Cardinality(s \ {First(s)}) = Cardinality(s) - 1
<1>1. First(s) \in s
      BY DEF First
<1>2. IsFiniteSet(s)
      BY FS_Subset
<1>3. /\ IsFiniteSet(s \ {First(s)})
      /\ Cardinality(s \ {First(s)}) = Cardinality(s) - 1
      BY <1>1, <1>2, FS_RemoveElement
<1> QED
    BY <1>1, <1>2, <1>3, FS_CardinalityType

\* g is the fold's function as far as the sets of at most n elements go.
FoldsTo(g, b, S, n) ==
    /\ g = [s \in SUBSET S |-> g[s]]
    /\ \A s \in SUBSET S : Cardinality(s) <= n => g[s] = Step(b, g, s)

\* A function that folds sets of n elements yields one that folds sets of
\* one element more.
LEMMA FoldOneMore ==
    ASSUME NEW b, NEW S, IsFiniteSet(S), NEW n \in Nat,
           NEW g, FoldsTo(g, b, S, n)
    PROVE  \E h : FoldsTo(h, b, S, n + 1)
<1> DEFINE h == [s \in SUBSET S |-> Step(b, g, s)]
<1>1. h = [s \in SUBSET S |-> h[s]]
      OBVIOUS
<1>2. ASSUME NEW s \in SUBSET S, Cardinality(s) <= n + 1
      PROVE  h[s] = Step(b, h, s)
  <2>1. h[s] = Step(b, g, s)
        OBVIOUS
  <2>2. CASE s = {}
        BY <2>1, <2>2 DEF Step
  <2>3. CASE s # {}
    <3> DEFINE rest == s \ {First(s)}
    <3>1. rest \in SUBSET S /\ Cardinality(rest) <= n
          BY <1>2, <2>3, FirstLeavesFewer
    <3>2. h[rest] = Step(b, g, rest) /\ g[rest] = Step(b, g, rest)
          BY <3>1 DEF FoldsTo
    <3> HIDE DEF h
    <3> QED
        BY <2>1, <2>3, <3>2 DEF Step
  <2> QED
      BY <2>2, <2>3
<1> HIDE DEF h
<1> QED
    BY <1>1, <1>2 DEF FoldsTo

\* So there is a function that folds every subset of a finite set.
LEMMA FoldExists ==
    ASSUME NEW b, NEW S, IsFiniteSet(S)
    PROVE  \E g : IsFold(g, b, S)
<1> DEFINE Bad == {n \in Nat : ~\E g : FoldsTo(g, b, S, n)}
<1>1. 0 \notin Bad
  <2> DEFINE g == [s \in SUBSET S |-> 0]
  <2>1. g = [s \in SUBSET S |-> g[s]]
        OBVIOUS
  <2>2. ASSUME NEW s \in SUBSET S, Cardinality(s) <= 0
        PROVE  g[s] = Step(b, g, s)
    <3>1. IsFiniteSet(s) /\ Cardinality(s) \in Nat
          BY FS_Subset, FS_CardinalityType
    <3>2. Cardinality(s) = 0
          BY <2>2, <3>1
    <3>3. s = {}
          BY <3>1, <3>2, FS_EmptySet
    <3> QED
        BY <3>3 DEF Step
  <2> HIDE DEF g
  <2>3. FoldsTo(g, b, S, 0)
        BY <2>1, <2>2 DEF FoldsTo
  <2> QED
      BY <2>3
<1>2. ASSUME NEW n \in Nat, n \notin Bad
      PROVE  n + 1 \notin Bad
      BY <1>2, FoldOneMore
<1>3. Bad = {}
  <2> SUFFICES ASSUME Bad # {} PROVE FALSE
      OBVIOUS
  <2>1. PICK m \in Bad : \A n \in Bad : m <= n
        BY LeastNumber
  <2>2. m \in Nat /\ m # 0
        BY <1>1, <2>1
  <2>3. m - 1 \in Nat /\ m - 1 \notin Bad /\ (m - 1) + 1 = m
        BY <2>1, <2>2
  <2> HIDE DEF Bad
  <2> QED
      BY <1>2, <2>1, <2>3
<1>4. PICK g : FoldsTo(g, b, S, Cardinality(S))
      BY <1>3, FS_CardinalityType
<1>5. ASSUME NEW s \in SUBSET S PROVE g[s] = Step(b, g, s)
      BY <1>4, FS_Subset DEF FoldsTo
<1>6. g = [s \in SUBSET S |-> Step(b, g, s)]
      BY <1>4, <1>5 DEF FoldsTo
<1> QED
    BY <1>6 DEF IsFold

\* Two folds agree on a set whose tokens they agree on.
LEMMA FoldsAgree ==
    ASSUME NEW b, NEW c, NEW S, NEW T, IsFiniteSet(S), IsFiniteSet(T),
           NEW g, IsFold(g, b, S), NEW h, IsFold(h, c, T),
           NEW U \in SUBSET (S \cap T),
           \A i \in U : b[i].tokens = c[i].tokens
    PROVE  g[U] = h[U]
<1> DEFINE Sizes == {n \in Nat : \E s \in SUBSET U :
                        Cardinality(s) = n /\ g[s] # h[s]}
<1>1. Sizes = {}
  <2> SUFFICES ASSUME Sizes # {} PROVE FALSE
      OBVIOUS
  <2>1. PICK m \in Sizes : \A n \in Sizes : m <= n
        BY LeastNumber
  <2>2. PICK s \in SUBSET U : Cardinality(s) = m /\ g[s] # h[s]
        BY <2>1
  <2>3. g[s] = Step(b, g, s) /\ h[s] = Step(c, h, s)
        BY DEF IsFold
  <2>4. s # {}
        BY <2>2, <2>3 DEF Step
  <2> DEFINE rest == s \ {First(s)}
  <2>5. /\ First(s) \in U /\ rest \in SUBSET U
        /\ Cardinality(rest) \in Nat /\ Cardinality(rest) < m
        BY <2>2, <2>4, FirstLeavesFewer
  <2>6. g[rest] = h[rest]
        BY <2>1, <2>5
  <2> QED
      BY <2>2, <2>3, <2>4, <2>5, <2>6 DEF Step
<1>2. Cardinality(U) \in Nat
      BY FS_Subset, FS_CardinalityType
<1> QED
    BY <1>1, <1>2

\* A fold counts: its values are numbers.
LEMMA FoldCounts ==
    ASSUME NEW b, NEW S, IsFiniteSet(S), Counted(b, S),
           NEW g, IsFold(g, b, S), NEW U \in SUBSET S
    PROVE  g[U] \in Nat
<1> DEFINE Sizes == {n \in Nat : \E s \in SUBSET S :
                        Cardinality(s) = n /\ g[s] \notin Nat}
<1>1. Sizes = {}
  <2> SUFFICES ASSUME Sizes # {} PROVE FALSE
      OBVIOUS
  <2>1. PICK m \in Sizes : \A n \in Sizes : m <= n
        BY LeastNumber
  <2>2. PICK s \in SUBSET S : Cardinality(s) = m /\ g[s] \notin Nat
        BY <2>1
  <2>3. g[s] = Step(b, g, s)
        BY DEF IsFold
  <2>4. s # {}
        BY <2>2, <2>3 DEF Step
  <2> DEFINE rest == s \ {First(s)}
  <2>5. /\ First(s) \in S /\ rest \in SUBSET S
        /\ Cardinality(rest) \in Nat /\ Cardinality(rest) < m
        BY <2>2, <2>4, FirstLeavesFewer
  <2>6. g[rest] \in Nat /\ b[First(s)].tokens \in Nat
        BY <2>1, <2>5 DEF Counted
  <2> QED
      BY <2>2, <2>3, <2>4, <2>6 DEF Step
<1>2. Cardinality(U) \in Nat
      BY FS_Subset, FS_CardinalityType
<1> QED
    BY <1>1, <1>2

\* The order of a fold is of no consequence: what is taken out last could as
\* well have been taken out first.
LEMMA FoldAdds ==
    ASSUME NEW b, NEW S, IsFiniteSet(S), Counted(b, S),
           NEW g, IsFold(g, b, S),
           NEW U \in SUBSET S, NEW x \in S, x \notin U
    PROVE  g[U \cup {x}] = g[U] + b[x].tokens
<1> DEFINE Adds(s, z) == g[s \cup {z}] = g[s] + b[z].tokens
           Sizes == {n \in Nat : \E s \in SUBSET S : \E z \in S \ s :
                        Cardinality(s) = n /\ ~Adds(s, z)}
<1>1. \A s \in SUBSET S : g[s] \in Nat /\ g[s] = Step(b, g, s)
      BY FoldCounts DEF IsFold
<1>2. \A i \in S : b[i].tokens \in Nat
      BY DEF Counted
<1>3. Sizes = {}
  <2> SUFFICES ASSUME Sizes # {} PROVE FALSE
      OBVIOUS
  <2>1. PICK m \in Sizes : \A n \in Sizes : m <= n
        BY LeastNumber
  <2>2. PICK s \in SUBSET S, z \in S :
            z \notin s /\ Cardinality(s) = m /\ ~Adds(s, z)
        BY <2>1
  <2>3. m \in Nat /\ \A t \in SUBSET S : \A w \in S :
            w \notin t /\ Cardinality(t) \in Nat /\ Cardinality(t) < m
                => Adds(t, w)
    <3> HIDE DEF Adds
    <3> QED
        BY <2>1
  <2> HIDE DEF Sizes
  <2> DEFINE all == s \cup {z}
             y == First(all)
  <2>4. /\ all \in SUBSET S /\ all # {} /\ z \notin s
        /\ y \in all
        BY <2>2, Zenon DEF First
  <2>5. g[all] = b[y].tokens + g[all \ {y}]
        BY <1>1, <2>4 DEF Step
  <2> HIDE DEF y
  <2>6. CASE y = z
    <3>1. all \ {y} = s
          BY <2>4, <2>6
    <3>2. g[all] = b[z].tokens + g[s]
          BY <2>5, <2>6, <3>1
    <3>3. g[s] \in Nat /\ b[z].tokens \in Nat
          BY <1>1, <1>2, <2>2
    <3> QED
        BY <2>2, <3>2, <3>3
  <2>7. CASE y # z
    <3> DEFINE rest == s \ {y}
    <3>1. /\ y \in S /\ rest \in SUBSET S /\ y \notin rest /\ z \notin rest
          /\ all \ {y} = rest \cup {z} /\ s = rest \cup {y}
          BY <2>2, <2>4, <2>7
    <3>2. y \in s /\ IsFiniteSet(s) /\ IsFiniteSet(rest)
          BY <2>4, <2>7, <3>1, FS_Subset
    <3>3. Cardinality(rest) = m - 1 /\ Cardinality(rest) \in Nat
      <4>1. Cardinality(rest) = Cardinality(s) - 1
            BY <3>2, FS_RemoveElement
      <4>2. Cardinality(rest) \in Nat
            BY <3>2, FS_CardinalityType
      <4> QED
          BY <2>2, <4>1, <4>2
    <3>4. Cardinality(rest) < m
          BY <2>3, <3>3
    <3>5. g[rest \cup {z}] = g[rest] + b[z].tokens
          BY <2>2, <2>3, <3>1, <3>3, <3>4
    <3>6. g[rest \cup {y}] = g[rest] + b[y].tokens
          BY <2>3, <3>1, <3>3, <3>4
    <3>7. g[all] = b[y].tokens + g[rest \cup {z}]
          BY <2>5, <3>1
    <3>8. g[s] = g[rest] + b[y].tokens
          BY <3>1, <3>6
    <3>9. /\ g[rest] \in Nat /\ g[s] \in Nat
          /\ b[y].tokens \in Nat /\ b[z].tokens \in Nat
          BY <1>1, <1>2, <3>1
    <3>10. g[all] = g[s] + b[z].tokens
           BY <3>5, <3>7, <3>8, <3>9
    <3> QED
        BY <2>2, <3>10
  <2> QED
      BY <2>6, <2>7
<1>4. IsFiniteSet(U) /\ Cardinality(U) \in Nat
      BY FS_Subset, FS_CardinalityType
<1> QED
    BY <1>3, <1>4

-----------------------------------------------------------------------------
\* The sum that the library defines is the value of a fold.
LEMMA SpentFold ==
    ASSUME NEW b, NEW S, IsFiniteSet(S)
    PROVE  \E g : IsFold(g, b, S) /\ Spent(b, S) = g[S]
BY FoldExists, SpentIsFold

\* No span, no tokens; and tokens are numbers.
LEMMA SpentCounts ==
    ASSUME NEW b, NEW S, IsFiniteSet(S), Counted(b, S)
    PROVE  /\ Spent(b, S) \in Nat
           /\ S = {} => Spent(b, S) = 0
<1>1. PICK g : IsFold(g, b, S) /\ Spent(b, S) = g[S]
      BY SpentFold
<1>2. g[S] \in Nat
      BY <1>1, FoldCounts
<1>3. S = {} => g[S] = 0
      BY <1>1 DEF IsFold, Step
<1> QED
    BY <1>1, <1>2, <1>3

\* Only the tokens of the spans in the sum matter.
LEMMA SpentAgrees ==
    ASSUME NEW b, NEW c, NEW S, IsFiniteSet(S),
           \A i \in S : b[i].tokens = c[i].tokens
    PROVE  Spent(b, S) = Spent(c, S)
<1>1. PICK g : IsFold(g, b, S) /\ Spent(b, S) = g[S]
      BY SpentFold
<1>2. PICK h : IsFold(h, c, S) /\ Spent(c, S) = h[S]
      BY SpentFold
<1>3. S \in SUBSET (S \cap S)
      OBVIOUS
<1> QED
    BY <1>1, <1>2, <1>3, FoldsAgree

\* One more span adds its own tokens to the sum.
LEMMA SpentAdds ==
    ASSUME NEW b, NEW S, IsFiniteSet(S), NEW x, x \notin S,
           Counted(b, S \cup {x})
    PROVE  Spent(b, S \cup {x}) = Spent(b, S) + b[x].tokens
<1> DEFINE T == S \cup {x}
<1>1. IsFiniteSet(T)
      BY FS_AddElement
<1>2. PICK g : IsFold(g, b, S) /\ Spent(b, S) = g[S]
      BY SpentFold
<1>3. PICK h : IsFold(h, b, T) /\ Spent(b, T) = h[T]
      BY <1>1, SpentFold
<1>4. S \in SUBSET (S \cap T)
      OBVIOUS
<1>5. g[S] = h[S]
      BY <1>1, <1>2, <1>3, <1>4, FoldsAgree
<1>6. h[T] = h[S] + b[x].tokens
      BY <1>1, <1>3, FoldAdds
<1> QED
    BY <1>2, <1>3, <1>5, <1>6

-----------------------------------------------------------------------------
\* Lists filtered, sorted, flattened.

\* f is made from its previous value by G at every step up to n.
Recurs(f, n, v, G) ==
    f[0] = v /\ \A i \in 1..n : f[i] = G[<<i, f[i - 1]>>]

\* A function can be defined by recursion up to any bound.
LEMMA RecursionExists ==
    ASSUME NEW V, NEW v \in V, NEW N \in Nat,
           NEW G \in [(1..N) \X V -> V]
    PROVE  \E f \in [0..N -> V] : Recurs(f, N, v, G)
<1> DEFINE Bad == {n \in Nat : n <= N /\ ~\E f \in [0..N -> V] :
                                              Recurs(f, n, v, G)}
<1>1. 0 \notin Bad
  <2> DEFINE f == [i \in 0..N |-> v]
  <2>1. f \in [0..N -> V] /\ Recurs(f, 0, v, G)
        BY DEF Recurs
  <2> QED
      BY <2>1
<1>2. Bad = {}
  <2> SUFFICES ASSUME Bad # {} PROVE FALSE
      OBVIOUS
  <2>1. PICK m \in Bad : \A n \in Bad : m <= n
        BY LeastNumber
  <2>2. m \in Nat /\ m <= N /\ m # 0 /\ m - 1 \in Nat /\ m - 1 \notin Bad
        BY <1>1, <2>1
  <2>3. PICK f \in [0..N -> V] : Recurs(f, m - 1, v, G)
        BY <2>2
  <2>4. G[<<m, f[m - 1]>>] \in V
        BY <2>2, <2>3
  <2> DEFINE g == [f EXCEPT ![m] = G[<<m, f[m - 1]>>]]
  <2>5. g \in [0..N -> V]
        BY <2>3, <2>4
  <2>6. Recurs(g, m, v, G)
    <3>1. g[0] = v
          BY <2>2, <2>3 DEF Recurs
    <3>2. ASSUME NEW i \in 1..m PROVE g[i] = G[<<i, g[i - 1]>>]
      <4>1. g[i - 1] = f[i - 1]
            BY <2>2, <2>3
      <4>2. CASE i = m
            BY <2>2, <2>3, <4>1, <4>2
      <4>3. CASE i # m
        <5>1. i \in 1..m - 1 /\ i \in 0..N
              BY <2>2, <4>3
        <5>2. g[i] = f[i]
              BY <4>3, <5>1
        <5> QED
            BY <2>3, <4>1, <5>1, <5>2 DEF Recurs
      <4> QED
          BY <4>2, <4>3
    <3> QED
        BY <3>1, <3>2 DEF Recurs
  <2> QED
      BY <2>1, <2>5, <2>6
<1>3. N \notin Bad
      BY <1>2
<1> QED
    BY <1>3

\* What holds of the first value and passes from each to the next holds of
\* all: H is where it holds.
LEMMA UpTo ==
    ASSUME NEW N \in Nat, NEW H, 0 \in H,
           \A i \in 1..N : i - 1 \in H => i \in H
    PROVE  \A i \in 0..N : i \in H
<1> DEFINE Bad == {i \in Nat : i <= N /\ i \notin H}
<1>1. Bad = {}
  <2> SUFFICES ASSUME Bad # {} PROVE FALSE
      OBVIOUS
  <2>1. PICK m \in Bad : \A n \in Bad : m <= n
        BY LeastNumber
  <2>2. m \in 1..N /\ m - 1 \in Nat
        BY <2>1
  <2> QED
      BY <2>1, <2>2
<1> QED
    BY <1>1

-----------------------------------------------------------------------------
\* at tells for each of the m entries of p where in seq it stands.
Places(at, m, p, seq, A) ==
    /\ at \in [1..m -> A]
    /\ \A k, l \in 1..m : k < l => at[k] < at[l]
    /\ \A i \in A : \E k \in 1..m : at[k] = i
    /\ \A k \in 1..m : p[k] = seq[at[k]]

\* p lists the entries of seq at the positions in A, in their order.
Lists(p, seq, A) == \E at : Places(at, Len(p), p, seq, A)

\* One more entry at the end of a sequence.
LEMMA Appended ==
    ASSUME NEW T, NEW p \in Seq(T), NEW x \in T,
           NEW m, m = Len(p), NEW q, q = Append(p, x)
    PROVE  /\ m \in Nat /\ q \in Seq(T) /\ Len(q) = m + 1
           /\ q[m + 1] = x
           /\ \A k \in 1..m : q[k] = p[k]
OBVIOUS

\* A list of the entries up to one more position.
LEMMA ListsOneMore ==
    ASSUME NEW T, NEW seq \in Seq(T), NEW n \in 1..Len(seq),
           NEW A \in SUBSET (1..n - 1), NEW p \in Seq(T), Lists(p, seq, A)
    PROVE  Lists(Append(p, seq[n]), seq, A \cup {n})
<1> PICK m : m = Len(p)
    OBVIOUS
<1> PICK at : Places(at, m, p, seq, A)
    BY DEF Lists
<1>p. /\ at \in [1..m -> A]
      /\ \A k, l \in 1..m : k < l => at[k] < at[l]
      /\ \A i \in A : \E k \in 1..m : at[k] = i
      /\ \A k \in 1..m : p[k] = seq[at[k]]
    BY DEF Places
<1> PICK q : q = Append(p, seq[n])
    OBVIOUS
<1> DEFINE to == [k \in 1..m + 1 |-> IF k = m + 1 THEN n ELSE at[k]]
<1>0. n \in Nat /\ seq[n] \in T
      OBVIOUS
<1>1. m \in Nat /\ Len(q) = m + 1 /\ n \in Nat
      /\ q[m + 1] = seq[n] /\ \A k \in 1..m : q[k] = p[k]
      BY <1>0, Appended
<1>a. \A k \in 1..m : k \in 1..m + 1 /\ k # m + 1
      BY <1>1
<1>2. \A k \in 1..m : to[k] = at[k] /\ at[k] \in A /\ at[k] \in 1..n - 1
      BY <1>a, <1>p
<1>3. to[m + 1] = n /\ m + 1 \in 1..m + 1
      BY <1>1
<1>4. \A k \in 1..m + 1 : k # m + 1 => k \in 1..m
      BY <1>1
<1>5. to \in [1..m + 1 -> A \cup {n}]
      BY <1>2, <1>3, <1>4
<1> HIDE DEF to
<1>6. \A k, l \in 1..m + 1 : k < l => to[k] < to[l]
  <2> SUFFICES ASSUME NEW k \in 1..m + 1, NEW l \in 1..m + 1, k < l
               PROVE  to[k] < to[l]
      OBVIOUS
  <2>1. k \in 1..m
        BY <1>1
  <2>2. CASE l = m + 1
        BY <1>1, <1>2, <1>3, <2>1, <2>2
  <2>3. CASE l # m + 1
        BY <1>2, <1>4, <1>p, <2>1, <2>3
  <2> QED
      BY <2>2, <2>3
<1>7. \A i \in A \cup {n} : \E k \in 1..m + 1 : to[k] = i
  <2> SUFFICES ASSUME NEW i \in A \cup {n}
               PROVE  \E k \in 1..m + 1 : to[k] = i
      OBVIOUS
  <2>1. CASE i = n
        BY <1>3, <2>1
  <2>2. CASE i \in A
    <3>1. PICK k \in 1..m : at[k] = i
          BY <1>p, <2>2
    <3>2. k \in 1..m + 1 /\ to[k] = i
          BY <1>1, <1>2, <3>1
    <3> QED
        BY <3>2
  <2> QED
      BY <2>1, <2>2
<1>8. \A k \in 1..m + 1 : q[k] = seq[to[k]]
  <2> SUFFICES ASSUME NEW k \in 1..m + 1 PROVE q[k] = seq[to[k]]
      OBVIOUS
  <2>1. CASE k = m + 1
        BY <1>1, <1>3, <2>1
  <2>2. CASE k # m + 1
    <3>1. k \in 1..m
          BY <1>4, <2>2
    <3> QED
        BY <1>1, <1>2, <1>p, <3>1
  <2> QED
      BY <2>1, <2>2
<1>9. Places(to, m + 1, q, seq, A \cup {n})
      BY <1>5, <1>6, <1>7, <1>8 DEF Places
<1>b. Len(q) = m + 1
      BY <1>1
<1> QED
    BY <1>9, <1>b DEF Lists

\* F filters all beginnings of a sequence.
PicksUpto(F, T, N, seq, S) ==
    /\ F \in [0..N -> Seq(T)]
    /\ F[0] = <<>>
    /\ \A n \in 1..N :
          F[n] = IF n \in S THEN Append(F[n - 1], seq[n]) ELSE F[n - 1]

\* What the recursive function in Picked computes, step by step.
LEMMA PickedSteps ==
    ASSUME NEW T, NEW seq \in Seq(T), NEW S, NEW N \in Nat, N = Len(seq)
    PROVE  \E F : /\ PicksUpto(F, T, N, seq, S)
                  /\ Picked(seq, S) = F[N]
<1> DEFINE IsUpto(M, F) == F = [n \in 0..M |->
                IF n = 0 THEN <<>>
                ELSE IF n \in S THEN Append(F[n - 1], seq[n])
                ELSE F[n - 1]]
<1>1. \A n \in 1..N : seq[n] \in T
      OBVIOUS
<1>2. Picked(seq, S) = (CHOOSE F : IsUpto(N, F))[N]
      BY DEF Picked
<1> DEFINE G == [p \in (1..N) \X Seq(T) |->
                    IF p[1] \in S THEN Append(p[2], seq[p[1]]) ELSE p[2]]
<1>3. G \in [(1..N) \X Seq(T) -> Seq(T)]
  <2>1. \A p \in (1..N) \X Seq(T) :
            p[1] \in 1..N /\ p[2] \in Seq(T) /\ seq[p[1]] \in T
        BY <1>1
  <2> QED
      BY <2>1
<1>4. \A n \in 1..N, s \in Seq(T) :
          G[<<n, s>>] = IF n \in S THEN Append(s, seq[n]) ELSE s
      OBVIOUS
<1>5. <<>> \in Seq(T)
      OBVIOUS
<1> HIDE DEF G
<1>6. PICK f \in [0..N -> Seq(T)] : Recurs(f, N, <<>>, G)
      BY <1>3, <1>5, RecursionExists
<1>7. /\ f[0] = <<>>
      /\ \A n \in 1..N : f[n] = IF n \in S THEN Append(f[n - 1], seq[n])
                                ELSE f[n - 1]
  <2>1. \A n \in 1..N : f[n - 1] \in Seq(T) /\ f[n] = G[<<n, f[n - 1]>>]
        BY <1>6 DEF Recurs
  <2> QED
      BY <1>4, <1>6, <2>1 DEF Recurs
<1>8. IsUpto(N, f)
  <2>1. \A n \in 0..N : n # 0 => n \in 1..N
        OBVIOUS
  <2>2. \A n \in 0..N : f[n] = IF n = 0 THEN <<>>
                ELSE IF n \in S THEN Append(f[n - 1], seq[n])
                ELSE f[n - 1]
        BY <1>7, <2>1
  <2> QED
      BY <2>2, Zenon
<1>9. PICK F : IsUpto(N, F) /\ Picked(seq, S) = F[N]
      BY <1>2, <1>8, Zenon
<1>10. /\ F[0] = <<>>
       /\ \A n \in 1..N : F[n] = IF n \in S THEN Append(F[n - 1], seq[n])
                                 ELSE F[n - 1]
  <2>1. \A n \in 0..N : F[n] = IF n = 0 THEN <<>>
                ELSE IF n \in S THEN Append(F[n - 1], seq[n])
                ELSE F[n - 1]
        BY <1>9, Zenon
  <2>2. 0 \in 0..N /\ \A n \in 1..N : n \in 0..N /\ n # 0
        OBVIOUS
  <2> HIDE DEF IsUpto
  <2> QED
      BY <2>1, <2>2
<1> DEFINE H == {n \in 0..N : F[n] \in Seq(T)}
<1>11. \A n \in 0..N : n \in H
  <2>0. F[0] = <<>> /\ 0 \in 0..N
        BY <1>10
  <2>1. 0 \in H
        BY <1>5, <2>0
  <2>2. \A n \in 1..N : n - 1 \in H => n \in H
    <3> SUFFICES ASSUME NEW n \in 1..N, F[n - 1] \in Seq(T)
                 PROVE  F[n] \in Seq(T)
        OBVIOUS
    <3>1. CASE n \in S
      <4>1. F[n] = Append(F[n - 1], seq[n]) /\ seq[n] \in T
            BY <1>1, <1>10, <3>1
      <4> QED
          BY <4>1
    <3>2. CASE n \notin S
          BY <1>10, <3>2
    <3> QED
        BY <3>1, <3>2
  <2> HIDE DEF H
  <2> QED
      BY <2>1, <2>2, UpTo
<1>12. F \in [0..N -> Seq(T)]
  <2>1. F = [n \in 0..N |-> F[n]]
        BY <1>9
  <2> QED
      BY <1>11, <2>1
<1>13. PicksUpto(F, T, N, seq, S)
       BY <1>10, <1>12 DEF PicksUpto
<1> QED
    BY <1>9, <1>13

\* Filtering lists exactly the entries at the positions that are picked.
LEMMA PickedLists ==
    ASSUME NEW T, NEW seq \in Seq(T), NEW S
    PROVE  /\ Picked(seq, S) \in Seq(T)
           /\ Lists(Picked(seq, S), seq, S \cap DOMAIN seq)
<1> PICK N \in Nat : N = Len(seq) /\ DOMAIN seq = 1..N
    OBVIOUS
<1>0. PICK F : PicksUpto(F, T, N, seq, S) /\ Picked(seq, S) = F[N]
      BY PickedSteps
<1>1. /\ F \in [0..N -> Seq(T)] /\ F[0] = <<>>
      /\ \A n \in 1..N : F[n] = IF n \in S THEN Append(F[n - 1], seq[n])
                                ELSE F[n - 1]
      BY <1>0 DEF PicksUpto
<1> DEFINE H == {n \in 0..N : Lists(F[n], seq, S \cap 1..n)}
<1>2. 0 \in H
  <2>1. Lists(<<>>, seq, {})
    <3> DEFINE at == [k \in 1..0 |-> 0]
    <3>1. Places(at, 0, <<>>, seq, {})
          BY DEF Places
    <3> QED
        BY <3>1 DEF Lists
  <2>2. S \cap 1..0 = {}
        OBVIOUS
  <2> QED
      BY <1>1, <2>1, <2>2
<1>3. ASSUME NEW n \in 1..N, n - 1 \in H PROVE n \in H
  <2>1. Lists(F[n - 1], seq, S \cap 1..n - 1) /\ n - 1 \in 0..N
        BY <1>3
  <2>2. F[n - 1] \in Seq(T) /\ n \in 0..N
        BY <1>1, <2>1
  <2>3. CASE n \in S
    <3>1. F[n] = Append(F[n - 1], seq[n])
          BY <1>1, <2>3
    <3>2. S \cap 1..n = (S \cap 1..n - 1) \cup {n}
          BY <2>3
    <3> PICK A \in SUBSET (1..n - 1) : A = S \cap 1..n - 1
        OBVIOUS
    <3> PICK p \in Seq(T) : p = F[n - 1]
        BY <2>2
    <3>3. Lists(Append(p, seq[n]), seq, A \cup {n})
          BY <2>1, ListsOneMore
    <3> QED
        BY <2>2, <3>1, <3>2, <3>3
  <2>4. CASE n \notin S
    <3>1. F[n] = F[n - 1]
          BY <1>1, <2>4
    <3>2. S \cap 1..n = S \cap 1..n - 1
          BY <2>4
    <3> QED
        BY <2>1, <2>2, <3>1, <3>2
  <2> QED
      BY <2>3, <2>4
<1>4. Lists(F[N], seq, S \cap 1..N)
  <2> HIDE DEF H
  <2>1. \A n \in 0..N : n \in H
        BY <1>2, <1>3, UpTo
  <2>2. N \in H
        BY <2>1
  <2> QED
      BY <2>2 DEF H
<1> QED
    BY <1>0, <1>1, <1>4

\* A filter lets exactly the entries at the picked positions through.
LEMMA PickedFacts ==
    ASSUME NEW T, NEW seq \in Seq(T), NEW S, NEW p, p = Picked(seq, S)
    PROVE  /\ p \in Seq(T)
           /\ ToSet(p) = {seq[i] : i \in S \cap DOMAIN seq}
<1> PICK A : A = S \cap DOMAIN seq
    OBVIOUS
<1> PICK m : m = Len(p)
    OBVIOUS
<1>1. p \in Seq(T) /\ Lists(p, seq, A)
      BY PickedLists
<1>2. PICK at : Places(at, m, p, seq, A)
      BY <1>1 DEF Lists
<1>3. DOMAIN p = 1..m
      BY <1>1
<1>4. \A k \in 1..m : at[k] \in A /\ p[k] = seq[at[k]]
      BY <1>2 DEF Places
<1>5. \A i \in A : \E k \in 1..m : at[k] = i
      BY <1>2 DEF Places
<1>6. ASSUME NEW x
      PROVE  x \in ToSet(p) <=> x \in {seq[i] : i \in A}
      BY <1>3, <1>4, <1>5 DEF ToSet
<1> QED
    BY <1>1, <1>6

IsJoin(c, a, b) == c = a \o b

\* Two sequences joined have the entries of both.
LEMMA JoinFacts ==
    ASSUME NEW T, NEW a \in Seq(T), NEW b \in Seq(T), NEW c, IsJoin(c, a, b)
    PROVE  /\ c \in Seq(T) /\ Len(c) = Len(a) + Len(b)
           /\ \A k \in 1..Len(a) : c[k] = a[k]
           /\ \A k \in 1..Len(b) : c[Len(a) + k] = b[k]
           /\ ToSet(c) = ToSet(a) \cup ToSet(b)
<1>1. /\ c \in Seq(T) /\ Len(c) = Len(a) + Len(b)
      /\ \A k \in 1..Len(a) : c[k] = a[k]
      /\ \A k \in 1..Len(b) : c[Len(a) + k] = b[k]
      BY DEF IsJoin
<1> PICK m \in Nat, n \in Nat : m = Len(a) /\ n = Len(b)
    OBVIOUS
<1>2. DOMAIN a = 1..m /\ DOMAIN b = 1..n /\ DOMAIN c = 1..m + n
      BY <1>1
<1>3. \A k \in 1..m : k \in 1..m + n
      OBVIOUS
<1>4. \A k \in 1..n : m + k \in 1..m + n
      OBVIOUS
<1>5. \A k \in 1..m + n : k \in 1..m \/ \E l \in 1..n : k = m + l
  <2> SUFFICES ASSUME NEW k \in 1..m + n, k \notin 1..m
               PROVE  \E l \in 1..n : k = m + l
      OBVIOUS
  <2>1. k - m \in 1..n /\ k = m + (k - m)
        OBVIOUS
  <2> QED
      BY <2>1
<1>6. ASSUME NEW x
      PROVE  x \in ToSet(c) <=> x \in ToSet(a) \cup ToSet(b)
  <2>1. ASSUME x \in ToSet(c) PROVE x \in ToSet(a) \cup ToSet(b)
    <3>1. PICK k \in 1..m + n : x = c[k]
          BY <1>2, <2>1 DEF ToSet
    <3>2. CASE k \in 1..m
          BY <1>1, <1>2, <3>1, <3>2 DEF ToSet
    <3>3. CASE \E l \in 1..n : k = m + l
          BY <1>1, <1>2, <3>1, <3>3 DEF ToSet
    <3> QED
        BY <1>5, <3>2, <3>3
  <2>2. ASSUME x \in ToSet(a) PROVE x \in ToSet(c)
        BY <1>1, <1>2, <1>3, <2>2 DEF ToSet
  <2>3. ASSUME x \in ToSet(b) PROVE x \in ToSet(c)
    <3>1. PICK k \in 1..n : x = b[k]
          BY <1>2, <2>3 DEF ToSet
    <3>2. x = c[m + k] /\ m + k \in DOMAIN c
          BY <1>1, <1>2, <1>4, <3>1
    <3> QED
        BY <3>2 DEF ToSet
  <2> QED
      BY <2>1, <2>2, <2>3
<1> QED
    BY <1>1, <1>6

\* q is s with x behind its first c entries.
IsInsert(q, s, c, x, T) ==
    /\ q \in Seq(T) /\ Len(q) = Len(s) + 1
    /\ \A k \in 1..c : q[k] = s[k]
    /\ q[c + 1] = x
    /\ \A k \in c + 2..Len(s) + 1 : q[k] = s[k - 1]

\* InsertAt puts a value behind the first c entries.
LEMMA InsertAtInserts ==
    ASSUME NEW T, NEW s \in Seq(T), NEW x \in T, NEW c \in 0..Len(s)
    PROVE  IsInsert(InsertAt(s, c + 1, x), s, c, x, T)
<1>q. PICK q : q = InsertAt(s, c + 1, x)
      OBVIOUS
<1>m. PICK m : m = Len(s)
      OBVIOUS
<1>a. PICK a : a = SubSeq(s, 1, c)
    OBVIOUS
<1>b. PICK b : b = SubSeq(s, c + 1, m)
    OBVIOUS
<1>1. m \in Nat /\ (c + 1) - 1 = c /\ c \in 0..m
      BY <1>m
<1>2. q = a \o <<x>> \o b
      BY <1>1, <1>a, <1>b, <1>m, <1>q DEF InsertAt
<1>3. /\ a \in Seq(T) /\ Len(a) = c /\ \A k \in 1..c : a[k] = s[k]
      BY <1>1, <1>a, <1>m
<1>4. /\ b \in Seq(T) /\ Len(b) = m - c
      /\ \A k \in 1..m - c : b[k] = s[c + k]
      BY <1>1, <1>b, <1>m
<1>5. <<x>> \in Seq(T) /\ Len(<<x>>) = 1 /\ <<x>>[1] = x
      OBVIOUS
<1> HIDE DEF InsertAt
<1>d. PICK d : d = a \o <<x>>
    OBVIOUS
<1>6. /\ d \in Seq(T) /\ Len(d) = c + 1
      /\ \A k \in 1..c : d[k] = s[k]
      /\ d[c + 1] = x
      BY <1>1, <1>3, <1>5, <1>d
<1>7. q = d \o b
      BY <1>2, <1>3, <1>4, <1>5, <1>d
<1>8. /\ q \in Seq(T) /\ Len(q) = m + 1
      /\ \A k \in 1..c + 1 : q[k] = d[k]
      /\ \A k \in 1..m - c : q[c + 1 + k] = b[k]
  <2>0. d \in Seq(T) /\ b \in Seq(T)
        BY <1>4, <1>6
  <2>1. ASSUME NEW e, e = d \o b
        PROVE  /\ e \in Seq(T) /\ Len(e) = Len(d) + Len(b)
               /\ \A k \in 1..Len(d) : e[k] = d[k]
               /\ \A k \in 1..Len(b) : e[Len(d) + k] = b[k]
        BY <2>0, <2>1, JoinFacts
  <2>2. Len(d) + Len(b) = m + 1
        BY <1>1, <1>4, <1>6
  <2>3. /\ q \in Seq(T) /\ Len(q) = Len(d) + Len(b)
        /\ \A k \in 1..Len(d) : q[k] = d[k]
        /\ \A k \in 1..Len(b) : q[Len(d) + k] = b[k]
        BY <1>7, <2>1
  <2> QED
      BY <1>4, <1>6, <2>2, <2>3
<1>9. \A k \in c + 2..m + 1 :
          /\ k - c - 1 \in 1..m - c
          /\ c + 1 + (k - c - 1) = k /\ c + (k - c - 1) = k - 1
      BY <1>1
<1>10. \A k \in c + 2..m + 1 : q[k] = s[k - 1]
  <2> SUFFICES ASSUME NEW k \in c + 2..m + 1 PROVE q[k] = s[k - 1]
      OBVIOUS
  <2> PICK l : l = k - c - 1
      OBVIOUS
  <2>1. l \in 1..m - c /\ c + 1 + l = k /\ c + l = k - 1
        BY <1>9
  <2>2. q[c + 1 + l] = b[l] /\ b[l] = s[c + l]
        BY <1>4, <1>8, <2>1
  <2> QED
      BY <2>1, <2>2
<1>11. \A k \in 1..c : k \in 1..c + 1
       BY <1>1
<1>12. c + 1 \in 1..c + 1
       BY <1>1
<1>13. IsInsert(q, s, c, x, T)
       BY <1>1, <1>6, <1>8, <1>10, <1>11, <1>12, <1>m DEF IsInsert
<1> QED
    BY <1>13, <1>q

-----------------------------------------------------------------------------
\* A set of positions without a gap in front is an interval.
LEMMA FrontPart ==
    ASSUME NEW m \in Nat, NEW A \in SUBSET (1..m),
           \A k \in A : \A j \in 1..k : j \in A
    PROVE  Cardinality(A) \in 0..m /\ A = 1..Cardinality(A)
<1> DEFINE B == {k \in Nat : k >= 1 /\ k \notin A}
<1>1. m + 1 \in B
      OBVIOUS
<1>2. PICK b \in B : \A k \in B : b <= k
      BY <1>1, LeastNumber
<1>3. b \in 1..m + 1 /\ b \notin A /\ \A k \in 1..b - 1 : k \in A
  <2>1. b <= m + 1
        BY <1>1, <1>2
  <2>2. \A k \in 1..b - 1 : k \in Nat /\ k >= 1 /\ ~(b <= k)
        BY <1>2
  <2>3. \A k \in 1..b - 1 : k \notin B
        BY <1>2, <2>2
  <2> QED
      BY <1>2, <2>1, <2>2, <2>3
<1>4. \A k \in A : k \in 1..b - 1
  <2> SUFFICES ASSUME NEW k \in A, k \notin 1..b - 1 PROVE FALSE
      OBVIOUS
  <2>1. b \in 1..k
        BY <1>3
  <2> QED
      BY <1>3, <2>1
<1>5. A = 1..b - 1
      BY <1>3, <1>4
<1>6. b - 1 \in Nat /\ b - 1 \in 0..m
      BY <1>3
<1>7. Cardinality(1..b - 1) = b - 1
      BY <1>6, FS_Interval
<1> QED
    BY <1>5, <1>6, <1>7

\* R orders the values in V strictly and totally.
Orders(R, V) ==
    /\ \A x \in V : <<x, x>> \notin R
    /\ \A x, y, z \in V : <<x, y>> \in R /\ <<y, z>> \in R => <<x, z>> \in R
    /\ \A x, y \in V : x = y \/ <<x, y>> \in R \/ <<y, x>> \in R

\* The entries of a sequence are in the order of R.
Ascends(s, R) ==
    \A k, l \in DOMAIN s : k < l => <<s[k], s[l]>> \in R

\* The positions of the entries that x does not precede.
Ahead(s, x, R) == {k \in DOMAIN s : <<x, s[k]>> \notin R}

\* A new entry put behind those it does not precede keeps the order.
LEMMA InsertAscends ==
    ASSUME NEW T, NEW s \in Seq(T), NEW x \in T, NEW R,
           NEW V, Orders(R, V), x \in V,
           \A k \in DOMAIN s : s[k] \in V /\ s[k] # x,
           Ascends(s, R),
           NEW q, q = InsertAt(s, Cardinality(Ahead(s, x, R)) + 1, x)
    PROVE  Ascends(q, R)
<1>a. PICK c : c = Cardinality(Ahead(s, x, R))
      OBVIOUS
<1>b. PICK m : m = Len(s)
      OBVIOUS
<1>1. m \in Nat /\ DOMAIN s = 1..m
      BY <1>b
<1>2. \A k \in Ahead(s, x, R) : \A j \in 1..k : j \in Ahead(s, x, R)
  <2> SUFFICES ASSUME NEW k \in Ahead(s, x, R), NEW j \in 1..k, j # k
               PROVE  j \in Ahead(s, x, R)
      OBVIOUS
  <2>1. k \in 1..m /\ <<x, s[k]>> \notin R
        BY <1>1 DEF Ahead
  <2>2. j \in 1..m /\ j < k
        BY <1>1, <2>1
  <2>3. <<s[j], s[k]>> \in R
        BY <1>1, <2>1, <2>2 DEF Ascends
  <2>4. s[j] \in V /\ s[k] \in V /\ s[k] # x
        BY <1>1, <2>1, <2>2
  <2>5. <<s[k], x>> \in R
        BY <2>1, <2>4 DEF Orders
  <2>6. <<s[j], x>> \in R
        BY <2>3, <2>4, <2>5 DEF Orders
  <2>7. <<x, s[j]>> \notin R
        BY <2>4, <2>6 DEF Orders
  <2> QED
      BY <1>1, <2>2, <2>7 DEF Ahead
<1>3. Ahead(s, x, R) \in SUBSET (1..m)
      BY <1>1 DEF Ahead
<1>4. c \in 0..m /\ Ahead(s, x, R) = 1..c
      BY <1>1, <1>2, <1>3, <1>a, FrontPart
<1>5. \A k \in 1..m : s[k] \in V /\ s[k] # x
      BY <1>1
<1>6. \A k \in 1..c : k \in 1..m /\ <<s[k], x>> \in R
  <2> SUFFICES ASSUME NEW k \in 1..c PROVE k \in 1..m /\ <<s[k], x>> \in R
      OBVIOUS
  <2>1. k \in 1..m /\ <<x, s[k]>> \notin R
        BY <1>1, <1>4 DEF Ahead
  <2> QED
      BY <1>5, <2>1 DEF Orders
<1>7. \A k \in c + 1..m : <<x, s[k]>> \in R
  <2> SUFFICES ASSUME NEW k \in c + 1..m PROVE <<x, s[k]>> \in R
      OBVIOUS
  <2>1. k \in 1..m /\ k \notin 1..c
        BY <1>1, <1>4
  <2> QED
      BY <1>1, <1>4, <2>1 DEF Ahead
<1>8. \A k, l \in 1..m : k < l => <<s[k], s[l]>> \in R
      BY <1>1 DEF Ascends
<1>9. q = InsertAt(s, c + 1, x)
      BY <1>a
<1>10. /\ q \in Seq(T) /\ Len(q) = m + 1
       /\ \A k \in 1..c : q[k] = s[k]
       /\ q[c + 1] = x
       /\ \A k \in c + 2..m + 1 : q[k] = s[k - 1]
  <2>1. c \in 0..Len(s)
        BY <1>4, <1>b
  <2>2. IsInsert(InsertAt(s, c + 1, x), s, c, x, T)
        BY <2>1, InsertAtInserts
  <2>3. IsInsert(q, s, c, x, T)
        BY <1>9, <2>2
  <2> QED
      BY <1>b, <2>3 DEF IsInsert
<1>11. DOMAIN q = 1..m + 1
       BY <1>10
<1>12. ASSUME NEW k \in 1..m + 1, NEW l \in 1..m + 1, k < l
       PROVE  <<q[k], q[l]>> \in R
  <2>1. CASE l \in 1..c
    <3>1. k \in 1..c /\ k \in 1..m /\ l \in 1..m
          BY <1>1, <1>4, <1>12, <2>1
    <3> QED
        BY <1>8, <1>10, <1>12, <2>1, <3>1
  <2>2. CASE l = c + 1
    <3>1. k \in 1..c
          BY <1>1, <1>4, <1>12, <2>2
    <3>2. q[k] = s[k] /\ q[l] = x
          BY <1>10, <2>2, <3>1
    <3> QED
        BY <1>6, <3>1, <3>2
  <2>3. CASE l \in c + 2..m + 1
    <3>1. q[l] = s[l - 1] /\ l - 1 \in c + 1..m /\ l - 1 \in 1..m
          BY <1>1, <1>4, <1>10, <2>3
    <3>2. CASE k \in 1..c
      <4>1. q[k] = s[k] /\ k \in 1..m /\ k < l - 1
            BY <1>1, <1>4, <1>10, <2>3, <3>2
      <4> QED
          BY <1>8, <3>1, <4>1
    <3>3. CASE k = c + 1
      <4>1. q[k] = x
            BY <1>10, <3>3
      <4> QED
          BY <1>7, <3>1, <4>1
    <3>4. CASE k \in c + 2..m + 1
      <4>1. q[k] = s[k - 1] /\ k - 1 \in 1..m /\ k - 1 < l - 1
            BY <1>1, <1>4, <1>10, <1>12, <3>4
      <4> QED
          BY <1>8, <3>1, <4>1
    <3> QED
        BY <1>1, <1>4, <3>2, <3>3, <3>4
  <2> QED
      BY <1>1, <1>4, <2>1, <2>2, <2>3
<1> QED
    BY <1>11, <1>12 DEF Ascends

\* The entries after an insertion, wherever it was made.
LEMMA InsertAdds ==
    ASSUME NEW T, NEW s \in Seq(T), NEW x \in T, NEW m, m = Len(s),
           NEW c \in 0..m, NEW q, q = InsertAt(s, c + 1, x)
    PROVE  ToSet(q) = ToSet(s) \cup {x}
<1>0. IsInsert(q, s, c, x, T)
      BY InsertAtInserts
<1>1. /\ m \in Nat /\ q \in Seq(T) /\ Len(q) = m + 1
      /\ \A k \in 1..c : q[k] = s[k]
      /\ q[c + 1] = x
      /\ \A k \in c + 2..m + 1 : q[k] = s[k - 1]
      BY <1>0 DEF IsInsert
<1>2. DOMAIN s = 1..m /\ DOMAIN q = 1..m + 1 /\ c \in 0..m
      BY <1>1
<1>3. ASSUME NEW y \in ToSet(q) PROVE y \in ToSet(s) \cup {x}
  <2>1. PICK k \in 1..m + 1 : y = q[k]
        BY <1>2 DEF ToSet
  <2>2. CASE k \in 1..c
    <3>1. k \in 1..m /\ y = s[k]
          BY <1>1, <1>2, <2>1, <2>2
    <3> QED
        BY <1>2, <3>1 DEF ToSet
  <2>3. CASE k = c + 1
        BY <1>1, <2>1, <2>3
  <2>4. CASE k \in c + 2..m + 1
    <3>1. k - 1 \in 1..m /\ y = s[k - 1]
          BY <1>1, <1>2, <2>1, <2>4
    <3> QED
        BY <1>2, <3>1 DEF ToSet
  <2> QED
      BY <1>1, <1>2, <2>2, <2>3, <2>4
<1>4. ASSUME NEW y \in ToSet(s) PROVE y \in ToSet(q)
  <2>1. PICK k \in 1..m : y = s[k]
        BY <1>2 DEF ToSet
  <2>2. CASE k \in 1..c
    <3>1. k \in 1..m + 1 /\ y = q[k]
          BY <1>1, <1>2, <2>1, <2>2
    <3> QED
        BY <1>2, <3>1 DEF ToSet
  <2>3. CASE k \notin 1..c
    <3>1. k + 1 \in c + 2..m + 1 /\ k + 1 \in 1..m + 1 /\ (k + 1) - 1 = k
          BY <1>1, <1>2, <2>3
    <3>2. y = q[k + 1]
          BY <1>1, <2>1, <3>1
    <3> QED
        BY <1>2, <3>1, <3>2 DEF ToSet
  <2> QED
      BY <2>2, <2>3
<1>5. x \in ToSet(q)
  <2>1. c + 1 \in DOMAIN q /\ q[c + 1] = x
        BY <1>1, <1>2
  <2> QED
      BY <2>1 DEF ToSet
<1> QED
    BY <1>3, <1>4, <1>5

\* s with x behind the entries that it does not precede.
InsertSorted(s, x, R) == InsertAt(s, Cardinality(Ahead(s, x, R)) + 1, x)

\* F sorts all beginnings of a sequence by insertion.
SortsUpto(F, T, N, seq, R) ==
    /\ F \in [0..N -> Seq(T)]
    /\ F[0] = <<>>
    /\ \A n \in 1..N : F[n] = InsertSorted(F[n - 1], seq[n], R)

\* The number of those entries is a position in the sequence.
LEMMA AheadIsPlace ==
    ASSUME NEW T, NEW s \in Seq(T), NEW x \in T, NEW R
    PROVE  Cardinality(Ahead(s, x, R)) \in 0..Len(s)
<1>m. PICK m : m = Len(s)
      OBVIOUS
<1>1. m \in Nat /\ Ahead(s, x, R) \in SUBSET (1..m)
      BY <1>m DEF Ahead
<1>2. IsFiniteSet(1..m) /\ Cardinality(1..m) = m
      BY <1>1, FS_Interval
<1>3. /\ IsFiniteSet(Ahead(s, x, R))
      /\ Cardinality(Ahead(s, x, R)) <= Cardinality(1..m)
      BY <1>1, <1>2, FS_Subset
<1>4. Cardinality(Ahead(s, x, R)) \in Nat
      BY <1>3, FS_CardinalityType
<1> QED
    BY <1>1, <1>2, <1>3, <1>4, <1>m

\* Insertion adds one entry and loses none.
LEMMA InsertSortedFacts ==
    ASSUME NEW T, NEW s \in Seq(T), NEW x \in T, NEW R
    PROVE  /\ InsertSorted(s, x, R) \in Seq(T)
           /\ Len(InsertSorted(s, x, R)) = Len(s) + 1
           /\ ToSet(InsertSorted(s, x, R)) = ToSet(s) \cup {x}
<1>c. PICK c : c = Cardinality(Ahead(s, x, R))
      OBVIOUS
<1>1. c \in 0..Len(s)
      BY <1>c, AheadIsPlace
<1>2. IsInsert(InsertAt(s, c + 1, x), s, c, x, T)
      BY <1>1, InsertAtInserts
<1>3. InsertAt(s, c + 1, x) \in Seq(T)
      /\ Len(InsertAt(s, c + 1, x)) = Len(s) + 1
      BY <1>2 DEF IsInsert
<1>4. ToSet(InsertAt(s, c + 1, x)) = ToSet(s) \cup {x}
      BY <1>1, InsertAdds
<1> QED
    BY <1>3, <1>4, <1>c DEF InsertSorted

\* There is a function that sorts all beginnings of a sequence.
LEMMA SortExists ==
    ASSUME NEW T, NEW N \in Nat, NEW seq, NEW R,
           \A n \in 1..N : seq[n] \in T
    PROVE  \E F : SortsUpto(F, T, N, seq, R)
<1> DEFINE G == [p \in (1..N) \X Seq(T) |-> InsertSorted(p[2], seq[p[1]], R)]
<1>1. G \in [(1..N) \X Seq(T) -> Seq(T)]
  <2>1. \A p \in (1..N) \X Seq(T) : p[2] \in Seq(T) /\ seq[p[1]] \in T
        OBVIOUS
  <2>2. \A p \in (1..N) \X Seq(T) : InsertSorted(p[2], seq[p[1]], R) \in Seq(T)
        BY <2>1, InsertSortedFacts
  <2> QED
      BY <2>2
<1>2. \A n \in 1..N, s \in Seq(T) : G[<<n, s>>] = InsertSorted(s, seq[n], R)
      OBVIOUS
<1>3. <<>> \in Seq(T)
      OBVIOUS
<1> HIDE DEF G
<1>4. PICK f \in [0..N -> Seq(T)] : Recurs(f, N, <<>>, G)
      BY <1>1, <1>3, RecursionExists
<1>5. \A n \in 1..N : f[n - 1] \in Seq(T) /\ f[n] = G[<<n, f[n - 1]>>]
      BY <1>4 DEF Recurs
<1>6. SortsUpto(f, T, N, seq, R)
      BY <1>2, <1>4, <1>5 DEF Recurs, SortsUpto
<1> QED
    BY <1>6

\* No value occurs twice in a sequence.
Distinct(s) == \A k, l \in DOMAIN s : s[k] = s[l] => k = l

\* Sorting keeps the entries, and orders them if the order is strict.
SortOf(p, seq, T, R) ==
    /\ p \in Seq(T) /\ Len(p) = Len(seq) /\ ToSet(p) = ToSet(seq)
    /\ Orders(R, ToSet(seq)) /\ Distinct(seq) => Ascends(p, R)

\* What such a function makes of the whole sequence.
LEMMA SortResult ==
    ASSUME NEW T, NEW seq \in Seq(T), NEW R, NEW N, N = Len(seq),
           NEW F, SortsUpto(F, T, N, seq, R)
    PROVE  SortOf(F[N], seq, T, R)
<1>0. /\ N \in Nat /\ DOMAIN seq = 1..N
      /\ \A n \in 1..N : seq[n] \in T /\ seq[n] \in ToSet(seq)
      BY DEF ToSet
<1>1. /\ F \in [0..N -> Seq(T)] /\ F[0] = <<>>
      /\ \A n \in 1..N : F[n] = InsertSorted(F[n - 1], seq[n], R)
      BY DEF SortsUpto
<1> DEFINE Strict == Orders(R, ToSet(seq)) /\ Distinct(seq)
           Fine(n) == /\ Len(F[n]) = n
                      /\ ToSet(F[n]) = {seq[i] : i \in 1..n}
                      /\ Strict => Ascends(F[n], R)
           H == {n \in 0..N : Fine(n)}
<1>2. 0 \in H
  <2>1. F[0] = <<>> /\ 0 \in 0..N
        BY <1>0, <1>1
  <2>2. Len(<<>>) = 0 /\ ToSet(<<>>) = {} /\ {seq[i] : i \in 1..0} = {}
        BY DEF ToSet
  <2>3. Ascends(<<>>, R)
        BY DEF Ascends
  <2> QED
      BY <2>1, <2>2, <2>3
<1>3. ASSUME NEW n \in 1..N, n - 1 \in H PROVE n \in H
  <2>1. Fine(n - 1) /\ n - 1 \in 0..N /\ n \in 0..N
        BY <1>0, <1>3
  <2> HIDE DEF Strict
  <2>2. F[n - 1] \in Seq(T) /\ F[n] = InsertSorted(F[n - 1], seq[n], R)
        /\ seq[n] \in T
        BY <1>0, <1>1, <2>1
  <2>3. Len(F[n]) = Len(F[n - 1]) + 1
        /\ ToSet(F[n]) = ToSet(F[n - 1]) \cup {seq[n]}
        BY <2>2, InsertSortedFacts
  <2>4. Len(F[n]) = n
        BY <1>0, <2>1, <2>3
  <2>5. ToSet(F[n]) = {seq[i] : i \in 1..n}
    <3>1. 1..n = (1..n - 1) \cup {n}
          BY <1>0
    <3>2. ToSet(F[n - 1]) = {seq[i] : i \in 1..n - 1}
          BY <2>1
    <3>3. {seq[i] : i \in (1..n - 1) \cup {n}}
              = {seq[i] : i \in 1..n - 1} \cup {seq[n]}
          OBVIOUS
    <3> QED
        BY <2>3, <3>1, <3>2, <3>3
  <2>6. ASSUME Strict PROVE Ascends(F[n], R)
    <3>1. Ascends(F[n - 1], R)
          BY <2>1, <2>6
    <3>2. \A k \in DOMAIN F[n - 1] :
              F[n - 1][k] \in ToSet(seq) /\ F[n - 1][k] # seq[n]
      <4> SUFFICES ASSUME NEW k \in DOMAIN F[n - 1]
                   PROVE  F[n - 1][k] \in ToSet(seq) /\ F[n - 1][k] # seq[n]
          OBVIOUS
      <4>1. F[n - 1][k] \in {seq[i] : i \in 1..n - 1}
            BY <2>1 DEF ToSet
      <4>2. PICK i \in 1..n - 1 : F[n - 1][k] = seq[i]
            BY <4>1
      <4>3. i \in 1..N /\ i # n
            BY <1>0, <4>2
      <4>4. seq[i] # seq[n]
            BY <1>0, <2>6, <4>3 DEF Strict, Distinct
      <4> QED
          BY <1>0, <4>2, <4>3, <4>4
    <3>3. Orders(R, ToSet(seq)) /\ seq[n] \in ToSet(seq)
          BY <1>0, <2>6 DEF Strict
    <3>4. Ascends(InsertSorted(F[n - 1], seq[n], R), R)
          BY <2>2, <3>1, <3>2, <3>3, InsertAscends DEF InsertSorted
    <3> QED
        BY <2>2, <3>4
  <2> QED
      BY <2>1, <2>4, <2>5, <2>6
<1>4. Fine(N)
  <2> HIDE DEF H
  <2>1. \A n \in 0..N : n \in H
        BY <1>0, <1>2, <1>3, UpTo
  <2>2. N \in H
        BY <1>0, <2>1
  <2> QED
      BY <2>2 DEF H
<1>5. F[N] \in Seq(T)
      BY <1>0, <1>1
<1>6. ToSet(seq) = {seq[i] : i \in 1..N}
      BY <1>0 DEF ToSet
<1> QED
    BY <1>4, <1>5, <1>6 DEF SortOf

-----------------------------------------------------------------------------
\* F joins all beginnings of a sequence of sequences.
JoinsUpto(F, T, N, ss) ==
    /\ F \in [0..N -> Seq(T)]
    /\ F[0] = <<>>
    /\ \A n \in 1..N : F[n] = F[n - 1] \o ss[n]

\* There is a function that joins all beginnings.
LEMMA JoinsExist ==
    ASSUME NEW T, NEW N \in Nat, NEW ss, \A n \in 1..N : ss[n] \in Seq(T)
    PROVE  \E F : JoinsUpto(F, T, N, ss)
<1> DEFINE G == [p \in (1..N) \X Seq(T) |-> p[2] \o ss[p[1]]]
<1>1. G \in [(1..N) \X Seq(T) -> Seq(T)]
  <2>1. \A p \in (1..N) \X Seq(T) : p[2] \in Seq(T) /\ ss[p[1]] \in Seq(T)
        OBVIOUS
  <2>2. \A a, b \in Seq(T) : a \o b \in Seq(T)
        OBVIOUS
  <2> QED
      BY <2>1, <2>2
<1>2. \A n \in 1..N, s \in Seq(T) : G[<<n, s>>] = s \o ss[n]
      OBVIOUS
<1>3. <<>> \in Seq(T)
      OBVIOUS
<1> HIDE DEF G
<1>4. PICK f \in [0..N -> Seq(T)] : Recurs(f, N, <<>>, G)
      BY <1>1, <1>3, RecursionExists
<1>5. \A n \in 1..N : f[n - 1] \in Seq(T) /\ f[n] = G[<<n, f[n - 1]>>]
      BY <1>4 DEF Recurs
<1>6. JoinsUpto(f, T, N, ss)
      BY <1>2, <1>4, <1>5 DEF Recurs, JoinsUpto
<1> QED
    BY <1>6

\* What the recursive function in FlattenSeq computes.
LEMMA FlattenSteps ==
    ASSUME NEW T, NEW ss \in Seq(Seq(T)), NEW N, N = Len(ss)
    PROVE  \E F : JoinsUpto(F, T, N, ss) /\ FlattenSeq(ss) = F[N]
<1>1. N \in Nat /\ \A n \in 1..N : ss[n] \in Seq(T)
      OBVIOUS
<1>2. CASE N = 0
  <2>0. \A S : \A s \in Seq(S) : Len(s) = 0 => s = <<>>
        OBVIOUS
  <2>1. FlattenSeq(ss) = ss
        BY <1>2, Zenon DEF FlattenSeq
  <2>2. PICK F : JoinsUpto(F, T, N, ss)
        BY <1>1, JoinsExist
  <2>3. FlattenSeq(ss) = F[N]
        BY <1>2, <2>0, <2>1, <2>2 DEF JoinsUpto
  <2> QED
      BY <2>2, <2>3
<1>3. CASE N # 0
  <2> DEFINE Joins(f) == f = [i \in 1..N |-> IF i = 1 THEN ss[i]
                                            ELSE f[i - 1] \o ss[i]]
  <2>1. FlattenSeq(ss) = (CHOOSE f : Joins(f))[N]
        BY <1>3 DEF FlattenSeq
  <2>2. PICK F : JoinsUpto(F, T, N, ss)
        BY <1>1, JoinsExist
  <2>3. /\ F \in [0..N -> Seq(T)] /\ F[0] = <<>>
        /\ \A n \in 1..N : F[n] = F[n - 1] \o ss[n]
        BY <2>2 DEF JoinsUpto
  <2> DEFINE g == [i \in 1..N |-> F[i]]
  <2>4. ASSUME NEW i \in 1..N
        PROVE  F[i] = IF i = 1 THEN ss[i] ELSE g[i - 1] \o ss[i]
    <3>1. CASE i = 1
      <4>0. i - 1 = 0
            BY <3>1
      <4>1. F[i] = F[0] \o ss[i]
            BY <2>3, <4>0
      <4>2. ss[i] \in Seq(T)
            BY <1>1
      <4>3. \A s \in Seq(T) : <<>> \o s = s
            OBVIOUS
      <4>4. F[i] = ss[i]
            BY <2>3, <4>1, <4>2, <4>3
      <4> QED
          BY <3>1, <4>4
    <3>2. CASE i # 1
      <4>1. i - 1 \in 1..N
            BY <1>1, <3>2
      <4>2. g[i - 1] = F[i - 1] /\ F[i] = F[i - 1] \o ss[i]
            BY <2>3, <4>1
      <4> HIDE DEF g
      <4> QED
          BY <3>2, <4>2
    <3> QED
        BY <3>1, <3>2
  <2>5. Joins(g)
    <3>1. \A i \in 1..N : g[i] = IF i = 1 THEN ss[i] ELSE g[i - 1] \o ss[i]
          BY <2>4
    <3>2. g = [i \in 1..N |-> g[i]]
          OBVIOUS
    <3> HIDE DEF g
    <3> QED
        BY <3>1, <3>2, Zenon
  <2> HIDE DEF g
  <2>6. PICK f : Joins(f) /\ FlattenSeq(ss) = f[N]
        BY <2>1, <2>5, Zenon
  <2>7. \A i \in 1..N : f[i] = IF i = 1 THEN ss[i] ELSE f[i - 1] \o ss[i]
        BY <2>6, Zenon
  <2> HIDE DEF Joins
  <2> DEFINE H == {0} \cup {n \in 1..N : f[n] = F[n]}
  <2>8. \A n \in 0..N : n \in H
    <3>1. 0 \in H
          OBVIOUS
    <3>2. ASSUME NEW n \in 1..N, n - 1 \in H PROVE n \in H
      <4>1. CASE n = 1
        <5>0. f[n] = ss[n]
              BY <2>7, <4>1
        <5>1. n - 1 = 0 /\ ss[n] \in Seq(T)
              BY <1>1, <4>1
        <5>4. F[n] = F[0] \o ss[n]
              BY <2>3, <5>1
        <5>3. \A s \in Seq(T) : <<>> \o s = s
              OBVIOUS
        <5>2. f[n] = F[n]
              BY <2>3, <5>0, <5>1, <5>3, <5>4
        <5> QED
            BY <5>2
      <4>2. CASE n # 1
        <5>1. f[n - 1] = F[n - 1]
              BY <1>1, <3>2, <4>2
        <5>2. f[n] = f[n - 1] \o ss[n] /\ F[n] = F[n - 1] \o ss[n]
              BY <2>3, <2>7, <4>2
        <5>3. f[n] = F[n]
              BY <5>1, <5>2
        <5> QED
            BY <5>3
      <4> QED
          BY <4>1, <4>2
    <3> HIDE DEF H
    <3> QED
        BY <1>1, <3>1, <3>2, UpTo
  <2>9. f[N] = F[N]
    <3>1. N \in H
          BY <1>1, <2>8
    <3> QED
        BY <1>3, <3>1
  <2> QED
      BY <2>2, <2>6, <2>9
<1> QED
    BY <1>2, <1>3

\* Joining sequences of sequences makes one, with the entries of all.
LEMMA FlattenFacts ==
    ASSUME NEW T, NEW ss \in Seq(Seq(T))
    PROVE  /\ FlattenSeq(ss) \in Seq(T)
           /\ ToSet(FlattenSeq(ss)) = UNION {ToSet(ss[i]) : i \in DOMAIN ss}
<1>n. PICK N : N = Len(ss)
      OBVIOUS
<1>1. N \in Nat /\ DOMAIN ss = 1..N /\ \A n \in 1..N : ss[n] \in Seq(T)
      BY <1>n
<1>2. PICK F : JoinsUpto(F, T, N, ss) /\ FlattenSeq(ss) = F[N]
      BY <1>n, FlattenSteps
<1>3. /\ F \in [0..N -> Seq(T)] /\ F[0] = <<>>
      /\ \A n \in 1..N : F[n] = F[n - 1] \o ss[n]
      BY <1>2 DEF JoinsUpto
<1> DEFINE H == {n \in 0..N : ToSet(F[n]) = UNION {ToSet(ss[i]) : i \in 1..n}}
<1>4. 0 \in H
  <2>1. F[0] = <<>> /\ ToSet(<<>>) = {} /\ 1..0 = {} /\ 0 \in 0..N
        BY <1>1, <1>3 DEF ToSet
  <2> QED
      BY <2>1
<1>5. ASSUME NEW n \in 1..N, n - 1 \in H PROVE n \in H
  <2>1. ToSet(F[n - 1]) = UNION {ToSet(ss[i]) : i \in 1..n - 1}
        /\ n - 1 \in 0..N /\ n \in 0..N
        BY <1>1, <1>5
  <2>2. ToSet(F[n]) = ToSet(F[n - 1]) \cup ToSet(ss[n])
    <3>1. F[n - 1] \in Seq(T) /\ ss[n] \in Seq(T)
          BY <1>1, <1>3, <2>1
    <3>2. IsJoin(F[n], F[n - 1], ss[n])
          BY <1>3 DEF IsJoin
    <3> QED
        BY <3>1, <3>2, JoinFacts
  <2>3. 1..n = (1..n - 1) \cup {n}
        BY <1>1
  <2>4. UNION {ToSet(ss[j]) : j \in 1..n}
                = (UNION {ToSet(ss[j]) : j \in 1..n - 1}) \cup ToSet(ss[n])
        BY <2>3
  <2> QED
      BY <2>1, <2>2, <2>4
<1>6. N \in H
  <2> HIDE DEF H
  <2>1. \A n \in 0..N : n \in H
        BY <1>1, <1>4, <1>5, UpTo
  <2> QED
      BY <1>1, <2>1
<1>7. F[N] \in Seq(T)
      BY <1>1, <1>3
<1> QED
    BY <1>1, <1>2, <1>6, <1>7

-----------------------------------------------------------------------------
\* What is made of a batch.

\* Insertion step by step gives the same, however it is written down.
LEMMA SortsAgree ==
    ASSUME NEW T, NEW N \in Nat, NEW seq, NEW R,
           NEW G, SortsUpto(G, T, N, seq, R),
           NEW F, F[0] = <<>>,
           \A n \in 1..N : F[n - 1] \in Seq(T) =>
                               F[n] = InsertSorted(F[n - 1], seq[n], R)
    PROVE  F[N] = G[N]
<1>1. /\ G \in [0..N -> Seq(T)] /\ G[0] = <<>>
      /\ \A n \in 1..N : G[n] = InsertSorted(G[n - 1], seq[n], R)
      BY DEF SortsUpto
<1> DEFINE H == {n \in 0..N : F[n] = G[n]}
<1>2. 0 \in H
      BY <1>1
<1>3. ASSUME NEW n \in 1..N, n - 1 \in H PROVE n \in H
  <2>1. n - 1 \in 0..N /\ F[n - 1] = G[n - 1]
        BY <1>3
  <2>2. F[n - 1] \in Seq(T)
        BY <1>1, <2>1
  <2> QED
      BY <1>1, <2>1, <2>2
<1> HIDE DEF H
<1>4. \A n \in 0..N : n \in H
      BY <1>2, <1>3, UpTo
<1>5. N \in H
      BY <1>4
<1> QED
    BY <1>5 DEF H

-----------------------------------------------------------------------------
\* Two lists of the same entries in the same strict order are the same list:
\* up to any position the entries agree ...
LEMMA AscendingAgrees ==
    ASSUME NEW T, NEW p \in Seq(T), NEW q \in Seq(T), NEW R,
           Orders(R, ToSet(p)), ToSet(p) = ToSet(q),
           Ascends(p, R), Ascends(q, R), NEW m \in Nat, NEW n \in Nat,
           m = Len(p), n = Len(q)
    PROVE  \A k \in Nat : k \in 1..m /\ k \in 1..n => p[k] = q[k]
<1>1. DOMAIN p = 1..m /\ DOMAIN q = 1..n
      OBVIOUS
<1>2. /\ \A x \in ToSet(p) : <<x, x>> \notin R
      /\ \A x, y, z \in ToSet(p) :
            <<x, y>> \in R /\ <<y, z>> \in R => <<x, z>> \in R
      BY DEF Orders
<1>3. /\ \A k, l \in 1..m : k < l => <<p[k], p[l]>> \in R
      /\ \A k, l \in 1..n : k < l => <<q[k], q[l]>> \in R
      BY <1>1 DEF Ascends
<1>4. /\ \A k \in 1..m : \E j \in 1..n : p[k] = q[j]
      /\ \A j \in 1..n : \E k \in 1..m : q[j] = p[k]
      /\ \A k \in 1..m : p[k] \in ToSet(p)
      /\ \A j \in 1..n : q[j] \in ToSet(p)
      BY <1>1 DEF ToSet
<1> DEFINE Bad == {k \in Nat : k \in 1..m /\ k \in 1..n /\ p[k] # q[k]}
<1>5. Bad = {}
  <2> SUFFICES ASSUME Bad # {} PROVE FALSE
      OBVIOUS
  <2>1. PICK k \in Bad : \A j \in Bad : k <= j
        BY LeastNumber
  <2>2. k \in 1..m /\ k \in 1..n /\ p[k] # q[k]
        BY <2>1
  <2>3. \A j \in 1..m : j \in 1..n /\ j < k => p[j] = q[j]
        BY <2>1
  <2>4. PICK j \in 1..n : p[k] = q[j]
        BY <1>4, <2>2
  <2>5. PICK i \in 1..m : q[k] = p[i]
        BY <1>4, <2>2
  <2> HIDE DEF Bad
  <2>6. k < j
    <3>1. CASE j < k
      <4>1. j \in 1..m /\ p[j] = p[k]
            BY <2>2, <2>3, <2>4, <3>1
      <4>2. <<p[j], p[k]>> \in R
            BY <1>3, <2>2, <3>1, <4>1
      <4> QED
          BY <1>2, <1>4, <2>2, <4>1, <4>2
    <3>2. j # k
          BY <2>2, <2>4
    <3> QED
        BY <2>2, <3>1, <3>2
  <2>7. k < i
    <3>1. CASE i < k
      <4>1. i \in 1..n /\ q[i] = q[k]
            BY <2>2, <2>3, <2>5, <3>1
      <4>2. <<q[i], q[k]>> \in R
            BY <1>3, <2>2, <3>1, <4>1
      <4> QED
          BY <1>2, <1>4, <2>2, <4>1, <4>2
    <3>2. i # k
          BY <2>2, <2>5
    <3> QED
        BY <2>2, <3>1, <3>2
  <2>8. <<q[k], p[k]>> \in R
        BY <1>3, <2>2, <2>4, <2>6
  <2>9. <<p[k], q[k]>> \in R
        BY <1>3, <2>2, <2>5, <2>7
  <2> QED
      BY <1>2, <1>4, <2>2, <2>8, <2>9
<1> QED
    BY <1>5

\* ... and neither has more entries than the other.
LEMMA AscendingEqual ==
    ASSUME NEW T, NEW p \in Seq(T), NEW q \in Seq(T), NEW R,
           Orders(R, ToSet(p)), ToSet(p) = ToSet(q),
           Ascends(p, R), Ascends(q, R)
    PROVE  p = q
<1> PICK m \in Nat : m = Len(p) /\ DOMAIN p = 1..m
    OBVIOUS
<1> PICK n \in Nat : n = Len(q) /\ DOMAIN q = 1..n
    OBVIOUS
<1>1. \A k \in Nat : k \in 1..m /\ k \in 1..n => p[k] = q[k]
      BY AscendingAgrees
<1>2. /\ \A x \in ToSet(p) : <<x, x>> \notin R
      /\ \A k, l \in 1..m : k < l => <<p[k], p[l]>> \in R
      /\ \A k, l \in 1..n : k < l => <<q[k], q[l]>> \in R
      /\ \A k \in 1..m : p[k] \in ToSet(p)
      /\ \A k \in 1..n : q[k] \in ToSet(p)
      /\ \A k \in 1..m : \E j \in 1..n : p[k] = q[j]
      /\ \A j \in 1..n : \E k \in 1..m : q[j] = p[k]
  <2>1. \A x \in ToSet(p) : <<x, x>> \notin R
        BY DEF Orders
  <2>2. /\ \A k, l \in 1..m : k < l => <<p[k], p[l]>> \in R
        /\ \A k, l \in 1..n : k < l => <<q[k], q[l]>> \in R
        BY DEF Ascends
  <2>3. /\ \A k \in 1..m : p[k] \in ToSet(p)
        /\ \A k \in 1..n : q[k] \in ToSet(p)
        /\ \A k \in 1..m : \E j \in 1..n : p[k] = q[j]
        /\ \A j \in 1..n : \E k \in 1..m : q[j] = p[k]
        BY DEF ToSet
  <2> QED
      BY <2>1, <2>2, <2>3
<1>3. ~(m < n)
  <2> SUFFICES ASSUME m < n PROVE FALSE
      OBVIOUS
  <2>1. n \in 1..n
        OBVIOUS
  <2>2. PICK k \in 1..m : q[n] = p[k]
        BY <1>2, <2>1
  <2>3. k \in 1..n /\ k < n /\ p[k] = q[k]
        BY <1>1
  <2>4. <<q[k], q[n]>> \in R
        BY <1>2, <2>1, <2>3
  <2> QED
      BY <1>2, <2>1, <2>2, <2>3, <2>4
<1>4. ~(n < m)
  <2> SUFFICES ASSUME n < m PROVE FALSE
      OBVIOUS
  <2>1. m \in 1..m
        OBVIOUS
  <2>2. PICK k \in 1..n : p[m] = q[k]
        BY <1>2, <2>1
  <2>3. k \in 1..m /\ k < m /\ p[k] = q[k]
        BY <1>1
  <2>4. <<p[k], p[m]>> \in R
        BY <1>2, <2>1, <2>3
  <2> QED
      BY <1>2, <2>1, <2>2, <2>3, <2>4
<1>5. m = n
      BY <1>3, <1>4
<1>6. \A k \in 1..m : p[k] = q[k]
      BY <1>1, <1>5
<1> QED
    BY <1>5, <1>6

\* So what is sorted does not depend on the order it came in.
LEMMA SortsEqual ==
    ASSUME NEW T, NEW s \in Seq(T), NEW t \in Seq(T), NEW R,
           NEW p, SortOf(p, s, T, R), NEW q, SortOf(q, t, T, R),
           Distinct(s), Distinct(t), ToSet(s) = ToSet(t), Orders(R, ToSet(s))
    PROVE  p = q
<1>1. /\ p \in Seq(T) /\ ToSet(p) = ToSet(s) /\ Ascends(p, R)
      /\ q \in Seq(T) /\ ToSet(q) = ToSet(s) /\ Ascends(q, R)
      BY DEF SortOf
<1> QED
    BY <1>1, AscendingEqual

-----------------------------------------------------------------------------
DistinctIds(s) == \A k, l \in DOMAIN s : s[k].id = s[l].id => k = l

\* Every position of a list that repeats no id is kept.
LEMMA AllKept ==
    ASSUME NEW T, NEW spans \in Seq(T), DistinctIds(spans)
    PROVE  Kept(spans) = DOMAIN spans
<1>1. PICK N \in Nat : N = Len(spans) /\ DOMAIN spans = 1..N
      OBVIOUS
<1>2. ASSUME NEW i \in 1..N, NEW j \in 1..i - 1
      PROVE  spans[j].id # spans[i].id
  <2>1. j \in 1..N /\ j # i
        BY <1>1
  <2> QED
      BY <1>1, <2>1 DEF DistinctIds
<1> QED
    BY <1>1, <1>2 DEF Kept

\* A filter that lets distinct entries through repeats none.
LEMMA PickedDistinct ==
    ASSUME NEW T, NEW seq \in Seq(T), NEW S,
           NEW A, A = S \cap DOMAIN seq,
           \A i, j \in A : seq[i] = seq[j] => i = j
    PROVE  Distinct(Picked(seq, S))
<1>1. PICK p : p = Picked(seq, S)
      OBVIOUS
<1>2. p \in Seq(T) /\ Lists(p, seq, A)
      BY <1>1, PickedLists
<1>3. PICK m \in Nat : m = Len(p) /\ DOMAIN p = 1..m
      BY <1>2
<1>4. PICK at : Places(at, m, p, seq, A)
      BY <1>2, <1>3 DEF Lists
<1>5. /\ \A k \in 1..m : at[k] \in A
      /\ \A k, l \in 1..m : k < l => at[k] < at[l]
      /\ \A k \in 1..m : p[k] = seq[at[k]]
      BY <1>4 DEF Places
<1>6. A \in SUBSET Nat
      OBVIOUS
<1>7. ASSUME NEW k \in 1..m, NEW l \in 1..m, p[k] = p[l] PROVE k = l
  <2>1. at[k] = at[l] /\ at[k] \in Nat
        BY <1>5, <1>6, <1>7
  <2>2. ~(k < l) /\ ~(l < k)
        BY <1>5, <2>1
  <2> QED
      BY <1>3, <2>2
<1> QED
    BY <1>1, <1>3, <1>7 DEF Distinct

\* What is left when repeated ids are set aside.
LEMMA UniqueFacts ==
    ASSUME NEW T, NEW spans \in Seq(T), NEW u, u = Unique(spans)
    PROVE  /\ u \in Seq(T)
           /\ ToSet(u) \subseteq ToSet(spans)
           /\ Distinct(u)
           /\ DistinctIds(spans) => ToSet(u) = ToSet(spans)
<1>1. PICK N \in Nat : N = Len(spans) /\ DOMAIN spans = 1..N
      OBVIOUS
<1>2. Kept(spans) \subseteq DOMAIN spans
      BY DEF Kept
<1>3. u \in Seq(T) /\ ToSet(u) = {spans[i] : i \in Kept(spans) \cap DOMAIN spans}
      BY PickedFacts DEF Unique
<1>4. ToSet(u) \subseteq ToSet(spans)
      BY <1>3 DEF ToSet
<1>5. ASSUME DistinctIds(spans) PROVE ToSet(u) = ToSet(spans)
  <2>1. Kept(spans) = DOMAIN spans
        BY <1>5, AllKept
  <2> QED
      BY <1>3, <2>1 DEF ToSet
<1>6. ASSUME NEW i \in Kept(spans), NEW j \in Kept(spans), spans[i] = spans[j]
      PROVE  i = j
  <2>1. i \in 1..N /\ j \in 1..N
        BY <1>1, <1>2
  <2>2. /\ \A k \in 1..i - 1 : spans[k].id # spans[i].id
        /\ \A k \in 1..j - 1 : spans[k].id # spans[j].id
        BY DEF Kept
  <2>3. ~(j < i) /\ ~(i < j)
        BY <1>6, <2>1, <2>2
  <2> QED
      BY <2>1, <2>3
<1>7. Kept(spans) = Kept(spans) \cap DOMAIN spans
      BY <1>2
<1>8. Distinct(Picked(spans, Kept(spans)))
      BY <1>6, <1>7, PickedDistinct
<1> QED
    BY <1>3, <1>4, <1>5, <1>8 DEF Unique

\* A function on the first numbers is a sequence.
LEMMA IsASeq ==
    ASSUME NEW T, NEW m \in Nat, NEW f \in [1..m -> T]
    PROVE  f \in Seq(T)
OBVIOUS

-----------------------------------------------------------------------------
\* Ids that tell spans apart.
IdsTell(V) == \A s, t \in V : s.id = t.id => s = t

\* A list repeats no id if it repeats no span and ids tell spans apart.
LEMMA DistinctIdsAre ==
    ASSUME NEW s
    PROVE  DistinctIds(s) <=> Distinct(s) /\ IdsTell(ToSet(s))
<1>1. DistinctIds(s) => Distinct(s) /\ IdsTell(ToSet(s))
      BY DEF DistinctIds, Distinct, IdsTell, ToSet
<1>2. Distinct(s) /\ IdsTell(ToSet(s)) => DistinctIds(s)
  <2> SUFFICES ASSUME Distinct(s), IdsTell(ToSet(s)),
                      NEW k \in DOMAIN s, NEW l \in DOMAIN s, s[k].id = s[l].id
               PROVE  k = l
      BY DEF DistinctIds
  <2>1. s[k] \in ToSet(s) /\ s[l] \in ToSet(s)
        BY DEF ToSet
  <2>2. s[k] = s[l]
        BY <2>1 DEF IdsTell
  <2> QED
      BY <2>2 DEF Distinct
<1> QED
    BY <1>1, <1>2

\* What a filter leaves of a list without repeated ids.
LEMMA PickedIds ==
    ASSUME NEW T, NEW seq \in Seq(T), DistinctIds(seq), NEW S,
           NEW p, p = Picked(seq, S)
    PROVE  /\ p \in Seq(T) /\ DistinctIds(p)
           /\ ToSet(p) = {seq[i] : i \in S \cap DOMAIN seq}
<1>1. p \in Seq(T) /\ ToSet(p) = {seq[i] : i \in S \cap DOMAIN seq}
      BY PickedFacts
<1>2. Distinct(seq) /\ IdsTell(ToSet(seq))
      BY DistinctIdsAre
<1>3. Distinct(p)
  <2>1. PICK A : A = S \cap DOMAIN seq
        OBVIOUS
  <2>2. \A i, j \in A : seq[i] = seq[j] => i = j
        BY <1>2, <2>1 DEF Distinct
  <2> QED
      BY <2>1, <2>2, PickedDistinct
<1>4. IdsTell(ToSet(p))
  <2>1. ToSet(p) \subseteq ToSet(seq)
        BY <1>1 DEF ToSet
  <2> QED
      BY <1>2, <2>1 DEF IdsTell
<1> QED
    BY <1>1, <1>3, <1>4, DistinctIdsAre

\* A filter that lets everything through changes nothing.
LEMMA PickedAll ==
    ASSUME NEW T, NEW seq \in Seq(T), NEW S, DOMAIN seq \subseteq S
    PROVE  Picked(seq, S) = seq
<1> PICK N \in Nat : N = Len(seq) /\ DOMAIN seq = 1..N
    OBVIOUS
<1>1. PICK F : PicksUpto(F, T, N, seq, S) /\ Picked(seq, S) = F[N]
      BY PickedSteps
<1>2. /\ F \in [0..N -> Seq(T)] /\ F[0] = <<>>
      /\ \A n \in 1..N : F[n] = Append(F[n - 1], seq[n])
      BY <1>1 DEF PicksUpto
<1> DEFINE H == {n \in 0..N : Len(F[n]) = n /\ \A k \in 1..n : F[n][k] = seq[k]}
<1>3. 0 \in H
      BY <1>2
<1>4. ASSUME NEW n \in 1..N, n - 1 \in H PROVE n \in H
  <2>1. seq[n] \in T
        OBVIOUS
  <2>0. n - 1 \in 0..N
        OBVIOUS
  <2>a. PICK p : p = F[n - 1]
        OBVIOUS
  <2>b. p \in Seq(T) /\ Len(p) = n - 1
        BY <1>2, <1>4, <2>0, <2>a
  <2>c. F[n] = Append(p, seq[n])
        BY <1>2, <2>a
  <2>2. /\ Len(F[n]) = n /\ F[n][n] = seq[n]
        /\ \A k \in 1..n - 1 : F[n][k] = F[n - 1][k]
    <3>1. PICK q : q = F[n]
          OBVIOUS
    <3>2. PICK m : m = n - 1
          OBVIOUS
    <3>3. /\ Len(q) = m + 1 /\ q[m + 1] = seq[n]
          /\ \A k \in 1..m : q[k] = p[k]
          BY <2>1, <2>b, <2>c, <3>1, <3>2, Appended
    <3> QED
        BY <2>a, <3>1, <3>2, <3>3
  <2>3. \A k \in 1..n : k = n \/ k \in 1..n - 1
        OBVIOUS
  <2> QED
      BY <1>4, <2>2, <2>3
<1> HIDE DEF H
<1>5. \A n \in 0..N : n \in H
      BY <1>3, <1>4, UpTo
<1>6. Len(F[N]) = N /\ \A k \in 1..N : F[N][k] = seq[k]
      BY <1>5 DEF H
<1>7. F[N] \in Seq(T)
      BY <1>2
<1> QED
    BY <1>1, <1>6, <1>7

\* A list turned around.
LEMMA TurnedAround ==
    ASSUME NEW T, NEW N \in Nat, NEW s \in Seq(T), N = Len(s),
           NEW r \in [1..N -> T], \A i \in 1..N : r[i] = s[(N - i) + 1]
    PROVE  /\ r \in Seq(T) /\ ToSet(r) = ToSet(s) /\ Len(r) = Len(s)
           /\ DistinctIds(s) => DistinctIds(r)
<1>1. \A i \in 1..N : (N - i) + 1 \in 1..N /\ (N - ((N - i) + 1)) + 1 = i
      OBVIOUS
<1>2. r \in Seq(T) /\ Len(r) = N /\ DOMAIN r = 1..N /\ DOMAIN s = 1..N
      OBVIOUS
<1>3. \A i \in 1..N : s[i] = r[(N - i) + 1]
      BY <1>1
<1>4. ToSet(r) = ToSet(s)
  <2>1. \A i \in 1..N : s[i] \in ToSet(r)
    <3> SUFFICES ASSUME NEW i \in 1..N PROVE s[i] \in ToSet(r)
        OBVIOUS
    <3>1. (N - i) + 1 \in DOMAIN r /\ s[i] = r[(N - i) + 1]
          BY <1>1, <1>2, <1>3
    <3> QED
        BY <3>1 DEF ToSet
  <2>2. \A i \in 1..N : r[i] \in ToSet(s)
    <3> SUFFICES ASSUME NEW i \in 1..N PROVE r[i] \in ToSet(s)
        OBVIOUS
    <3>1. (N - i) + 1 \in DOMAIN s /\ r[i] = s[(N - i) + 1]
          BY <1>1, <1>2
    <3> QED
        BY <3>1 DEF ToSet
  <2> QED
      BY <1>2, <2>1, <2>2 DEF ToSet
<1>5. ASSUME DistinctIds(s), NEW k \in 1..N, NEW l \in 1..N, r[k].id = r[l].id
      PROVE  k = l
  <2>1. (N - k) + 1 \in DOMAIN s /\ (N - l) + 1 \in DOMAIN s
        BY <1>1, <1>2
  <2>2. s[(N - k) + 1].id = s[(N - l) + 1].id
        BY <1>5
  <2>3. (N - k) + 1 = (N - l) + 1
        BY <1>5, <2>1, <2>2 DEF DistinctIds
  <2> QED
      BY <2>3
<1> QED
    BY <1>2, <1>4, <1>5 DEF DistinctIds

\* That is what Reverse does.
LEMMA ReverseFacts ==
    ASSUME NEW T, NEW s \in Seq(T), NEW r, r = Reverse(s)
    PROVE  /\ r \in Seq(T) /\ ToSet(r) = ToSet(s) /\ Len(r) = Len(s)
           /\ DistinctIds(s) => DistinctIds(r)
<1>1. PICK N \in Nat : N = Len(s) /\ DOMAIN s = 1..N
      OBVIOUS
<1>2. r = [i \in 1..N |-> s[(N - i) + 1]]
      BY <1>1 DEF Reverse
<1>3. \A i \in 1..N : (N - i) + 1 \in 1..N
      OBVIOUS
<1>4. \A i \in 1..N : s[i] \in T
      BY <1>1
<1>5. r \in [1..N -> T] /\ \A i \in 1..N : r[i] = s[(N - i) + 1]
      BY <1>2, <1>3, <1>4
<1> QED
    BY <1>1, <1>5, TurnedAround

-----------------------------------------------------------------------------
\* The entries of a sequence over a set are in the set.
LEMMA SeqPart ==
    ASSUME NEW O, NEW q \in Seq(O)
    PROVE  ToSet(q) \subseteq O
<1>1. \A k \in DOMAIN q : q[k] \in O
      OBVIOUS
<1> QED
    BY <1>1 DEF ToSet

\* Lists without an entry in common.
Apart(a, b) == \A x \in ToSet(a) : x \notin ToSet(b)

\* Two lists without repetitions and without a common entry make another.
LEMMA JoinDistinct ==
    ASSUME NEW T, NEW a \in Seq(T), NEW b \in Seq(T), NEW c, IsJoin(c, a, b),
           Distinct(a), Distinct(b), Apart(a, b)
    PROVE  Distinct(c)
<1>1. PICK m \in Nat : m = Len(a) /\ DOMAIN a = 1..m
      OBVIOUS
<1>2. PICK n \in Nat : n = Len(b) /\ DOMAIN b = 1..n
      OBVIOUS
<1>3. /\ c \in Seq(T) /\ Len(c) = m + n
      /\ \A k \in 1..m : c[k] = a[k]
      /\ \A k \in 1..n : c[m + k] = b[k]
      BY <1>1, <1>2, JoinFacts
<1>4. DOMAIN c = 1..m + n
      BY <1>1, <1>2, <1>3
<1>5. \A k \in 1..m, l \in 1..n : a[k] # b[l]
      BY <1>1, <1>2 DEF Apart, ToSet
<1>6. \A k \in 1..m + n : k \in 1..m \/ (k - m \in 1..n /\ c[k] = b[k - m])
  <2>1. ASSUME NEW k \in 1..m + n, k \notin 1..m PROVE k - m \in 1..n /\ c[k] = b[k - m]
    <3>1. k - m \in 1..n /\ m + (k - m) = k
          BY <1>1, <1>2, <2>1
    <3> QED
        BY <1>3, <3>1
  <2> QED
      BY <2>1
<1>7. \A k, l \in 1..m : a[k] = a[l] => k = l
      BY <1>1 DEF Distinct
<1>8. \A k, l \in 1..n : b[k] = b[l] => k = l
      BY <1>2 DEF Distinct
<1>9. ASSUME NEW k \in 1..m + n, NEW l \in 1..m + n, c[k] = c[l] PROVE k = l
  <2>1. CASE k \in 1..m /\ l \in 1..m
        BY <1>3, <1>7, <1>9, <2>1
  <2>2. CASE k \in 1..m /\ l \notin 1..m
        BY <1>3, <1>5, <1>6, <1>9, <2>2
  <2>3. CASE k \notin 1..m /\ l \in 1..m
        BY <1>3, <1>5, <1>6, <1>9, <2>3
  <2>4. CASE k \notin 1..m /\ l \notin 1..m
    <3>1. k - m \in 1..n /\ l - m \in 1..n /\ b[k - m] = b[l - m]
          BY <1>6, <1>9, <2>4
    <3>2. k - m = l - m
          BY <1>8, <3>1
    <3> QED
        BY <1>1, <3>2
  <2> QED
      BY <2>1, <2>2, <2>3, <2>4
<1> QED
    BY <1>4, <1>9 DEF Distinct

\* So do many lists that are apart from each other.
LEMMA FlattenDistinct ==
    ASSUME NEW T, NEW ss \in Seq(Seq(T)), \A i \in DOMAIN ss : Distinct(ss[i]),
           \A i, j \in DOMAIN ss : i # j => Apart(ss[i], ss[j])
    PROVE  Distinct(FlattenSeq(ss))
<1>n. PICK N \in Nat : N = Len(ss) /\ DOMAIN ss = 1..N
      OBVIOUS
<1>1. \A n \in 1..N : ss[n] \in Seq(T)
      BY <1>n
<1>2. PICK F : JoinsUpto(F, T, N, ss) /\ FlattenSeq(ss) = F[N]
      BY <1>n, FlattenSteps
<1>3. /\ F \in [0..N -> Seq(T)] /\ F[0] = <<>>
      /\ \A n \in 1..N : F[n] = F[n - 1] \o ss[n]
      BY <1>2 DEF JoinsUpto
<1> DEFINE H == {n \in 0..N : /\ Distinct(F[n])
                              /\ \A x \in ToSet(F[n]) :
                                    \E i \in 1..n : x \in ToSet(ss[i])}
<1>4. 0 \in H
  <2>1. F[0] = <<>> /\ ToSet(<<>>) = {} /\ Distinct(<<>>) /\ 0 \in 0..N
        BY <1>n, <1>3 DEF ToSet, Distinct
  <2> QED
      BY <2>1
<1>5. ASSUME NEW n \in 1..N, n - 1 \in H PROVE n \in H
  <2>1. /\ Distinct(F[n - 1]) /\ n - 1 \in 0..N /\ n \in 0..N
        /\ \A x \in ToSet(F[n - 1]) : \E i \in 1..n - 1 : x \in ToSet(ss[i])
        BY <1>n, <1>5
  <2>2. F[n - 1] \in Seq(T) /\ ss[n] \in Seq(T)
        BY <1>1, <1>3, <2>1
  <2>3. IsJoin(F[n], F[n - 1], ss[n])
        BY <1>3 DEF IsJoin
  <2>4. ToSet(F[n]) = ToSet(F[n - 1]) \cup ToSet(ss[n])
        BY <2>2, <2>3, JoinFacts
  <2>5. \A i \in 1..n - 1 : i \in 1..N /\ i \in 1..n /\ i # n
        BY <1>n
  <2>6. Apart(F[n - 1], ss[n])
    <3>1. ASSUME NEW x \in ToSet(F[n - 1]) PROVE x \notin ToSet(ss[n])
      <4>1. PICK i \in 1..n - 1 : x \in ToSet(ss[i])
            BY <2>1
      <4>2. Apart(ss[i], ss[n])
            BY <1>n, <2>5
      <4> QED
          BY <4>1, <4>2 DEF Apart
    <3> QED
        BY <3>1 DEF Apart
  <2>7. Distinct(F[n])
    <3>1. Distinct(ss[n])
          BY <1>n
    <3> QED
        BY <2>1, <2>2, <2>3, <2>6, <3>1, JoinDistinct
  <2>8. \A x \in ToSet(F[n]) : \E i \in 1..n : x \in ToSet(ss[i])
    <3>1. n \in 1..n
          BY <1>n
    <3> QED
        BY <2>1, <2>4, <2>5, <3>1
  <2> QED
      BY <2>1, <2>7, <2>8
<1>6. N \in H
  <2> HIDE DEF H
  <2>1. \A n \in 0..N : n \in H
        BY <1>n, <1>4, <1>5, UpTo
  <2> QED
      BY <1>n, <2>1
<1> QED
    BY <1>2, <1>6


=============================================================================
