----------------------------- MODULE SpanLists -----------------------------
(***************************************************************************)
(* What both sides of the wire do to lists of spans: filter them, sort them *)
(* and set repeated ids aside.  (SelectSeq and SortSeq would filter and     *)
(* sort as well, but have no definition that a proof could use.)            *)
(***************************************************************************)
EXTENDS Spans, SequencesExt, FiniteSets

\* What a filter lets through: the entries at the positions in S.
Picked(seq, S) ==
    LET upto[n \in 0..Len(seq)] ==
            IF n = 0 THEN <<>>
            ELSE IF n \in S THEN Append(upto[n - 1], seq[n])
            ELSE upto[n - 1]
    IN  upto[Len(seq)]

\* A stable sort: each entry comes behind those it does not precede.
Sorted(seq, Before(_, _)) ==
    LET upto[n \in 0..Len(seq)] ==
            IF n = 0 THEN <<>>
            ELSE LET s == upto[n - 1]
                     ahead == {k \in DOMAIN s : ~Before(seq[n], s[k])}
                 IN  InsertAt(s, Cardinality(ahead) + 1, seq[n])
    IN  upto[Len(seq)]

\* The positions of the spans that are the first with their id.
Kept(spans) ==
    {i \in DOMAIN spans : \A j \in 1..i - 1 : spans[j].id # spans[i].id}

Unique(spans) == Picked(spans, Kept(spans))

=============================================================================
