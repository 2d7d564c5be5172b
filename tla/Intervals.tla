----------------------------- MODULE Intervals -----------------------------
(***************************************************************************)
(* Half-open stretches of time [start, end) and the few operations on      *)
(* lists of them that focus time and the reports are computed with         *)
(* (worktime/domain/intervals.ts).  A list is a sequence; the operations   *)
(* are the code's: sort, then one sweep.                                   *)
(***************************************************************************)
EXTENDS Integers, Sequences, SequencesExt

Stretch(s, e) == [start |-> s, end |-> e]

Larger(a, b) == IF a < b THEN b ELSE a
Smaller(a, b) == IF a < b THEN a ELSE b

\* An open end (Null in the code) runs to now; a stretch is never negative.
Span(s, e, Open, now) ==
    LET until == IF e = Open THEN now ELSE e IN Stretch(s, Larger(s, until))

Total(list, Value(_)) ==
    FoldLeft(LAMBDA sum, x : sum + Value(x), 0, list)

\* mutant: the stretch that was read last ends the merged one
Merge_LastEnds(out, i, gap) ==
    LET last == out[Len(out)] IN
    IF out # << >> /\ i.start - last.end <= gap
    THEN [out EXCEPT ![Len(out)].end = i.end]
    ELSE Append(out, i)

\* One sorted stretch after the others: it joins the last one when at most gap
\* lies between them.
Merge(out, i, gap) ==
    LET last == out[Len(out)] IN
    IF out # << >> /\ i.start - last.end <= gap
    THEN [out EXCEPT ![Len(out)].end = Larger(@, i.end)]
    ELSE Append(out, i)

Normalize(list) ==
    FoldLeft(LAMBDA out, i : Merge(out, i, 0), << >>,
             SortSeq(SelectSeq(list, LAMBDA i : i.end > i.start),
                     LAMBDA a, b : a.start < b.start))

\* Points take part, so a point within gap of a stretch extends it.
JoinGaps(list, gap) ==
    FoldLeft(LAMBDA out, i : Merge(out, i, gap), << >>,
             SortSeq(SelectSeq(list, LAMBDA i : i.end >= i.start),
                     LAMBDA a, b : \/ a.start < b.start
                                   \/ a.start = b.start /\ a.end < b.end))

Length(list) == Total(Normalize(list), LAMBDA i : i.end - i.start)

\* Two sorted lists are swept together; the one whose stretch ends first moves on.
Intersect(a, b) ==
    LET x == Normalize(a)
        y == Normalize(b)
        Sweep[i \in 1..Len(x) + 1, j \in 1..Len(y) + 1] ==
            IF i > Len(x) \/ j > Len(y) THEN << >>
            ELSE LET s == Larger(x[i].start, y[j].start)
                     e == Smaller(x[i].end, y[j].end)
                 IN (IF e > s THEN <<Stretch(s, e)>> ELSE << >>)
                    \o (IF x[i].end < y[j].end THEN Sweep[i + 1, j]
                        ELSE Sweep[i, j + 1])
    IN Sweep[1, 1]

\* One piece loses the sorted cuts one by one; what is left behind the cursor
\* stays, and a cut that ends before the cursor or starts after the piece is
\* passed over.
CutPiece(piece, cuts) ==
    LET Cut(state, c) ==
            IF c.end <= state.cursor \/ c.start >= piece.end THEN state
            ELSE [kept |-> IF c.start > state.cursor
                           THEN Append(state.kept, Stretch(state.cursor, c.start))
                           ELSE state.kept,
                  cursor |-> Larger(state.cursor, c.end)]
        last == FoldLeft(Cut, [kept |-> << >>, cursor |-> piece.start], cuts)
    IN IF last.cursor < piece.end
       THEN Append(last.kept, Stretch(last.cursor, piece.end))
       ELSE last.kept

Subtract(a, b) ==
    FoldLeft(LAMBDA out, piece : out \o CutPiece(piece, Normalize(b)), << >>, Normalize(a))

Overlaps(a, b) == a.start < b.end /\ b.start < a.end

-----------------------------------------------------------------------------
(* What the operations are meant to compute. *)

Moments(list) == UNION {i.start..(i.end - 1) : i \in {list[k] : k \in DOMAIN list}}

\* Sorted, without empty stretches, and with more than gap between two of them.
IsTidy(list, gap) ==
    /\ \A k \in DOMAIN list : list[k].start <= list[k].end
    /\ \A k \in 1..Len(list) - 1 : list[k].end + gap < list[k + 1].start

\* Every moment between two stretches that are at most gap apart, and the
\* stretches themselves.
Joined(list, gap) ==
    LET all == {list[k] : k \in DOMAIN list} IN
    Moments(list) \cup
    UNION {p[1].end..(p[2].start - 1) :
             p \in {q \in all \X all : q[2].start - q[1].end <= gap}}

\* On two lists, the operations compute what the set operations they stand for do.
SweepsAgree(a, b, gap) ==
    /\ IsTidy(Normalize(a \o b), 0)
    /\ Moments(Normalize(a \o b)) = Moments(a \o b)
    /\ Length(a \o b) = Cardinality(Moments(a \o b))
    /\ IsTidy(JoinGaps(a \o b, gap), gap)
    /\ Moments(JoinGaps(a \o b, gap)) = Joined(a \o b, gap)
    /\ IsTidy(Intersect(a, b), 0) /\ Moments(Intersect(a, b)) = Moments(a) \cap Moments(b)
    /\ IsTidy(Subtract(a, b), 0) /\ Moments(Subtract(a, b)) = Moments(a) \ Moments(b)
=============================================================================
