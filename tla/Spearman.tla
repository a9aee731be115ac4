------------------------------- MODULE Spearman -------------------------------
(***************************************************************************)
(* src/spearman.c: the rank correlation of two sequences.  Ranks are       *)
(* doubled, because equal elements share the mean of theirs; a correlation *)
(* is counted in Marks, and cut to a whole one.                            *)
(***************************************************************************)
EXTENDS Integers, Sequences, SequencesExt, FiniteSetsExt

CONSTANT Marks      \* what a correlation of 1 counts

\* Spearman_ComputeRanks: the sorted elements, and the first and last of a tie.
Ranks(s) ==
    LET sorted == SortSeq(s, <)
        places(v) == {k \in DOMAIN sorted : sorted[k] = v}
    IN [i \in DOMAIN s |-> Min(places(s[i])) + Max(places(s[i]))]

Total(n, Of(_)) == FoldLeft(LAMBDA sum, i : sum + Of(i), 0, [i \in 1..n |-> i])

\* pearson_correlation: the numerator, and the two factors under the root.
Covariance(x, y) ==
    LET n == Len(x)
    IN n * Total(n, LAMBDA i : x[i] * y[i]) - Total(n, LAMBDA i : x[i]) * Total(n, LAMBDA i : y[i])

Correlation(a, b) ==
    LET x == Ranks(a)
        y == Ranks(b)
        num == Covariance(x, y)
        sq == Covariance(x, x) * Covariance(y, y)
        marks == Max({p \in 0..Marks : p * p * sq <= Marks * Marks * num * num})
    IN IF sq = 0 THEN 0 ELSE IF num < 0 THEN -marks ELSE marks

---------------------------------------------------------------------------
\* Two sequences put the same moments into the same order, and not all into one.
Follows(a, b) ==
    /\ \E i, j \in DOMAIN b : b[i] # b[j]
    /\ \A i, j \in DOMAIN b : a[i] < a[j] <=> b[i] < b[j]
================================================================================
