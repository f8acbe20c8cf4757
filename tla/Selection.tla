----------------------------- MODULE Selection ------------------------------
(* Which proposers of a mixture of agents stay in it (gateway/moa_select.py, *)
(* called by gateway/moa.py after the first layer): a greedy choice by how   *)
(* far the answers' embeddings are apart and, if given, by quality.          *)
(*                                                                           *)
(* Distances are integers; that of the code lies between 0 and 2, and is 1   *)
(* to an answer that has no embedding, whatever the other one.               *)
EXTENDS Integers, Sequences, FiniteSets

CONSTANT Orthogonal   \* the distance of 1

VARIABLES pool,       \* the problem: [n, k, apart, blank, quality, alpha]
          selected    \* the proposers chosen so far, in order

vars == <<pool, selected>>

LeastOf(S) == CHOOSE x \in S : \A y \in S : x <= y
MostOf(S) == CHOOSE x \in S : \A y \in S : y <= x

Proposer == 1 .. pool.n
Chosen == {selected[i] : i \in DOMAIN selected}
Remaining == Proposer \ Chosen

\* pool.quality: a function of the proposers, or <<>> when none is given.
Graded == pool.quality # <<>>

-----------------------------------------------------------------------------
Distance(i, j) ==
    IF {i, j} \cap pool.blank # {} THEN Orthogonal ELSE pool.apart[{i, j}]

\* Mutated form of Gain: the distance to the farthest of them.
GainOfFarthest(j, S) == MostOf({Distance(j, s) : s \in S})

\* How far a proposer is from the nearest of S.
Gain(j, S) == LeastOf({Distance(j, s) : s \in S})

\* _minmax scales the values f[x], x \in S, to fractions Above / Width; values
\* that are all the same come to zero.
Above(f, x, S) == f[x] - LeastOf({f[y] : y \in S})
Width(f, S) == LET w == MostOf({f[y] : y \in S}) - LeastOf({f[y] : y \in S}) IN IF w = 0 THEN 1 ELSE w

\* Quality is scaled over all proposers, distance over those that remain; alpha
\* is in halves.  The common denominator is left out.
Score(j) ==
    LET gain == [i \in Remaining |-> Gain(i, Chosen)]
    IN  IF ~Graded THEN gain[j]
        ELSE pool.alpha * Above(pool.quality, j, Proposer) * Width(gain, Remaining)
             + (2 - pool.alpha) * Above(gain, j, Remaining) * Width(pool.quality, Proposer)

\* argmax: the first of the best.
FirstBest(value, S) == LeastOf({j \in S : \A i \in S : value[i] <= value[j]})

Kept == IF pool.k > pool.n THEN pool.n ELSE IF pool.k < 1 THEN 1 ELSE pool.k

InitIn(pools) ==
    /\ pool \in pools
    /\ selected = <<IF Graded THEN FirstBest(pool.quality, Proposer) ELSE 1>>

Pick ==
    /\ Len(selected) < Kept
    /\ selected' = Append(selected, FirstBest([j \in Remaining |-> Score(j)], Remaining))
    /\ UNCHANGED pool

Next == Pick

-----------------------------------------------------------------------------
(* What the choice is good for.                                             *)

Finished == Len(selected) = Kept
FromNearest(j, S) == LeastOf({Distance(j, s) : s \in S})
Before(i) == {selected[h] : h \in 1 .. i - 1}

\* focal_diversity_select: as many proposers stay as asked for, and without
\* grades, or with alpha 0, whoever is left out is no farther from those that
\* stay than any two of them are from each other.  With grades, nobody is left
\* out who is better than one that stays and, unless alpha is 1, as far from
\* those chosen before as that one was.
SelectionIsSpread ==
    Finished =>
        /\ Cardinality(Chosen) = Kept
        /\ Graded => \A j \in Proposer : pool.quality[j] <= pool.quality[selected[1]]
        /\ \A i \in 2 .. Kept, j \in Remaining :
             IF ~Graded \/ pool.alpha = 0
             THEN FromNearest(j, Chosen) <= FromNearest(selected[i], Before(i))
             ELSE pool.quality[selected[i]] < pool.quality[j] =>
                      /\ pool.alpha = 1
                      /\ FromNearest(j, Before(i)) < FromNearest(selected[i], Before(i))

=============================================================================
