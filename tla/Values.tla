-------------------------------- MODULE Values --------------------------------
(* What the desktop modules share: the absent value (null, undefined, Option::None), and what a filter leaves. *)
EXTENDS Integers, Sequences, FiniteSets
CONSTANT None
ASSUME NoneAssumption == None \notin BOOLEAN

\* The elements of s at the given positions, in their order. A function rather than SelectSeq, of which the
\* prover knows nothing.
Chosen(s, positions) ==
  LET chosen[n \in 0..Len(s)] ==
        IF n = 0 THEN <<>> ELSE IF n \in positions THEN Append(chosen[n - 1], s[n]) ELSE chosen[n - 1]
  IN chosen[Len(s)]

\* The given positions of s, in their order
InOrder(s, positions) == Chosen([i \in DOMAIN s |-> i], positions)

\* The elements of s from the lowest rank to the highest, those of one rank in the order of s: a stable sort.
ByRank(s, rank) ==
  LET place == [i \in DOMAIN s |-> Cardinality({j \in DOMAIN s : rank[j] < rank[i] \/ (rank[j] = rank[i] /\ j <= i)})]
  IN  [k \in DOMAIN s |-> s[CHOOSE i \in DOMAIN s : place[i] = k]]

\* A function rather than a fold, for the same reason
SumOf(numbers) ==
  LET sum[n \in 0..Len(numbers)] == IF n = 0 THEN 0 ELSE sum[n - 1] + numbers[n]
  IN  sum[Len(numbers)]
===============================================================================
