------------------------------- MODULE Lists --------------------------------
(***************************************************************************)
(* What the fragmenters and the router do with their lists: leave elements *)
(* out, sort.                                                              *)
(***************************************************************************)
EXTENDS Integers, Sequences, FiniteSets, SequencesExt

\* The elements of s that are in T, in their order.
OnlyThose(s, T) == FoldLeft(LAMBDA a, x : IF x \in T THEN Append(a, x) ELSE a, <<>>, s)

\* Elements with the same key stay in their order.
StableSort(s, key) ==
  LET before(i, j) == key[s[i]] < key[s[j]] \/ (key[s[i]] = key[s[j]] /\ i < j)
      place == [i \in DOMAIN s |-> Cardinality({j \in DOMAIN s : before(j, i)}) + 1]
  IN  [k \in DOMAIN s |-> s[CHOOSE i \in DOMAIN s : place[i] = k]]
=============================================================================
