-------------------------------- MODULE Lists --------------------------------
(***************************************************************************)
(* Filtered and sorted lists, as folds and choices the proofs can expand   *)
(* (they do not see SelectSeq and SortSeq).                                *)
(***************************************************************************)
EXTENDS Integers, Sequences, SequencesExt

\* The elements of s that are in S, in their order.
Members(s, S) ==
    FoldLeft(LAMBDA kept, x : IF x \in S THEN Append(kept, x) ELSE kept, << >>, s)

Filtered(s, Test(_)) == Members(s, {s[i] : i \in {j \in DOMAIN s : Test(s[j])}})

\* The members of S by growing value, in one order of those with equal values.
SortedBy(S, value) ==
    CHOOSE order \in SetToSeqs(S) :
        \A i, j \in DOMAIN order : i < j => value[order[i]] <= value[order[j]]
=============================================================================
