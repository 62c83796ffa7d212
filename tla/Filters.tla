-------------------------------- MODULE Filters --------------------------------
(***************************************************************************)
(* The elements of a sequence that belong to a set.  SelectSeq does the    *)
(* same, but has no definition that the provers could expand.              *)
(***************************************************************************)
EXTENDS Naturals, Sequences

\* The elements of s that are in S, in their order.
Within(s, S) ==
  LET kept[k \in 0..Len(s)] ==
        IF k = 0 THEN <<>> ELSE IF s[k] \in S THEN Append(kept[k - 1], s[k]) ELSE kept[k - 1]
  IN kept[Len(s)]

===============================================================================
