---------------------------- MODULE Subsequences ----------------------------
(* Array.filter of the source, as recursive functions: what remains of a   *)
(* sequence, in its order.                                                 *)
EXTENDS Integers, SequencesExt

\* The elements of s at the places in I, in the order of s.
Picked(s, I) ==
  LET kept[i \in 0 .. Len(s)] ==
        IF i = 0 THEN <<>> ELSE IF i \in I THEN Append(kept[i - 1], s[i]) ELSE kept[i - 1]
  IN kept[Len(s)]

Only(s, S) == Picked(s, {i \in DOMAIN s : s[i] \in S})
=============================================================================
