------------------------------ MODULE Selection ------------------------------
(* Array.prototype.filter, on a list and the set of the elements to keep: a  *)
(* function over the prefixes of the list, one element after the other.      *)
EXTENDS Naturals, Sequences

Elements(s) == {s[i] : i \in DOMAIN s}

\* The elements of s that are in S, in their order.
Filter(s, S) ==
  LET kept[n \in 0..Len(s)] == IF n = 0 THEN <<>>
                               ELSE IF s[n] \in S THEN Append(kept[n - 1], s[n])
                               ELSE kept[n - 1]
  IN  kept[Len(s)]
=============================================================================
