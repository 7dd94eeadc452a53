------------------------------ MODULE Selection ------------------------------
(***************************************************************************)
(* A Python comprehension with a condition, [s[k] for k in ... if k in P], *)
(* and sorted(..., key=..., reverse=True).  SelectSeq and SetToSortSeq     *)
(* take the condition and the order as operators, which the provers cannot *)
(* look into; here they are a set of positions and a sequence of keys.     *)
(***************************************************************************)
EXTENDS Integers, Sequences

\* What is selected of the first k elements of s, for every k.
SelectedUpTo(s, P) ==
  LET upTo[k \in 0..Len(s)] ==
        IF k = 0 THEN <<>>
        ELSE IF k \in P THEN Append(upTo[k - 1], s[k]) ELSE upTo[k - 1]
  IN  upTo

\* The elements of s at the positions in P, in the order of s.
Selected(s, P) == SelectedUpTo(s, P)[Len(s)]

\* The higher key comes first; of equal keys the one that was first: the sort
\* is stable, also in reverse.
Precedes(key, j, k) == key[j] > key[k] \/ (key[j] = key[k] /\ j < k)

\* The positions of key in descending order of the keys.
Descending(key) ==
  CHOOSE order \in [DOMAIN key -> DOMAIN key] :
    \A j, k \in DOMAIN key : j < k => Precedes(key, order[j], order[k])
=============================================================================
