------------------------------- MODULE Filtering -------------------------------
(***************************************************************************)
(* The members of a list that are in a set, in their order: what a loop    *)
(* over the list that pushes some of its elements into a new one computes. *)
(***************************************************************************)
EXTENDS Naturals, Sequences

\* Kept(s, T)[n] is what the loop has kept of the first n members of s.
Kept(s, T) ==
  LET kept[n \in 0..Len(s)] ==
        IF n = 0 THEN <<>>
        ELSE IF s[n] \in T THEN Append(kept[n - 1], s[n]) ELSE kept[n - 1]
  IN kept

Keep(s, T) == Kept(s, T)[Len(s)]
=============================================================================
