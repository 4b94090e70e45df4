----------------------------- MODULE Selection -----------------------------
(***************************************************************************)
(* What a loop that appends some of the elements it passes leaves behind.    *)
(* (SelectSeq does the same by a test on elements; At selects by places, and  *)
(* is defined by a function of the place, which the provers can unfold.)      *)
(***************************************************************************)
EXTENDS Integers, Sequences

\* The elements of s at the places of K, in their order.
At(s, K) ==
    LET picked[i \in 0..Len(s)] ==
            IF i = 0 THEN <<>>
            ELSE IF i \in K THEN Append(picked[i - 1], s[i]) ELSE picked[i - 1]
    IN picked[Len(s)]

=============================================================================
