---------------------------- MODULE Subsequences ----------------------------
(* The elements of a sequence that a loop keeps, in their order.              *)
EXTENDS Integers, Sequences

\* Those of s at the positions in I.
Picked(s, I) ==
  LET picked[n \in 0 .. Len(s)] ==
        IF n = 0 THEN <<>>
        ELSE IF n \in I THEN Append(picked[n - 1], s[n])
        ELSE picked[n - 1]
  IN  picked[Len(s)]
=============================================================================
