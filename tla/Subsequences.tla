---------------------------- MODULE Subsequences ----------------------------
(***************************************************************************)
(* The elements of a sequence that belong to a set, in order.  This is     *)
(* SelectSeq, written as a recursive function: proofs can unfold that.     *)
(***************************************************************************)
EXTENDS Naturals, Sequences

Only(s, T) ==
  LET upto[n \in 0..Len(s)] ==
        IF n = 0 THEN <<>>
        ELSE IF s[n] \in T THEN Append(upto[n - 1], s[n]) ELSE upto[n - 1]
  IN  upto[Len(s)]
=============================================================================
