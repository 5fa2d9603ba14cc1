------------------------------ MODULE SeqFilter ------------------------------
(***************************************************************************)
(* A loop that copies the elements it keeps, as a recursive function, so   *)
(* that proofs can use it: what SelectSeq does, with the test as a set.    *)
(***************************************************************************)
EXTENDS Naturals, Sequences

\* The elements of s that are in S, in their order.
Only(s, S) ==
    LET F[n \in 0 .. Len(s)] ==
            IF n = 0 THEN <<>> ELSE IF s[n] \in S THEN Append(F[n - 1], s[n]) ELSE F[n - 1]
    IN  F[Len(s)]
=============================================================================
