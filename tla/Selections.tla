----------------------------- MODULE Selections -----------------------------
(***************************************************************************)
(* The part of a sequence that a retain or filter of the code leaves.      *)
(***************************************************************************)
EXTENDS Integers, Sequences

\* The elements of q at the positions in keep.  (A recursive function and not SelectSeq,
\* of which the provers know nothing.)
Selected(q, keep) ==
    LET chosen[n \in 0..Len(q)] ==
            IF n = 0 THEN <<>>
            ELSE IF n \in keep THEN Append(chosen[n - 1], q[n]) ELSE chosen[n - 1]
    IN  chosen[Len(q)]

=============================================================================
