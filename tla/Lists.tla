------------------------------- MODULE Lists -------------------------------
(***************************************************************************)
(* Lists that are searched, and erased from.  Keep is a recursive function *)
(* so that it can be reasoned about: SelectSeq takes an operator.          *)
(***************************************************************************)
EXTENDS Naturals, Sequences, SequencesExt

\* std::erase_if: the elements of q that are in S, in their order.
Keep(q, S) ==
    LET rest[n \in 0 .. Len(q)] ==
            IF n = 0 THEN <<>>
            ELSE IF q[n] \in S THEN Append(rest[n - 1], q[n]) ELSE rest[n - 1]
    IN  rest[Len(q)]

\* std::find_if: the first element of q that is in S, if there is one.
First(q, S) == q[SelectInSeq(q, LAMBDA c : c \in S)]
=============================================================================
