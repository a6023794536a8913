------------------------------ MODULE Picking ------------------------------
(***************************************************************************)
(* Parts of a sequence, and sequences strung together, written as          *)
(* recursive functions so that they can be reasoned about.                 *)
(***************************************************************************)
EXTENDS Naturals, Sequences

\* The elements of s at the indices in I, in the order they have in s.
Pick(s, I) ==
    LET upto[n \in 0 .. Len(s)] ==
          IF n = 0 THEN <<>>
          ELSE IF n \in I THEN Append(upto[n - 1], s[n]) ELSE upto[n - 1]
    IN upto[Len(s)]

\* The sequences part[x] for the x in S one after the other; first[T] is the next of
\* those left in T.
Strung(S, first, part) ==
    LET from[T \in SUBSET S] ==
          IF T = {} THEN <<>> ELSE part[first[T]] \o from[T \ {first[T]}]
    IN from[S]

\* What is in the sequence q.
Elems(q) == {q[i] : i \in DOMAIN q}
=============================================================================
