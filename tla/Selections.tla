----------------------------- MODULE Selections -----------------------------
(* Loops that copy the elements they keep: `if keep(x) { out = append(out, x) }`. *)
(* SelectSeq says the same; this form is one the provers can unfold.          *)
EXTENDS Naturals, Sequences

\* What has been copied after each element.
SelectedUpTo(s, A) ==
    LET out[n \in 0..Len(s)] ==
            IF n = 0 THEN <<>>
            ELSE IF s[n] \in A THEN Append(out[n - 1], s[n]) ELSE out[n - 1]
    IN out

\* The elements of s that are in A, in the order of s.
Selected(s, A) == SelectedUpTo(s, A)[Len(s)]
=============================================================================
