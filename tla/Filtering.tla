------------------------------ MODULE Filtering ------------------------------
(***************************************************************************)
(* The members of a sequence that are in a set, in their order.  It is     *)
(* SelectSeq of the standard module, with a set in the place of the test,  *)
(* so that what a filter keeps can be proved of it.                        *)
(***************************************************************************)
EXTENDS Naturals, Sequences

\* What is kept of the first n members.
FilteredPrefix(s, T) ==
    LET f[n \in 0..Len(s)] == IF n = 0 THEN <<>>
                              ELSE IF s[n] \in T THEN Append(f[n - 1], s[n]) ELSE f[n - 1]
    IN f

Filtered(s, T) == FilteredPrefix(s, T)[Len(s)]
=============================================================================
