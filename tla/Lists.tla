------------------------------- MODULE Lists --------------------------------
(***************************************************************************)
(* The elements of a list that are in a set, in the order of the list.     *)
(* SelectSeq with a set for the test, as a recursive function: the prover  *)
(* has no definition of SelectSeq.                                         *)
(***************************************************************************)
EXTENDS Integers, Sequences

KeptUpTo(s, S) ==
  LET kept[i \in 0 .. Len(s)] ==
        IF i = 0 THEN << >>
        ELSE IF s[i] \in S THEN Append(kept[i - 1], s[i]) ELSE kept[i - 1]
  IN  kept

Kept(s, S) == KeptUpTo(s, S)[Len(s)]

(* Where e is in s, and where each element of l is.                        *)
IndexOf(e, s) == CHOOSE i \in 1 .. Len(s) : s[i] = e

Indices(l, s) == [i \in 1 .. Len(l) |-> IndexOf(l[i], s)]

=============================================================================
