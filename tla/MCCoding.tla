------------------------------ MODULE MCCoding ------------------------------
(* Model-checking instance of Coding.                                       *)
EXTENDS Coding

\* A string long enough for a two-byte length prefix.
Long == [i \in 1..128 |-> 7]

MCStrings == {<<>>, <<200>>, Long}

=============================================================================
