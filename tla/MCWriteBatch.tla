---------------------------- MODULE MCWriteBatch ----------------------------
(* Model-checking instance of WriteBatch.                                   *)
EXTENDS WriteBatch

\* One key; an empty and a one-byte value.
MCKeys == {<<7>>}
MCVals == {<<>>, <<9>>}

=============================================================================
