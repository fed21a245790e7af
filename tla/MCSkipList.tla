----------------------------- MODULE MCSkipList -----------------------------
(* Model-checking instance of SkipList: integer keys, reader model values. *)
EXTENDS SkipList, TLC



ReaderSymmetry == Permutations(Readers)

=============================================================================
