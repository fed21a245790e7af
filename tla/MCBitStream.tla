---------------------------- MODULE MCBitStream ----------------------------
(* Model-checking instance of BitStream.                                    *)
EXTENDS BitStream

=============================================================================
