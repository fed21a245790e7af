------------------------------- MODULE MCHash -------------------------------
(* Model-checking instance of Hash.                                         *)
EXTENDS Hash

\* Every string of up to MaxLen bytes over a byte set with 0x01, a byte
\* with the high bit alone and 0xff: one word and every tail length.
MaxLen == 7
ByteSet == {1, 128, 255}
MCInputs == UNION {[1..n -> ByteSet] : n \in 0..MaxLen}

\* Seed 0 and 0xbc9f1d34, the seed of the bloom filter hash in leveldb.
MCSeeds == {<<0, 0, 0, 0>>, <<52, 29, 159, 188>>}

=============================================================================
