-------------------------- MODULE MCSeqlenBalance --------------------------
EXTENDS SeqlenBalance

\* Lengths in units of 8192 tokens.  All small batches of short, long and too long
\* sequences, one of short sequences only, and one in which micro-batches of short sequences
\* get far more tokens than those of long ones.
SmallBatches == UNION {[1..n -> {4, 13, 19}] : n \in 1..7}

AlikeBatch == [i \in 1..12 |-> 4]

UnlikeBatch == [i \in 1..22 |-> IF i <= 6 THEN 13 ELSE 4]

MCBatches == SmallBatches \cup {AlikeBatch, UnlikeBatch}
=============================================================================
