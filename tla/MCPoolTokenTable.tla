-------------------------- MODULE MCPoolTokenTable --------------------------
(* PoolTokenTable with the multiplicative hash of the code: below 256 slots *)
(* only the low byte of the multiplier, 21, reaches the masked result.       *)
EXTENDS PoolTokenTable, FiniteSetsExt

HashSlot(t) == (t * 21) % Cap

\* poolCreate doubles from 4 until 2 * maxSize fits.
ASSUME Cap = Min({c \in {2 ^ k : k \in 2..6} : c >= 2 * MaxSize})
=============================================================================
