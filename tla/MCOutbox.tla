------------------------------ MODULE MCOutbox ------------------------------
(* Small instances of Outbox for TLC.                                      *)
EXTENDS Outbox, TLC

\* Producers and workers run the same code; tokens are not permuted, because
\* FreshToken chooses one.
Symmetry == Permutations(Producers) \cup Permutations(Workers)
=============================================================================
